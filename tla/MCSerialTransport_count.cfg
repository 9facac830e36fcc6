CONSTANTS
  Builds = {"uart"}
  Scripts <- AllScripts
  PoolSize = 4
  SchedSize = 3
  SeqModulus = 2
  MaxWire = 1
SPECIFICATION Spec
INVARIANTS CountMatchesSlots
CHECK_DEADLOCK FALSE
