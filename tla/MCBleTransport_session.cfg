SPECIFICATION Spec
CONSTANTS
  PoolSize = 2
  Total = 4
  Intervals <- MCIntervals
  MaxLosses = 1
  MaxStrays = 1
INVARIANTS
  StoresKept
  ReceiptsHold
  TakenInOrder
  FinalMeansStored
  QueueHasRoom
  NeverDark
PROPERTIES
  HostAnswered
CHECK_DEADLOCK FALSE
