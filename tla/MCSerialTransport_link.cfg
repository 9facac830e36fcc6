CONSTANTS
  Builds = {"usb", "uart"}
  Scripts <- AllScripts
  PoolSize = 4
  SchedSize = 3
  SeqModulus = 2
  MaxWire = 2
SPECIFICATION FairSpec
INVARIANTS AcceptedOnce PoolConserved UsbHandledInOrder UsbBuffersApart
PROPERTIES UsbSessionEnds
CHECK_DEADLOCK FALSE
