SPECIFICATION Spec
CONSTANTS
  Files <- AllFiles
  Old <- Was
  PageBlocks = 2
  AppBlocks = 4
  BootBlocks = 2
  Bank0 = 0
  MaxBlocks = 4
  ManyFiles = FALSE
  PowerFails = TRUE
INVARIANTS CompleteIsWhole BootloaderIsWhole
PROPERTIES NeighboursKept
