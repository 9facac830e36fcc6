SPECIFICATION FairSpec
CONSTANTS
  Files <- EndingFiles
  Old <- Was
  PageBlocks = 2
  AppBlocks = 4
  BootBlocks = 2
  Bank0 = 0
  MaxBlocks = 4
  ManyFiles = FALSE
  PowerFails = FALSE
PROPERTIES CopyEnds
