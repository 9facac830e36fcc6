CONSTANTS
  Boards <- AllBoards
  MaxEvents = 3
SPECIFICATION FairSpec
INVARIANTS DoubleReset OtaResumes InitOnce
PROPERTIES TapSwaps TimeoutReturns UnplugLeaves Settles
