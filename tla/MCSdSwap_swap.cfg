CONSTANTS
  Updates <- Moves
  MaxFails = 2
SPECIFICATION FairSpec
INVARIANTS NoPageLost SwappedIsWhole
PROPERTIES SwapEnds
CHECK_DEADLOCK FALSE
