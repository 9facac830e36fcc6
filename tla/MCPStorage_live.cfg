CONSTANTS
  NumSectors = 2
  Data = {d1}
  QueueSize = 3
  SdReplies = {"SUCCESS"}
  SdOutcomes = {"ok"}
  PowerFails = FALSE
SPECIFICATION FairSpec
PROPERTY EveryCommandNotified
