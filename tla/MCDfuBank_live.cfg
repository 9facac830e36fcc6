CONSTANTS
  Images <- MixedImages
  HostImages <- MixedHost
  BankSize = 2
  BootSize = 1
  QueueSize = 4
  Modulus = 32
  Modes = {"ota", "serial"}
  StartsAgain = FALSE
  Tears = {}
  PowerFails = FALSE
SPECIFICATION FairSpec
PROPERTIES SessionEnds UpdateFinishes ActivatedAppStarts
