CONSTANTS
  Images <- AllImages
  HostImages <- AllHost
  BankSize = 2
  BootSize = 1
  QueueSize = 4
  Modulus = 32
  Modes = {"ota", "serial"}
  StartsAgain = FALSE
  Tears = {"erase", "write"}
  PowerFails = TRUE
SPECIFICATION Spec
INVARIANTS NeverBootsPartial CompleteMeansSaved UpdateIsComplete ValidatedHolds
PROPERTIES QueuedStaysQueued StoresHitErased
