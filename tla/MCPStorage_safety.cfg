CONSTANTS
  NumSectors = 2
  Data = {d1, d2}
  QueueSize = 3
  SdReplies = {"SUCCESS", "BUSY", "ERROR"}
  SdOutcomes = {"ok", "err"}
  PowerFails = TRUE
SPECIFICATION Spec
INVARIANTS WindowIsOccupied FlagMatchesFlight FlightIsHead
PROPERTY ImplementsFifo
