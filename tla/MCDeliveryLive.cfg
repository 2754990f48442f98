SPECIFICATION UndisturbedSpec
CONSTANTS
  Messages <- Shared
  Method <- MCMethod
  Costly = {"packet", "upload"}
  Unknown = {"packet"}
  Limit = 2
  MaxSlots = 1
  Torn = FALSE
  MaxFaults = 1
  MaxCrashes = 1
  MaxWaits = 1
  MaxCancels = 1
  MaxResends = 1
  MaxSyncs = 1
  MaxEvents = 2
  NULL = NULL
PROPERTIES EventuallySettled SyncHasItsTurn
CHECK_DEADLOCK FALSE
