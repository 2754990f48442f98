SPECIFICATION FairSpec
CONSTANTS
  Messages <- One
  Method <- MCMethod
  Costly = {}
  Unknown = {}
  Limit = 2
  MaxSlots = 1
  Torn = TRUE
  MaxFaults = 0
  MaxCrashes = 1
  MaxWaits = 0
  MaxCancels = 0
  MaxResends = 0
  MaxSyncs = 0
  MaxEvents = 1
  NULL = NULL
PROPERTY EventuallySettled
CHECK_DEADLOCK FALSE
