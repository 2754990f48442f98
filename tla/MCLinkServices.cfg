SPECIFICATION ServicesSpec
CONSTANTS
  SeqMod = 8
  CountMod = 5
  Slots = 3
  InitialWindow = 1
  MaxWindow = 2
  MaxRetries = 1
  RetryTimeout = 1
  Retention = 4
  MaxSends = 9
  MaxLosses = 2
  MaxRefusals = 1
  Transfers = {2}
  Responses = {2}
  Segments = 2
  Parts = 5
  Page = 2
  Window = 2
  PartRetries = 2
  PartLosses = 1
  SendFaults = 0
  NULL = NULL
INVARIANT ChannelSound
PROPERTIES ImplementsFifo EventuallyHandedOver ResourceEventuallyCompletes
CHECK_DEADLOCK FALSE
