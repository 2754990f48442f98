SPECIFICATION MessagesSpec
CONSTANTS
  Messages <- Mixed
  Method <- MCMethod
  Costly = {}
  Unknown = {"direct"}
  Limit = 2
  MaxSlots = 1
  Torn = TRUE
  MaxFaults = 1
  MaxCrashes = 1
  MaxWaits = 1
  MaxCancels = 1
  MaxResends = 1
  MaxSyncs = 1
  MaxEvents = 2
  NULL = NULL
  m1 = m1
  m2 = m2
  Incoming = {m1, m2}
  SourceOf <- OneSender
  Mail <- OneFault
  Batch = 1
  Retain = FALSE
  MaxPapers = 1
  MaxChanges = 1
INVARIANTS SendsSound InboxSound
PROPERTY VerdictsStay
CHECK_DEADLOCK FALSE
