SPECIFICATION StoresSpec
CONSTANTS
  m1 = m1
  m2 = m2
  m3 = m3
  m4 = m4
  m5 = m5
  A = A
  B = B
  C = C
  Ids = {m1, m2, m3}
  SourceOf <- ThreeMessages
  MaxMessages = 2
  MaxUnverified = 1
  MaxSources = 1
  MaxRecords = 4
  Signatures = {"VERIFIED", "UNVERIFIED"}
  Updated = {"signature", "remove"}
  Bodies = {0, 1}
  MaxFailures = 1
  MaxCrashes = 1
  Kinds = {"ratchets", "tickets", "peers", "nodes"}
  Room = 2
  MaxEntries = 3
  MaxDiskFaults = 2
  Targets = {"a", "b"}
  Timebases = {1, 2}
  PathCapacity = 1
  PathLifetime = 2
  WallTimes = {0, 1, 2, 3}
  MaxPowered = 3
  Providers = {"journal", "nvs"}
  JournalKeys = {"k", "l"}
  Payloads = {"v", "w"}
  Gone = "gone"
  LastGeneration = 3
  MaxFlashFaults = 2
  Messages = {"a1", "b1", "a2"}
  Forged = {"b1"}
  ChatCount = 1
  ChatMessages = 2
  ArchiveCount = 2
  UnknownPerSender = 2
  UnknownSenders = 1
  PeerLimit = 1
  ReplayLimit = 1
  PendingLimit = 1
  MaxArrivals = 3
  MaxNodeFaults = 2
  LastTimebase = 5
  MaxUptime = 3
  MaxResets = 3
INVARIANTS StoreSound SnapshotsSurvive PathsNotProlonged RecordsDurable NodeKeepsMessages NodeAlwaysHeard
 
CHECK_DEADLOCK FALSE
