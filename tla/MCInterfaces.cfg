SPECIFICATION Spec
CONSTANTS
  TxPackets = {"p", "q"}
  Split = {"p"}
  Capacity = 2
  MaxTries = 2
  Backoff = 1
  TokenSpan = 3
  MaxRadioFaults = 1
  Payloads16 <- Awkward
  ListenerMtu = 2
  RingSize = 8
  FirstDelay = 1
  LongestDelay = 2
  MaxConns = 2
  MaxQueued = 2
  MaxRefused = 1
  LanNodes = {"a", "b"}
  Addresses = {"a1", "b1", "b2"}
  OwnerOf <- TwoAddresses
  Deaf <- OneWay
  Datagrams = {"p", "q"}
  PeerCapacity = 2
  AnnounceEvery = 2
  ReverseEvery = 3
  PeerTimeout = 5
  InitialWait = 1
  DedupeTicks = 1
  DedupeCapacity = 1
  MaxLanEvents = 2
  MaxLanFaults = 1
  Programs = {"p", "q", "r"}
  MaxClients = 2
  Initial = 1
  Longest = 2
  MaxStops = 3
  MaxMisses = 1
INVARIANTS RadioReportsTrue StreamsCarryWhole LanHandsUpOnce
PROPERTIES RadioEventuallyReports StreamsEventuallyCarry LanEventuallyPeers SharedEventuallyServed
CHECK_DEADLOCK FALSE
