SPECIFICATION CarriersSpec
CONSTANTS
  s = s
  b = b
  c = c
  t = t
  m1 = m1
  m2 = m2
  m3 = m3
  Nodes = {s, b, c, t}
  Media = {m1, m2, m3}
  Attached <- Meshed
  Forwarders = {b, c}
  Source = s
  Target = t
  Routes <- MeshedRoutes
  Packets = {p1}
  Links = {l1}
  MaxHops = 4
  ReverseCapacity = 1
  LinkCapacity = 1
  MaxFaults = 1
  MaxReroutes = 1
  MaxStarts = 1
  NULL = NULL
  Transfers = {1, 2}
  Responses = {2}
  Segments = 2
  Parts = 2
  Page = 1
  Window = 2
  PartRetries = 1
  PartLosses = 1
  SendFaults = 1
  SerialPackets = {"p", "q"}
  FlowChoices = {TRUE, FALSE}
  QueueDepth = 1
  SetupFrames = 1
  Delay = 1
  FlowTimeout = 1
  MaxPluggings = 2
  MaxLost = 1
  Sequences16 = {0, 1}
  Frames = {"p", "q", "r"}
  Halved = {"p", "q"}
  QueueCapacity = 2
  FragmentTimeout = 1
  ReuseGuard = 3
  Life = 1
  MaxRepeats = 1
  Minute = 2
  Hour = 3
  Storage = 9
  Limit = 2
  LastTime = 24
  Lengths = {1, 2, 100, 254, 255}
  DigestBits = 3
  Byte = 2
  Nonces = 4
  Rounds = 2
  Budgets = {0, 1, 3}
  AttemptLimit = 4
  MaxHashFaults = 1
  MaxNesting = 2
  TicketField = 3
  TicketLength = 1
  StampLengths = {1, 2}
  TimeLimit = 6
  MaxFields = 2
INVARIANTS ForwardingTrue ResourceTrue SerialSound FramesJoined AirtimeHeld StampsHold EnvelopeRead
PROPERTY ResourceConcludedOnce
CHECK_DEADLOCK FALSE
