SPECIFICATION Spec
CONSTANTS
  Requests = {"r"}
  Packets = {"k"}
  MaxRequests = 1
  Keepalives = {1, 2, 3, 4}
  Slack = 3
  CacheLifetime = 1
  Latency = 1
  HandshakeTimeout = 3
  ExchangeTimeout = 1
  MaxExchanges = 1
  MaxFaults = 1
  Urls = {"p", "q"}
  NodeOf <- OneNode
  SizeOf <- OneByte
  CacheEntries = 1
  CacheBytes = 2
  Lifetime = 1
  PathTimeout = 1
  MaxOpens = 3
  MaxEdits = 1
  Rooms = {"r1", "r2"}
  Others = {"a", "b"}
  RoomLimit = 1
  MemberLimit = 2
  HelloMax = 2
  AutoReconnect = TRUE
  MaxCommands = 4
  MaxChatFaults = 1
INVARIANTS LinkKeptAlive BrowserShowsTrue ChatRoomsAgree
PROPERTIES LinkEventuallyAgrees BrowserEventuallySettles ChatEventuallyInOrOut
CHECK_DEADLOCK FALSE
