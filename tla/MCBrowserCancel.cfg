SPECIFICATION BrowserSpec
CONSTANTS
  Urls <- TwoPages
  NodeOf <- OneNode
  SizeOf <- UnitSize
  CacheEntries = 1
  CacheBytes = 2
  Lifetime = 2
  PathTimeout = 1
  MaxOpens = 3
  MaxEdits = 1
INVARIANT CancelHolds
CHECK_DEADLOCK FALSE
