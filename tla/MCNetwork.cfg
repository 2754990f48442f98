SPECIFICATION NetworkSpec
CONSTANTS
  a = a
  b = b
  c = c
  d = d
  s = s
  t = t
  ab = ab
  ac = ac
  bc = bc
  cd = cd
  m1 = m1
  m2 = m2
  m3 = m3
  service = service
  Nodes <- LeafNodes
  Media <- LeafMedia
  Destinations = {service}
  Origin <- LeafOrigin
  Attached <- LeafAttached
  Forwarders <- LeafNodes
  Repeated = {bc}
  MaxHops = 3
  Timebases = {1, 2}
  MaxEmissions = 2
  MaxLosses = 2
  NULL = NULL
  Packets = {p1}
  Links = {l1}
  CarryHops = 4
  ReverseCapacity = 1
  LinkCapacity = 1
  CarryFaults = 0
  MaxReroutes = 2
  MaxStarts = 1
INVARIANT RoutesSound
PROPERTIES EventuallyRouted ForwardingArrives
CHECK_DEADLOCK FALSE
