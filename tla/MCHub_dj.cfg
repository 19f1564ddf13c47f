SPECIFICATION Spec
CONSTANTS
  c1 = c1 c2 = c2 c3 = c3 s1 = s1 s2 = s2 u1 = u1 ip1 = ip1 ip2 = ip2
  Conns = {c1, c2}
  Hubs = {h1, h2}
  NoConn = NoConn NoHub = NoHub Nobody = Nobody Ended = Ended
  SessionOf <- DistinctPair
  UserOf <- PairUsers
  IpOf <- PairIps
  DJs = {c1, c2}
  Slow = {c1, c2}
  MaxConnsPerIP = 2
  MaxConnsPerSession = 2
  InboundCap = 1
  RoomEnds = TRUE
  StoreFails = FALSE
CHECK_DEADLOCK FALSE
SYMMETRY HubSymmetry
INVARIANTS TypeOK PresenceSettles MicHeldByLiveOwner
PROPERTIES KeepsTheService
