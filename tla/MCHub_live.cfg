SPECIFICATION FairSpec
CONSTANTS
  c1 = c1 c2 = c2 c3 = c3 s1 = s1 s2 = s2 u1 = u1 ip1 = ip1 ip2 = ip2
  Conns = {c1, c2}
  Hubs = {h1, h2}
  NoConn = NoConn NoHub = NoHub Nobody = Nobody Ended = Ended
  SessionOf <- PairSessions
  UserOf <- AnonPair
  IpOf <- PairIps
  DJs = {c1}
  Slow = {c1, c2}
  MaxConnsPerIP = 2
  MaxConnsPerSession = 2
  InboundCap = 0
  RoomEnds = FALSE
  StoreFails = FALSE
CHECK_DEADLOCK FALSE
INVARIANTS NoIdleHubLeft
PROPERTIES NobodyWaitsForever
