SPECIFICATION Spec
CONSTANTS
  c1 = c1 c2 = c2 c3 = c3 s1 = s1 s2 = s2 u1 = u1 ip1 = ip1 ip2 = ip2
  Conns = {c1, c2, c3}
  Hubs = {h1, h2}
  NoConn = NoConn NoHub = NoHub Nobody = Nobody Ended = Ended
  SessionOf <- TwinSessions
  UserOf <- AllAnonymous
  IpOf <- SharedIps
  DJs = {c1}
  Slow = {c2}
  MaxConnsPerIP = 2
  MaxConnsPerSession = 1
  InboundCap = 0
  RoomEnds = TRUE
  StoreFails = TRUE
CHECK_DEADLOCK FALSE
SYMMETRY HubSymmetry
INVARIANTS PendingRegsExact IdleStopStrandsNobody OneServingHub SlotsExact
PROPERTIES NoAdmissionAfterStop
