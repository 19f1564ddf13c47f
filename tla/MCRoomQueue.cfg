SPECIFICATION Spec
CONSTANTS
  e1 = e1 e2 = e2 e3 = e3 s1 = s1 s2 = s2
  Entries = {e1, e2, e3}
  NoEntry = NoEntry
  Loops = {h1, h2}
  Poppers = {p1, p2}
  Sessions = {s1, s2}
  SessionOf <- TwoSessions
  ByDJ = {e3}
  OverWS = {e1, e2}
  Cap = 1
  Reapproved = {e1, e2}
  MaxApprovals = 2
  MaxFailures = 1
CHECK_DEADLOCK FALSE
SYMMETRY QueueSymmetry
INVARIANTS TypeOK AtMostOncePerApproval
PROPERTIES KeepsTheTurns SubmitsWithinCap
