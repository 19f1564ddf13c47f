SPECIFICATION Spec
CONSTANTS
  d1 = d1 c1 = c1 c2 = c2 m1 = m1
  Conns = {d1, c1, c2}
  DJs = {d1}
  Msgs = {m1}
  NoConn = NoConn NoMsg = NoMsg
  Scenes <- OneSpeech
  BroadcastCap = 6
CHECK_DEADLOCK FALSE
INVARIANTS MicShownIsCurrent
