SPECIFICATION FairSpec
CONSTANTS
  t1 = t1 t2 = t2 r1 = r1 r2 = r2 w1 = w1 w2 = w2 w3 = w3 h1 = h1 h2 = h2
  Tracks = {t1, r1}
  NoTrack = NoTrack
  InitialQueue <- NoTracks
  Playlist <- OneTrack
  Length <- OneLength
  Workers = {w1, w2}
  Loops = {} Main = Main Monitor = Monitor
  Rooms <- Unattended
  Slow = FALSE
  Debounce = 2
  Slack = 1
  MinPlay = 3
  Fallback = 4
  MaxLength = 5
  IdleTimeout = 2
CHECK_DEADLOCK FALSE
INVARIANTS TypeOK
PROPERTIES SilenceEnds IdleRoomsClose
