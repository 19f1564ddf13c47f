SPECIFICATION Spec
CONSTANTS
  t1 = t1 t2 = t2 r1 = r1 r2 = r2 w1 = w1 w2 = w2 w3 = w3 h1 = h1 h2 = h2
  Tracks = {t1, t2, r1, r2}
  NoTrack = NoTrack
  InitialQueue <- BothQueued
  Playlist <- Rotation
  Length <- Lengths
  Workers = {w1, w2, w3}
  Loops = {h1, h2} Main = Main Monitor = Monitor
  Rooms <- AllRooms
  Slow = FALSE
  Debounce = 2
  Slack = 1
  MinPlay = 4
  Fallback = 6
  MaxLength = 7
  IdleTimeout = 2
CHECK_DEADLOCK FALSE
SYMMETRY WorkerSymmetry
INVARIANTS NowPlayingIsPlayed EndIsScheduled OneAdvanceAtATime
PROPERTIES SkipRateCapped
