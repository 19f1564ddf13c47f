SPECIFICATION Spec
CONSTANTS
  ann = ann bob = bob room = room
  Users = {ann, bob}
  Rooms = {room}
  Owner <- BobsRoom
  Calls = {c1, c2, c3}
  MaxRequests = 3
  Opening = 6
  Packs = {5}
  Grants = {0, 8}
  Tips = {1, 3, 5}
  MaxLevel = 3
  FirstTarget = 2
  LevelTarget <- Targets
  DevPayments = TRUE
  Price = 7
  Pcts = {40, 90}
  Heard <- Minutes
  PairCap = 4
  CreatorCap = 3
SYMMETRY CallSymmetry
INVARIANTS TypeOK OverflowIsPending SubscriptionsAgree PoolPaidOnce
PROPERTIES KeepsTheLedger
