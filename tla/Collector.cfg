SPECIFICATION Spec
CONSTANTS
  Trades <- TwoTrades
  Pages <- SomePages
  NewCards <- Arriving
  Faces <- TwoFaces
  Scopes <- SomeScopes
  Window = 1
  Stride = 1
  MaxEdits = 1
  MostBrokers = 2
  None = None
CHECK_DEADLOCK FALSE
INVARIANTS
  CollectorInv
  PayloadIsSound
  MissedAreOutweighed
PROPERTIES
  CollectEnds
