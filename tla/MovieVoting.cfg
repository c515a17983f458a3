SPECIFICATION Spec
CHECK_DEADLOCK FALSE
CONSTANTS
  ann = ann
  bob = bob
  Clients = {ann, bob}
  NameByte <- DistinctNames
  NoClient = NoClient
  VideoCount = 2
  GarbageInts = {0}
  MaxFd = 5
  MaxConnects = 3
  Script = {1, 3, 9}
  SlowClients = {}
INVARIANTS
  TypeOK
  BallotsMatchVoted
PROPERTIES
  VotesReadAreCounted
  EarlyEndHasAllBallots
  PartySpec
