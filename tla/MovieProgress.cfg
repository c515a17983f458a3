SPECIFICATION FairSpec
CHECK_DEADLOCK FALSE
CONSTANTS
  ann = ann
  bob = bob
  Clients = {ann, bob}
  NameByte <- DistinctNames
  NoClient = NoClient
  VideoCount = 2
  GarbageInts = {0}
  MaxFd = 5
  MaxConnects = 2
  Script = {1, 3, 9}
  SlowClients = {ann}
PROPERTIES
  VotingEndsAfterDeadline
  ConnectionsAreAccepted
