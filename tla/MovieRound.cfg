SPECIFICATION Spec
CHECK_DEADLOCK FALSE
CONSTANTS
  ann = ann
  bob = bob
  Clients = {ann, bob}
  NameByte <- DistinctNames
  NoClient = NoClient
  VideoCount = 2
  GarbageInts = {0, 16777216}
  MaxFd = 5
  MaxConnects = 3
  Script = {1, 6, 8, 9}
  SlowClients = {ann}
INVARIANTS
  DescriptorsConsistent
  ServedHaveInput
  JoinedHaveFilm
  MembersStayOnRecord
PROPERTY
  DownloadsAreCounted
