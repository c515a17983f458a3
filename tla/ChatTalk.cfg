SPECIFICATION Spec
CHECK_DEADLOCK FALSE
CONSTANTS
  ann = ann
  bob = bob
  Clients = {ann, bob}
  IDs = {ann, bob}
  EmptyID = EmptyID
  Messages <- Everything
  MaxFd = 5
  MaxConnects = 3
  MaxSent = 3
  NoClient = NoClient
  Nothing = Nothing
INVARIANTS
  TypeOK
  UniqueIDs
PROPERTY RoomSpec
