SPECIFICATION FairSpec
CHECK_DEADLOCK FALSE
CONSTANTS
  ann = ann
  bob = bob
  Clients = {ann, bob}
  IDs = {ann, bob}
  EmptyID = EmptyID
  Messages <- Greetings
  MaxFd = 5
  MaxConnects = 2
  MaxSent = 3
  NoClient = NoClient
  Nothing = Nothing
PROPERTY InputIsRead
