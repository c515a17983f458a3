SPECIFICATION ScriptSpec
CHECK_DEADLOCK FALSE
CONSTANTS
  client2 = client2
  client4 = client4
  phila = phila
  Clients = {client2, client4}
  IDs = {client2, client4, phila}
  EmptyID = EmptyID
  Messages <- ScriptMessages
  MaxFd = 5
  MaxConnects = 2
  MaxSent = 10
  NoClient = NoClient
  Nothing = Nothing
INVARIANTS
  RecordsAreConnected
  HeadersWhereExpected
PROPERTIES
  ChatsAreHeard
  InputReadUnlessDangling
