\* Two connections in turn or together, and a session of an earlier release: up to
\* three sockets share a session; one event and two HTTP requests at a time.
SPECIFICATION FairSpec
CONSTANTS
  c1 = c1
  c2 = c2
  old = old
  user = user
  visitor = visitor
  chat = chat
  publication = publication
  Connections <- TwoConnections
  StoreUsers <- OneUser
  Customers <- OneVisitor
  Early <- EarlyAreas
  Late <- LateAreas
  Tokens <- AllTokens
  OldSessions <- Earlier
  MaxInFlight = 1
  MaxRequests = 2
INVARIANTS
  TypeOK
  RoomsAreAllowed
  ReadyIsComplete
  NothingIsCutOff
PROPERTIES
  ShutdownEnds
CHECK_DEADLOCK FALSE
