\* The store's socket on one instance, the observer on the other: two answers may
\* be lost, or the connection breaks, Redis restarts empty, or an instance dies.
SPECIFICATION FairSpec
CONSTANTS
  i1 = i1
  i2 = i2
  s1 = s1
  s2 = s2
  o1 = o1
  Instances <- TwoInstances
  Sockets <- OneSocket
  Observers <- OneObserver
  Home <- Apart
  Modes <- Redis
  Life = 2
  Plans <- TimeoutsOrOutage
  MayClose = FALSE
PROPERTIES
  OfflineIsForgotten
  OfflineIsReported
CHECK_DEADLOCK FALSE
