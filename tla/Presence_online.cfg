\* One instance, no fault.
SPECIFICATION FairSpec
CONSTANTS
  i1 = i1
  i2 = i2
  s1 = s1
  s2 = s2
  o1 = o1
  Instances <- OneInstance
  Sockets <- OneSocket
  Observers <- OneObserver
  Home <- Together
  Modes <- Redis
  Life = 2
  Plans <- NoFaults
  MayClose = FALSE
PROPERTIES
  OnlineIsReported
CHECK_DEADLOCK FALSE
