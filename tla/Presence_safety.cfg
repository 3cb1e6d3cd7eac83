\* Two instances with a socket each, the observer on one of them; an answer may be lost.
SPECIFICATION Spec
CONSTANTS
  i1 = i1
  i2 = i2
  s1 = s1
  s2 = s2
  o1 = o1
  Instances <- TwoInstances
  Sockets <- TwoSockets
  Observers <- OneObserver
  Home <- Apart
  Modes <- RedisOrNot
  Life = 1
  Plans <- OneTimeout
  MayClose = TRUE
INVARIANTS
  TypeOK
  NothingLeaks
PROPERTIES
  GoneStaysOut
  HeartbeatsAreCurrent
CHECK_DEADLOCK FALSE
