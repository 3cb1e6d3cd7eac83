\* Two POSTs that may repeat, contradict or have nothing to do with each other.
SPECIFICATION Spec
CONSTANTS
  p1 = p1
  p2 = p2
  r1 = r1
  d1 = d1
  u1 = u1
  u2 = u2
  k1 = k1
  Posts <- TwoPosts
  Readers <- OneReader
  Screens <- OneScreen
  Users <- TwoUsers
  UserOf <- Owner
  Keys <- OneKey
  NoKey = NoKey
  Inputs <- Bodies
  MaxId = 3
  PageSize = 1
  MaxFaults = 1
  None = None
SYMMETRY Symmetry
INVARIANTS
  TypeOK
  AcceptedMeansPublished
  RetriesAreSilent
  ScreensAreComplete
  ReadingsReachScreens
CHECK_DEADLOCK FALSE
