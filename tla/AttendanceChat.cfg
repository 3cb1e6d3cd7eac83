\* Two calls of sellers of both stores, with and without transactions.
SPECIFICATION Spec
CONSTANTS
  c1 = c1
  c2 = c2
  a1 = a1
  a2 = a2
  t1 = t1
  k1 = k1
  Calls <- TwoCalls
  Users <- Sellers
  Origin = origin
  Target = target
  StoreOf <- Shops
  Keys <- OneKey
  NoKey = NoKey
  MaxId = 2
  Modes <- Either
  MaxChanges = 1
  MaxFaults = 1
  None = None
SYMMETRY Symmetry
INVARIANTS
  TypeOK
  OneVoice
  ThreadFollowsMessages
  AnswersAreFaithful
  VisibilityIsRight
PROPERTIES
  ClosedStaysClosed
CHECK_DEADLOCK FALSE
