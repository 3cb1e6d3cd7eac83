\* Two calls that may repeat each other, a reader, a device, with and without transactions.
SPECIFICATION Spec
CONSTANTS
  c1 = c1
  c2 = c2
  r1 = r1
  u1 = u1
  k1 = k1
  b1 = b1
  b2 = b2
  Calls <- TwoCalls
  Readers <- OneReader
  Customer = customer
  Users <- OneUser
  Keys <- OneKey
  NoKey = NoKey
  Bodies <- TwoBodies
  MaxId = 2
  Modes <- Either
  MaxFaults = 2
  None = None
SYMMETRY Symmetry
INVARIANTS
  TypeOK
  ConversationIsCurrent
  AnswersAreFaithful
  AcknowledgedIsSeen
PROPERTIES
  ClosedStaysClosed
CHECK_DEADLOCK FALSE
