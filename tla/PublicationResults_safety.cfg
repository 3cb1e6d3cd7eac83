\* Three requests with the same input: crashes, reclaims and expiry.
SPECIFICATION Spec
CONSTANTS
  r1 = r1
  r2 = r2
  r3 = r3
  b1 = b1
  b2 = b2
  m1 = m1
  m2 = m2
  Requests <- ThreeRequests
  Bodies <- OneBody
  Messages <- OneMessage
  LockTimeout = 1
  ReceiptLife = 3
  MaxTime = 3
  MaxWrites = 0
  MaxFaults = 2
SYMMETRY Interchangeable
INVARIANTS
  TypeOK
  ClaimIsALease
PROPERTIES
  ReemitsOnlyAfterLoss
  PublishedIsFinal
  OthersClaimIsKept
CHECK_DEADLOCK FALSE
