\* Two requests whose payloads may differ while the Queue rewrites the
\* canonical document and its error text; crash recovery under fair scheduling.
SPECIFICATION FairSpec
CONSTANTS
  r1 = r1
  r2 = r2
  r3 = r3
  b1 = b1
  b2 = b2
  m1 = m1
  m2 = m2
  Requests <- TwoRequests
  Bodies <- TwoBodies
  Messages <- TwoMessages
  LockTimeout = 1
  ReceiptLife = 2
  MaxTime = 1
  MaxWrites = 1
  MaxFaults = 1
INVARIANTS
  ReportsAgree
PROPERTIES
  KeepsPromise
  RecoversAfterCrash
CHECK_DEADLOCK FALSE
