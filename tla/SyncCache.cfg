\* Two readers of one instance, two scopes, two changes; generations expire.
SPECIFICATION Spec
CONSTANTS
  chat = chat
  notification = notification
  r1 = r1
  r2 = r2
  r3 = r3
  w1 = w1
  w2 = w2
  i1 = i1
  i2 = i2
  Scopes <- TwoScopes
  Readers <- TwoReaders
  Writers <- TwoWriters
  Touches <- MixedChanges
  Instances <- TwoInstances
  Home <- SharedHome
  CacheTTL = 1
  GenerationTTL = 3
  LoadTime = 1
  MaxAttempts = 2
SYMMETRY Interchangeable
INVARIANTS
  TypeOK
  ReachableEntriesAreCurrent
PROPERTIES
  CheckedResultsAreCurrent
  LooksUncached
CHECK_DEADLOCK FALSE
