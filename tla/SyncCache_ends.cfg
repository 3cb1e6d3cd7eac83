\* Every call ends under fair scheduling: shared loads, failures and retries.
SPECIFICATION FairSpec
CONSTANTS
  chat = chat
  notification = notification
  r1 = r1
  r2 = r2
  r3 = r3
  w1 = w1
  w2 = w2
  i1 = i1
  i2 = i2
  Scopes <- OneScope
  Readers <- TwoReaders
  Writers <- TwoWriters
  Touches <- MixedChanges
  Instances <- TwoInstances
  Home <- SharedHome
  CacheTTL = 1
  GenerationTTL = 3
  LoadTime = 1
  MaxAttempts = 3
PROPERTIES
  EveryReadEnds
CHECK_DEADLOCK FALSE
