SPECIFICATION Spec
CONSTANTS
  Workers = {w1, w2, w3, w4}
  LapseDuring <- Nowhere
  CrashIn <- Anywhere
  RedisFails = FALSE
  Flushes = FALSE
  CountCap = 5
INVARIANTS TypeOK MutualExclusion OwnerIsCounted
PROPERTY ImplementsSingleTransfer
CHECK_DEADLOCK FALSE
