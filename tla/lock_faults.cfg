SPECIFICATION FairSpec
CONSTANTS
  Workers = {w1, w2, w3}
  LapseDuring <- Anywhere
  CrashIn <- Anywhere
  RedisFails = TRUE
  Flushes = TRUE
  CountCap = 4
INVARIANTS DriftIsBounded
PROPERTY DeadOwnerReleases
CHECK_DEADLOCK FALSE
