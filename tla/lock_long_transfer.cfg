SPECIFICATION Spec
CONSTANTS
  Workers = {w1, w2}
  LapseDuring <- WhileHolding
  CrashIn <- Nowhere
  RedisFails = FALSE
  Flushes = FALSE
  CountCap = 4
INVARIANT MutualExclusion
CHECK_DEADLOCK FALSE
