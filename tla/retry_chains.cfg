SPECIFICATION FairSpec
CONSTANTS
  Chains = {c1, c2}
  RetryCap = 3
  Outside <- Everything
INVARIANTS TypeOK 
PROPERTY ChainEnds
CHECK_DEADLOCK FALSE
