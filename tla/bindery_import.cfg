SPECIFICATION FairSpec
CONSTANTS
  Manual = {m1, m2}
  MovesFiles = {TRUE, FALSE}
  RetryCap = 3
  Faults <- AnyFault
  MaxFaults = 2
  MaxRuns = 2
INVARIANTS TypeOK NoDuplicateImport Superseded
PROPERTY StaleRowHeals
CHECK_DEADLOCK FALSE
