SPECIFICATION FairSpec
CONSTANTS
  Manual = {m1}
  MovesFiles = {FALSE}
  RetryCap = 3
  Faults = {}
  MaxFaults = 0
  MaxRuns = 1
PROPERTY CompletedOnceImported
CHECK_DEADLOCK FALSE
