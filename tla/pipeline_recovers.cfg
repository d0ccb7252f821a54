SPECIFICATION FairSpec
CONSTANTS
  Files = {f1, f2}
  Archives = {}
  Managers = {"none", "other"}
  Cleans = TRUE
  Verifiers = {p1, p2}
  Chains = {}
  RetryCap = 3
  Faults <- CopyOrPost
  DiesIn <- WhileCopying
  Actions <- Nothing
  MaxFaults = 1
  MaxDeaths = 1
  MaxActions = 0
  MaxEvents = 2
  MaxTasks = 1
INVARIANT NeverStranded
PROPERTY LeavesPostProcessing
CHECK_DEADLOCK FALSE
