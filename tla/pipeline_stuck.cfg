SPECIFICATION FairSpec
CONSTANTS
  Files = {f1, f2}
  Archives = {}
  Managers = {"other"}
  Cleans = TRUE
  Verifiers = {p1}
  Chains = {}
  RetryCap = 3
  Faults <- Nothing
  DiesIn <- WhileListing
  Actions <- Nothing
  MaxFaults = 0
  MaxDeaths = 1
  MaxActions = 0
  MaxEvents = 2
  MaxTasks = 1
PROPERTY LeavesPostProcessing
CHECK_DEADLOCK FALSE
