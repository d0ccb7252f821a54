SPECIFICATION Spec
CONSTANTS
  Files = {f1, f2}
  Archives = {}
  Managers = {"other"}
  Cleans = TRUE
  Verifiers = {p1}
  Chains = {}
  RetryCap = 3
  Faults <- CopyOnly
  DiesIn <- Nothing
  Actions <- Nothing
  MaxFaults = 1
  MaxDeaths = 0
  MaxActions = 0
  MaxEvents = 2
  MaxTasks = 1
INVARIANT NothingSilentlyMissing
CHECK_DEADLOCK FALSE
