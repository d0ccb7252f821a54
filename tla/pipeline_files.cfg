SPECIFICATION Spec
CONSTANTS
  Files = {f1, f2}
  Archives = {f2}
  Managers = {"none", "Bindery", "other"}
  Cleans = TRUE
  Verifiers = {p1}
  Chains = {c1}
  RetryCap = 2
  Faults <- AnyFault
  DiesIn <- Anywhere
  Actions <- AnyAction
  MaxFaults = 1
  MaxDeaths = 1
  MaxActions = 1
  MaxEvents = 2
  MaxTasks = 1
INVARIANTS TypeOK CompletedRowIsLocal NothingLost 
 
CHECK_DEADLOCK FALSE
