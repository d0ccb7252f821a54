SPECIFICATION FairSpec
CONSTANTS
  Files = {f1, f2}
  MaxTries = 3
  Faults <- AnyFault
  MaxFaults = 3
INVARIANTS TypeOK CompletedIsWhole OneLateSave
PROPERTIES Settles ImplementsFileOutcome
CHECK_DEADLOCK FALSE
