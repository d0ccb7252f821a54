SPECIFICATION FairSpec
CONSTANTS
  Comics = {c1, c2}
  AirDcpp = {c1}
  Pollers = {p1}
  ClockSteps <- EverySecond
  MaxChecks = 2
  Faults <- AnyFault
  MaxLog = 2
  MaxFaults = 1
  MaxTasks = 1
INVARIANTS TypeOK  NeverForgotten
PROPERTY EveryGrabEnds
CHECK_DEADLOCK FALSE
