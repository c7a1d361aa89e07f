SPECIFICATION FairSpec
CONSTANTS
  MaxSequence = 4
  MaxPlanTasks = 3
  MaxBoardTasks = 4
  MaxRetries = 1
  RecursionLimit = 100
  MaxCrashes = 1
  MaxFaults = 0
INVARIANTS NoDependencyDeadlock ReviewSeesFinishedBoard AttemptsAreBounded
PROPERTIES ImplementsContract RunEnds
CHECK_DEADLOCK FALSE
