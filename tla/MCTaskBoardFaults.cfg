SPECIFICATION FairSpec
CONSTANTS
  MaxSequence = 4
  MaxPlanTasks = 3
  MaxBoardTasks = 4
  MaxRetries = 1
  RecursionLimit = 9
  MaxCrashes = 1
  MaxFaults = 1
INVARIANT DependencyOrder
PROPERTY SettledStaysSettled
CHECK_DEADLOCK FALSE
