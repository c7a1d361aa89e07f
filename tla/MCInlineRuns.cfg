SPECIFICATION FairSpec
CONSTANTS
  Worker = {w1, w2, w3}
  MaxTasks = 2
  MaxFaults = 1
  MaxCrashes = 2
INVARIANTS OneCoroutine ActiveRunIsAttended
PROPERTIES ApprovedPlanStands ImplementsLifecycle RunSettles
CHECK_DEADLOCK FALSE
