SPECIFICATION QueuedFairSpec
CONSTANTS
  Worker = {"plan_job", "execute_job", "plan_inline", "execute_inline"}
  MaxTasks = 1
  MaxFaults = 1
  Enqueue = {"stored", "refused"}
  MaxTries = 3
  TimeLimit = TRUE
  MaxStops = 3
  MaxApiCrashes = 1
INVARIANT DeliveriesAreHarmless
PROPERTIES ApprovedBoardStands FollowsLifecycle QueuedRunSettles
CHECK_DEADLOCK FALSE
