SPECIFICATION Spec
CONSTANTS
  MaxPlanTasks = 3
  Editor = {first, second}
  Planner = planner
  Nobody = nobody
INVARIANTS BoardIsWhole 
PROPERTY DropIsFinal
CHECK_DEADLOCK FALSE
