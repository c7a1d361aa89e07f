SPECIFICATION FairSpec
CONSTANTS
  Writer = {runner, request}
  Runner = runner
  BatchSize = 2
  MaxEvents = 4
  MaxDrops = 2
INVARIANT OnlyOvertakenAreMissed
PROPERTIES InOrder EndIsComplete PageEnds
CHECK_DEADLOCK FALSE
