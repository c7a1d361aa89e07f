SPECIFICATION Spec
CONSTANTS
  Replica <- Replicas
  Server <- Replicas
  Capacity = 2
  Cost = 2
  Skew <- Clocks
  MaxSkew = 1
  Margin = 2
  Idle = 2
  Delivery = {d1, d2, d3}
  MaxRemembered = 2
  MaxQueued = 4
  MaxTime = 4
  MaxDelivered = 4
SYMMETRY Ids
INVARIANTS AdmissionsAreBounded ReviewedOnce
CHECK_DEADLOCK FALSE
