SPECIFICATION Spec
CONSTANTS
  MaxItems = 3
  PriorityRank <- MCPriorityRank
  Rank = {1, 2}
  Lowest <- MCLowest
  ByHand <- MCByHand
  Request = {q1, q2}
  MaxRequests = 3
INVARIANTS AcyclicUnlessRaced SomethingCanBeDone
PROPERTY BoardIsAsAsked
CHECK_DEADLOCK FALSE
SYMMETRY Requests
