SPECIFICATION FairSpec
CONSTANTS
  a = a
  b = b
  v1 = v1
  v2 = v2
  Path = {a, b}
  Version = {v1, v2}
  NoFile = NoFile
  Start <- MCStart
  Imports <- MCImports
  Distance <- MCDistance
  TextRank <- MCTextRank
  Job = {j1, j2}
  Run = {r1}
  Old = Old
  Candidates = 3
  Limit = 2
  MaxPushes = 1
  MaxFaults = 1
INVARIANT UnanimousOrder
PROPERTIES ImplementsContract AloneIsARebuild IndexingSettles OnlyLateRunsAreDetached
CHECK_DEADLOCK FALSE
