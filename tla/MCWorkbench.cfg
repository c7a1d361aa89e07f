SPECIFICATION Spec
CONSTANTS
  File = {f}
  QA_MAX_ATTEMPTS = 1
  User = {u1, u2}
  MaxEdits = 3
  MaxRequests = 3
  MaxCrashes = 1
INVARIANT IdleSessionHasFiles
PROPERTY PublishedIsVetted
CHECK_DEADLOCK FALSE
SYMMETRY Users
