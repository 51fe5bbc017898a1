SPECIFICATION Spec
CONSTANTS
  u1 = u1
  u2 = u2
  User = {u1, u2}
  LastImage = 4
  Early = {1, 2, 3, 4}
  Unreadable = {2}
  Measured <- VersionAndCopy
  MAX_CASE_IMAGES = 4
  MaxRequests = 3
  MaxFails = 0
SYMMETRY UserSymmetry
INVARIANTS
  DecisionRecorded
CHECK_DEADLOCK FALSE
