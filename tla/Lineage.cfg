SPECIFICATION Spec
CONSTANTS
  u1 = u1
  u2 = u2
  User = {u1, u2}
  LastImage = 5
  Early = {1, 2, 3}
  Unreadable = {2}
  Measured <- VersionAndCopy
  MAX_CASE_IMAGES = 4
  MaxRequests = 4
  MaxFails = 1
SYMMETRY UserSymmetry
INVARIANTS
  LinkAudited
  DirectionSound
  DecisionRecordedAlone
  RefusedOnlyInClash
PROPERTIES
  ReviewedStays
CHECK_DEADLOCK FALSE
