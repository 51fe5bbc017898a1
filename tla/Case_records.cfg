SPECIFICATION Spec
CONSTANTS
  Req = {r1, r2}
  Analyses = 4
  Kind <- FourKinds
  Settled = {1, 2, 3}
  Image <- Error5
  MaxRequests = 3
  MaxFails = 1
SYMMETRY ReqSymmetry
INVARIANTS
  RelationsAnchored
  FindingAudited
  IdempotentAlone
  AssessmentCurrent
  BundleExplained
  StatusAudited
  SomeoneGoesOn
PROPERTIES
  ReviewStays
CHECK_DEADLOCK FALSE
