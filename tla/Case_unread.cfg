SPECIFICATION Spec
CONSTANTS
  Req = {r1}
  Analyses = 4
  Kind <- FourKinds
  Settled = {1, 2, 3}
  Image <- Error5
  MaxRequests = 3
  MaxFails = 0
INVARIANTS
  ObservationsReport
CHECK_DEADLOCK FALSE
