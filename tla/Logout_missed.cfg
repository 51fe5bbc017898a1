SPECIFICATION Spec
CONSTANTS
  Tab = {t1, t2}
  Recovery = {}
  Limit = 1
  Window = 1
  Life = 2
  MaxSessions = 1
  MaxTokens = 3
  MaxTime = 2
  MaxRequests = 3
  MaxFails = 0
SYMMETRY TabSymmetry
INVARIANTS
  LogoutEnds
CHECK_DEADLOCK FALSE
