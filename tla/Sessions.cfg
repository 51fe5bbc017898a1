SPECIFICATION Spec
CONSTANTS
  Tab = {t1, t2}
  Recovery = {r1}
  Limit = 2
  Window = 1
  Life = 2
  MaxSessions = 2
  MaxTokens = 4
  MaxTime = 2
  MaxRequests = 6
  MaxFails = 1
SYMMETRY TabSymmetry
INVARIANTS
  LockoutHolds
  CodeOnce
  TokenOnce
  LogoutEndsAlone
  ReuseMeansMishap
PROPERTIES
  RevokedFinal
CHECK_DEADLOCK FALSE
