SPECIFICATION Spec
CONSTANTS
  Session = {s1, s2, s3}
  Case = {c1, c2, n1}
  NewCase = {n1}
  NoCase = NoCase
  MaxIds = 5
SYMMETRY SessionSymmetry
INVARIANTS
  TypeOK
  ChainVerifies
  NeverRejected
  IdsFollowChain
CHECK_DEADLOCK FALSE
