SPECIFICATION StoreSpec
CONSTANTS
  Session = {s1, s2}
  Case = {c1, n1}
  NewCase = {n1}
  NoCase = NoCase
  MaxIds = 3
  File = {f1, f2}
  Faults = {"error", "doubt", "crash"}
SYMMETRY Symmetry
INVARIANTS
  RowHasFile
  NoOrphans
  ImportComplete
  ChainVerifies
  NeverRejected
  IdsFollowChain
CHECK_DEADLOCK FALSE
