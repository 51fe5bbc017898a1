SPECIFICATION StoreSpec
CONSTANTS
  Session = {s1, s2}
  Case = {c1, n1}
  NewCase = {n1}
  NoCase = NoCase
  MaxIds = 3
  File = {f1, f2}
  Faults = {"error", "doubt"}
SYMMETRY Symmetry
INVARIANTS
  FilesKept
CHECK_DEADLOCK FALSE
