SPECIFICATION Spec
CONSTANTS
  Api = {a1}
  Batch = {}
  Beat = {b1}
  Worker = {w1, w2}
  MaxRetries = 1
  Faults = {"db"}
  MaxJobs = 1
  MaxRequeues = 0
  MaxFaults = 1
SYMMETRY WorkerSymmetry
INVARIANTS
  Exclusive
CHECK_DEADLOCK FALSE
