SPECIFICATION Spec
CONSTANTS
  Api = {a1}
  Batch = {}
  Beat = {b1}
  Worker = {w1, w2}
  MaxRetries = 0
  Faults = {}
  MaxJobs = 1
  MaxRequeues = 1
  MaxFaults = 0
SYMMETRY WorkerSymmetry
INVARIANTS
  DispatchCovered
CHECK_DEADLOCK FALSE
