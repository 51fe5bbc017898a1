SPECIFICATION Spec
CONSTANTS
  Api = {a1}
  Batch = {}
  Beat = {b1}
  Worker = {w1, w2}
  MaxRetries = 0
  Faults = {"lost", "soft"}
  MaxJobs = 1
  MaxRequeues = 0
  MaxFaults = 2
SYMMETRY WorkerSymmetry
INVARIANTS
  ResultStands
CHECK_DEADLOCK FALSE
