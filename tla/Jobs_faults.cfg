SPECIFICATION FewerSpec
CONSTANTS
  Api = {a1}
  Batch = {}
  Beat = {b1}
  Worker = {w1, w2}
  MaxRetries = 1
  Faults = {"db", "soft", "kill", "lost", "publish", "crash"}
  MaxJobs = 2
  MaxRequeues = 1
  MaxFaults = 2
SYMMETRY WorkerSymmetry
INVARIANTS
  CompletedHasResult
  RunningHasLease
  FreshResult
CHECK_DEADLOCK FALSE
