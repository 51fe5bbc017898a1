SPECIFICATION Spec
CONSTANTS
  Api = {a1}
  Batch = {}
  Beat = {}
  Worker = {w1, w2}
  MaxRetries = 0
  Faults = {"db"}
  MaxJobs = 1
  MaxRequeues = 0
  MaxFaults = 1
PROPERTIES
  CompletedFinal
CHECK_DEADLOCK FALSE
