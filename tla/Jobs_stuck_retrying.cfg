SPECIFICATION FairSpec
CONSTANTS
  Api = {a1}
  Batch = {}
  Beat = {b1}
  Worker = {w1}
  MaxRetries = 1
  Faults = {"db", "publish", "expire"}
  MaxJobs = 1
  MaxRequeues = 0
  MaxFaults = 2
PROPERTIES
  Settles
CHECK_DEADLOCK FALSE
