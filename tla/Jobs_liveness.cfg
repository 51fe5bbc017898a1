SPECIFICATION FairSpec
CONSTANTS
  Api = {a1}
  Batch = {c1}
  Beat = {b1}
  Worker = {w1}
  MaxRetries = 1
  Faults = {"db", "crash", "lost", "publish", "kill", "soft", "expire"}
  MaxJobs = 1
  MaxRequeues = 0
  MaxFaults = 1
INVARIANTS
  Findable
PROPERTIES
  Settles
CHECK_DEADLOCK FALSE
