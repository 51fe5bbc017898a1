SPECIFICATION SceneSpec
CONSTANTS
  Scenes = {"twice", "again"}
  Api = {a1}
  Batch = {}
  Beat = {b1}
  Worker = {w1, w2}
  MaxRetries = 0
  Faults = {"crash", "lost", "publish"}
  MaxJobs = 1
  MaxRequeues = 0
  MaxFaults = 2
INVARIANTS
  Exclusive
  DispatchCovered
PROPERTIES
  ImplementsService
CHECK_DEADLOCK FALSE
