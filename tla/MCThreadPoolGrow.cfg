SPECIFICATION Spec
CONSTANTS
  Task = {t1, t2}
  NoTask = NoTask
  MaxWorkers = 3
  ThreadCounts = {2}
  GrowsLive = TRUE
INVARIANTS
  NoWorkerLost
