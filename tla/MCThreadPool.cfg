SPECIFICATION Spec
CONSTANTS
  Task = {t1, t2, t3}
  NoTask = NoTask
  MaxWorkers = 2
  ThreadCounts = {0, 1, 2}
  GrowsLive = FALSE
INVARIANTS
  TypeOK
  TaskInOnePlace
  NoWorkerLost
  ShutdownWaits
  NoFutureHangs
PROPERTIES
  TaskRuns
  PoolProgresses
  ShutdownReturns
  KeepsContract
