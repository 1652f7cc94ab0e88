SPECIFICATION Spec
CONSTANTS
  Main = Main
  Clients = {c1}
  NoThread = NoThread
  CpuCores = 2
  MaxWorkers = 4
  RingSize = 2
  JobLimit = 2
  CycleLimit = 1
  BoundedUse = TRUE
  JobsMayQueue = FALSE
  JobsMayWait = FALSE
  ThreadRunMayFail = FALSE
  SpuriousWakeups = FALSE
INVARIANTS TakesQueuedJob
