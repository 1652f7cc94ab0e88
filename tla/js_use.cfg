SPECIFICATION Spec
CONSTANTS
  Main = Main
  Clients = {c1}
  NoThread = NoThread
  CpuCores = 2
  MaxWorkers = 4
  RingSize = 3
  JobLimit = 6
  CycleLimit = 1
  BoundedUse = TRUE
  JobsMayQueue = TRUE
  JobsMayWait = TRUE
  ThreadRunMayFail = FALSE
  SpuriousWakeups = TRUE
INVARIANTS TypeOK IdleCountExact JobConservation IdleMeansDone RingOrder TakesUntilShutdown
PROPERTIES JobsWaitInVain IsJobPool
