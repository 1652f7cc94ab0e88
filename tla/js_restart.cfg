SPECIFICATION FairSpec
CONSTANTS
  Main = Main
  Clients = {c1}
  NoThread = NoThread
  CpuCores = 2
  MaxWorkers = 4
  RingSize = 3
  JobLimit = 2
  CycleLimit = 2
  BoundedUse = TRUE
  JobsMayQueue = FALSE
  JobsMayWait = FALSE
  ThreadRunMayFail = TRUE
  SpuriousWakeups = FALSE
INVARIANTS DistinctRings ReleasedWhenUnused UpMeansAllClaimed IInv
PROPERTIES SetupReturns ShutdownReturns QueuedJobsRun WaitersReturn
CHECK_DEADLOCK FALSE
