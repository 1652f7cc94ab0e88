SPECIFICATION FairSpec
CONSTANTS
  Threads = {t1, t2, t3}
  NoThread = NoThread
  InitialCounts = {0, 1, 2}
  PostLimit = 3
  SpuriousWakeups = TRUE
INVARIANTS Balance Binary
PROPERTIES TryWaitReturns
CHECK_DEADLOCK FALSE
