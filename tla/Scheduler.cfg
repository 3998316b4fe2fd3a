\* Two threads of the smallest and the largest stride on two CPUs, with the timer firing for ever.
SPECIFICATION FairSpec
CONSTANTS
  Threads = {t1, t2}
  NumCpus = 2
  Priorities = {"super", "ultra"}
  SleepTimes = {1}
  Calls = {"sleep"}
  NULL = NULL
INVARIANTS
  OnePlacePerThread
  ReadyCountIsLength
  OneCpuPerThread
PROPERTIES
  QueuedThreadRuns
  HandlerReturns
