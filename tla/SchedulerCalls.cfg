\* One CPU, every call but ThreadSleep.  A walk of a list that the calls have
\* made cyclic never ends: the CPU hangs, hence no deadlock check.
SPECIFICATION Spec
CONSTANTS
  Threads = {t1, t2}
  NumCpus = 1
  Priorities = {"kernel", "super"}
  SleepTimes = {1}
  Calls = {"exit", "suspend", "resume", "destroy", "priority", "affinity"}
  NULL = NULL
CHECK_DEADLOCK FALSE
SYMMETRY Symmetry
INVARIANTS
  FreedOnlyHalts
