\* A thread that is interrupted inside a tried lock can hang its CPU, hence
\* no deadlock check.
SPECIFICATION Spec
CONSTANTS
  Cpus <- MCCpus
  Contexts <- MCContexts
  CpuOf <- MCCpuOf
  Handler <- MCHandler
  Locks = {1, 2}
  MaxNesting <- MCMaxNesting
  TryThreads = {"tries"}
  NoCpu = "none"
CHECK_DEADLOCK FALSE
INVARIANTS
  HolderIsRunning
  InterruptsRestored
PROPERTIES
  ImplementsAbstractLock
