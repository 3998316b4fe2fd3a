\* Two threads on one CPU and one on another, three acquisitions deep.
SPECIFICATION Spec
CONSTANTS
  Threads <- MCThreads
  Cpus <- MCCpus
  CpuOf <- MCCpuOf
  MaxDepth = 3
  CounterRange = 8
  NoCpu = "none"
INVARIANTS
  CountMatchesNesting
PROPERTIES
  IntrudersShareCpu
  ImplementsAbstractLock
