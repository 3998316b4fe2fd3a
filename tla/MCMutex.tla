------------------------------ MODULE MCMutex ------------------------------
EXTENDS Mutex

MCCpus == {"cpu0", "cpu1"}
MCThreads == {"t0", "t1", "t2"}

\* Two threads share a CPU, one has its own.
MCCpuOf == [t \in MCThreads |-> IF t = "t2" THEN "cpu1" ELSE "cpu0"]
=============================================================================
