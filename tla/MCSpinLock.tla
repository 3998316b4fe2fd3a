----------------------------- MODULE MCSpinLock -----------------------------
(* Two CPUs, each with its interrupt handler.  On the first a thread that  *)
(* nests locks and one that does not preempt each other; the second runs a *)
(* driver that uses TryAcquireSpinLock.                                    *)
EXTENDS SpinLock

MCCpus == {"cpu0", "cpu1"}
MCContexts == {"nests", "flat", "tries", "h0", "h1"}
MCCpuOf == [k \in MCContexts |-> IF k \in {"tries", "h1"} THEN "cpu1" ELSE "cpu0"]
MCHandler == [c \in MCCpus |-> IF c = "cpu0" THEN "h0" ELSE "h1"]
MCMaxNesting == [k \in MCContexts |-> IF k \in {"nests", "h0"} THEN 2 ELSE 1]
=============================================================================
