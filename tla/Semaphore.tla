----------------------------- MODULE Semaphore -----------------------------
(***************************************************************************)
(* The counting semaphore of Kernel/Sync/SemaPhores.c: a count that is     *)
(* loaded, tested and decremented by a compare-exchange, in a loop that    *)
(* spins.  Semaphore.WaitQueue and QueueLock are initialised and never     *)
(* used, so there is no queue to model.                                    *)
(***************************************************************************)
EXTENDS Integers, FiniteSets

CONSTANTS
  Callers,
  InitialCount   \* InitializeSemaphore's count

ASSUME SemaphoreAssumption == IsFiniteSet(Callers) /\ InitialCount \in Nat

VARIABLES
  Count,         \* Semaphore.Count
  at,            \* where in Acquire or TryAcquire a thread is
  CurrentCount,  \* the local variable CurrentCount of that call
  inside         \* the threads that have acquired and not yet released

semaphoreVars == <<Count, at, CurrentCount, inside>>

CallAcquireSemaphore(t) ==
  /\ at[t] = "idle"
  /\ t \notin inside
  /\ at' = [at EXCEPT ![t] = "load"]
  /\ UNCHANGED <<Count, CurrentCount, inside>>

\* The atomic load; AcquireSemaphore loads again while the count is not
\* positive.
LoadCount(t) ==
  /\ at[t] = "load"
  /\ CurrentCount' = [CurrentCount EXCEPT ![t] = Count]
  /\ at' = [at EXCEPT ![t] = IF Count > 0 THEN "cas" ELSE "load"]
  /\ UNCHANGED <<Count, inside>>

\* TryAcquireSemaphore loads once and gives up where AcquireSemaphore would
\* start over.
CallTryAcquireSemaphore(t) ==
  /\ at[t] = "idle"
  /\ t \notin inside
  /\ CurrentCount' = [CurrentCount EXCEPT ![t] = Count]
  /\ at' = [at EXCEPT ![t] = IF Count > 0 THEN "tryCas" ELSE "idle"]
  /\ UNCHANGED <<Count, inside>>

TryGivesUp(t) ==
  /\ at[t] = "tryCas"
  /\ Count # CurrentCount[t]
  /\ at' = [at EXCEPT ![t] = "idle"]
  /\ UNCHANGED <<Count, CurrentCount, inside>>

\* Mutant: the count is stored, not exchanged.
ExchangeCount_Store(t) ==
  /\ at[t] \in {"cas", "tryCas"}
  /\ Count' = CurrentCount[t] - 1
  /\ inside' = inside \cup {t}
  /\ at' = [at EXCEPT ![t] = "idle"]
  /\ UNCHANGED CurrentCount

\* Mutant: a failed exchange is tried again with the count loaded before.
ExchangeCount_NoReload(t) ==
  /\ at[t] \in {"cas", "tryCas"}
  /\ Count = CurrentCount[t]
  /\ Count' = CurrentCount[t] - 1
  /\ inside' = inside \cup {t}
  /\ at' = [at EXCEPT ![t] = "idle"]
  /\ UNCHANGED CurrentCount

\* The compare-exchange; in AcquireSemaphore a failed one starts over.
ExchangeCount(t) ==
  /\ \/ /\ at[t] \in {"cas", "tryCas"}
        /\ Count = CurrentCount[t]
        /\ Count' = CurrentCount[t] - 1
        /\ inside' = inside \cup {t}
        /\ at' = [at EXCEPT ![t] = "idle"]
     \/ /\ at[t] = "cas"
        /\ Count # CurrentCount[t]
        /\ at' = [at EXCEPT ![t] = "load"]
        /\ UNCHANGED <<Count, inside>>
  /\ UNCHANGED CurrentCount

ReleaseSemaphore(t) ==
  /\ at[t] = "idle"
  /\ t \in inside
  /\ Count' = Count + 1
  /\ inside' = inside \ {t}
  /\ UNCHANGED <<at, CurrentCount>>

InitializeSemaphore ==
  /\ Count = InitialCount
  /\ at = [t \in Callers |-> "idle"]
  /\ CurrentCount = [t \in Callers |-> 0]
  /\ inside = {}

SemaphoreNext ==
  \E t \in Callers :
    \/ CallAcquireSemaphore(t) \/ LoadCount(t) \/ ExchangeCount(t)
    \/ CallTryAcquireSemaphore(t) \/ TryGivesUp(t)
    \/ ReleaseSemaphore(t)

SemaphoreSpec == InitializeSemaphore /\ [][SemaphoreNext]_semaphoreVars

\* Every thread keeps executing, and gives back what it acquired.
FairSemaphoreSpec ==
  SemaphoreSpec /\ \A t \in Callers :
    /\ WF_semaphoreVars(LoadCount(t))
    /\ WF_semaphoreVars(ExchangeCount(t))
    /\ WF_semaphoreVars(ReleaseSemaphore(t))

----------------------------------------------------------------------------
(* Properties *)

\* Every unit is in the count or with a thread, so never more than
\* InitialCount threads are inside and the count never goes below 0, however
\* loads and exchanges of different threads interleave.
UnitsConserved ==
  Count >= 0 /\ Count + Cardinality(inside) = InitialCount

\* Under contention somebody wins: while a thread waits in AcquireSemaphore
\* and others come and go, threads keep getting inside.  (Which one is not
\* promised: a waiter may lose every race.)
SomebodyEnters ==
  (\E t \in Callers : at[t] \in {"load", "cas"}) ~> (inside # {})

=============================================================================
