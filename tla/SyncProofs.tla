---------------------------- MODULE SyncProofs -----------------------------
(***************************************************************************)
(* Proofs about the mutex and the semaphore of Kernel/Sync.                *)
(*                                                                         *)
(* The mutex: who can intrude, and, until somebody does, exact counting    *)
(* and the refinement of AbstractLock, for any placement of any number of  *)
(* threads on the CPUs and any nesting.  The semaphore, at the end of the  *)
(* module: units are conserved, for any threads and any count.             *)
(***************************************************************************)
EXTENDS Mutex, Semaphore, FiniteSetTheorems, TLAPS

\* One less, and one more, in the range of the counter.
LEMMA CounterSteps ==
  ASSUME NEW w \in Nat, NEW n \in Nat, n < w
  PROVE  /\ n > 0 => (n + w - 1) % w = n - 1
         /\ n + 1 < w => (n + 1) % w = n + 1
<1>1. ASSUME n > 0 PROVE (n + w - 1) % w = n - 1
  <2>1. n - 1 \in 0 .. w - 1 /\ n + w - 1 = w * 1 + (n - 1)
    BY <1>1
  <2> QED
    BY <2>1
<1> QED
  BY <1>1

\* A mutex that InitializeMutex has set up satisfies the invariant.
LEMMA MutexInit == Init => MutexInv
<1> USE MutexAssumption DEF Init
<1>1. Init => intruded \in BOOLEAN
  BY Zenon
<1>2. Init => OwnerInv /\ OneHolder
  BY DEF OwnerInv, OneHolder, Holds, Owns
<1>3. Init => /\ Lock \in {0, 1} /\ Owner \in Cpus \cup {NoCpu}
              /\ RecursionCount \in 0 .. CounterRange - 1
              /\ pc \in [Threads -> Steps] /\ depth \in [Threads -> Nat]
  BY DEF Steps
<1> QED
  BY <1>1, <1>2, <1>3 DEF MutexInv, TypeOK

\* The ranges of the fields are kept by every step.
LEMMA MutexTypeStep ==
  ASSUME TypeOK, [Next]_vars
  PROVE  TypeOK'
<1> USE MutexAssumption DEF Steps, Goto, Entered
<1>1. /\ Lock \in {0, 1} /\ Owner \in Cpus \cup {NoCpu}
      /\ RecursionCount \in 0 .. CounterRange - 1
      /\ pc \in [Threads -> Steps] /\ depth \in [Threads -> Nat]
  BY DEF TypeOK
<1> DEFINE FieldsOK == /\ Lock \in {0, 1} /\ Owner \in Cpus \cup {NoCpu}
                       /\ RecursionCount \in 0 .. CounterRange - 1
                       /\ pc \in [Threads -> Steps] /\ depth \in [Threads -> Nat]
<1>2. ASSUME NEW t \in Threads,
             \/ CallAcquire(t) \/ CallTryAcquire(t) \/ TestOwner(t) \/ TryFails(t)
             \/ CompareExchange(t) \/ CallRelease(t) \/ TestRelease(t)
             \/ ClearOwner(t) \/ Unlock(t) \/ SetOwner(t)
      PROVE  FieldsOK'
  BY <1>1, <1>2 DEF CallAcquire, CallTryAcquire, TestOwner, TryFails, CompareExchange,
                    CallRelease, TestRelease, ClearOwner, Unlock, SetOwner
<1>3. ASSUME NEW t \in Threads, Recurse(t) \/ SetCount(t) \/ Decrement(t)
      PROVE  FieldsOK'
  <2>1. \A n \in Nat : n % CounterRange \in 0 .. CounterRange - 1
    OBVIOUS
  <2>2. RecursionCount + 1 \in Nat /\ RecursionCount + CounterRange - 1 \in Nat
    BY <1>1
  <2>3. RecursionCount' \in 0 .. CounterRange - 1
    BY <1>1, <1>3, <2>1, <2>2 DEF Recurse, SetCount, Decrement
  <2> QED
    BY <1>1, <1>3, <2>3 DEF Recurse, SetCount, Decrement
<1>4. ASSUME UNCHANGED vars
      PROVE  FieldsOK'
  BY <1>1, <1>4 DEF vars
<1>5. FieldsOK'
  BY <1>2, <1>3, <1>4 DEF Next, Step
<1>6. intruded' \in BOOLEAN
  BY Zenon DEF TypeOK, Next, Step, vars, CallAcquire, CallTryAcquire, TestOwner, TryFails,
     Recurse, CompareExchange, CallRelease, TestRelease, Decrement, ClearOwner, Unlock,
     SetOwner, SetCount
<1> QED
  BY <1>5, <1>6 DEF TypeOK

\* An intrusion is never forgotten.
LEMMA IntrusionStays ==
  ASSUME [Next]_vars, intruded
  PROVE  intruded'
BY Zenon DEF Next, Step, vars, CallAcquire, CallTryAcquire, TestOwner, TryFails, Recurse,
   CompareExchange, CallRelease, TestRelease, Decrement, ClearOwner, Unlock, SetOwner, SetCount

\* As long as nobody intrudes, every step of a thread preserves what the
\* program counters know: one step of the proof per action.
LEMMA MutexOwnerStep ==
  ASSUME TypeOK, OwnerInv, OneHolder, ~intruded', [Next]_vars
  PROVE  OwnerInv' /\ OneHolder'
<1> USE MutexAssumption DEF TypeOK, Steps, OwnerInv, OneHolder, Holds, Owns, Goto
<1>1. ASSUME NEW t \in Threads, CallAcquire(t) \/ CallTryAcquire(t)
      PROVE  OwnerInv' /\ OneHolder'
  BY <1>1 DEF CallAcquire, CallTryAcquire
<1>2. ASSUME NEW t \in Threads, TestOwner(t)
      PROVE  OwnerInv' /\ OneHolder'
  <2>1. Owner = CpuOf[t] => depth[t] # 0
    BY <1>2 DEF TestOwner
  <2>2. Owner = CpuOf[t] <=> depth[t] > 0
    BY <1>2, <2>1
  <2> QED
    BY <1>2, <2>2 DEF TestOwner
<1>3. ASSUME NEW t \in Threads, Recurse(t)
      PROVE  OwnerInv' /\ OneHolder'
  <2>1. RecursionCount = depth[t] /\ depth[t] + 1 < CounterRange
    BY <1>3 DEF Recurse
  <2>2. RecursionCount' = depth[t] + 1
    BY <1>3, <2>1, CounterSteps DEF Recurse
  <2> QED
    BY <1>3, <2>1, <2>2 DEF Recurse, Entered
<1>4. ASSUME NEW t \in Threads, CompareExchange(t)
      PROVE  OwnerInv' /\ OneHolder'
  BY <1>4 DEF CompareExchange
<1>5. ASSUME NEW t \in Threads, TryFails(t)
      PROVE  OwnerInv' /\ OneHolder'
  BY <1>5 DEF TryFails
<1>6. ASSUME NEW t \in Threads, SetOwner(t)
      PROVE  OwnerInv' /\ OneHolder'
  BY <1>6 DEF SetOwner
<1>7. ASSUME NEW t \in Threads, SetCount(t)
      PROVE  OwnerInv' /\ OneHolder'
  BY <1>7 DEF SetCount, Entered
<1>8. ASSUME NEW t \in Threads, CallRelease(t)
      PROVE  OwnerInv' /\ OneHolder'
  BY <1>8 DEF CallRelease
<1>9. ASSUME NEW t \in Threads, TestRelease(t)
      PROVE  OwnerInv' /\ OneHolder'
  <2>1. pc' = [pc EXCEPT ![t] = "decrement"]
    BY <1>9 DEF TestRelease
  <2> QED
    BY <1>9, <2>1 DEF TestRelease
<1>10. ASSUME NEW t \in Threads, Decrement(t)
       PROVE  OwnerInv' /\ OneHolder'
  <2>1. RecursionCount = depth[t] + 1 /\ Owner = CpuOf[t] /\ pc[t] = "decrement"
    BY <1>10 DEF Decrement
  <2>2. RecursionCount' = depth[t]
    BY <1>10, <2>1, CounterSteps DEF Decrement
  <2>3. /\ pc' = [pc EXCEPT ![t] = IF depth[t] = 0 THEN "disown" ELSE "idle"]
        /\ UNCHANGED <<Lock, Owner, depth>>
    BY <1>10, <2>1, <2>2 DEF Decrement
  <2>4. OwnerInv'
    BY <1>10, <2>1, <2>2, <2>3
  <2>5. OneHolder'
    BY <1>10, <2>1, <2>3
  <2> QED
    BY <2>4, <2>5
<1>11. ASSUME NEW t \in Threads, ClearOwner(t)
       PROVE  OwnerInv' /\ OneHolder'
  BY <1>11 DEF ClearOwner
<1>12. ASSUME NEW t \in Threads, Unlock(t)
       PROVE  OwnerInv' /\ OneHolder'
  BY <1>12 DEF Unlock
<1>13. CASE UNCHANGED vars
  BY <1>13 DEF vars
<1> QED
  BY <1>1, <1>2, <1>3, <1>4, <1>5, <1>6, <1>7, <1>8, <1>9, <1>10, <1>11, <1>12, <1>13
     DEF Next, Step

\* The inductive invariant of the mutex, for any placement of the threads: what
\* each program counter of AcquireMutex, TryAcquireMutex and ReleaseMutex knows
\* of Lock, Owner and RecursionCount until a thread intrudes.
THEOREM MutexInvariant == Spec => []MutexInv
<1>1. MutexInv /\ [Next]_vars => MutexInv'
  BY MutexTypeStep, IntrusionStays, MutexOwnerStep DEF MutexInv
<1> QED
  BY <1>1, MutexInit, PTL DEF Spec

\* Only a thread that shares its CPU with the holder is let in beside it: no
\* interleaving of the plain stores of Owner with the reads of other CPUs lets
\* anybody else pass the recursion test.
THEOREM MutexIntrudersShareCpu == Spec => IntrudersShareCpu
<1> DEFINE Shared == \E t, u \in Threads : /\ pc[t] # "recurse" /\ pc'[t] = "recurse"
                                           /\ t # u /\ CpuOf[t] = CpuOf[u] /\ Holds(u)
<1>1. ASSUME MutexInv, [Next]_vars, ~intruded, intruded'
      PROVE  Shared
  <2>1. PICK t \in Threads : TestOwner(t) /\ Owner = CpuOf[t] /\ depth[t] = 0
    BY <1>1 DEF Next, Step, vars, CallAcquire, CallTryAcquire, TestOwner, TryFails, Recurse,
                CompareExchange, CallRelease, TestRelease, Decrement, ClearOwner, Unlock,
                SetOwner, SetCount
  <2>2. pc[t] \in {"owner", "tryOwner"} /\ pc'[t] = "recurse"
    BY <1>1, <2>1 DEF TestOwner, Goto, MutexInv, TypeOK
  <2>3. PICK u \in Threads : Owns(u)
    BY <1>1, <2>1, MutexAssumption DEF MutexInv, OwnerInv
  <2>4. Holds(u) /\ CpuOf[u] = CpuOf[t] /\ u # t
    BY <1>1, <2>1, <2>2, <2>3 DEF MutexInv, TypeOK, OwnerInv, Owns, Holds
  <2> QED
    BY <2>2, <2>4
<1>2. MutexInv /\ [Next]_vars => [~intruded /\ intruded' => Shared]_vars
  BY <1>1
<1> QED
  BY <1>2, MutexInvariant, PTL DEF Spec, IntrudersShareCpu

\* Until a thread intrudes, the mutex counts a thread's nesting exactly and is
\* freed at the outermost release.
THEOREM MutexCountMatchesNesting == Spec => []CountMatchesNesting
<1>1. MutexInv => CountMatchesNesting
  BY MutexAssumption DEF MutexInv, TypeOK, OwnerInv, Owns, Holds, CountMatchesNesting
<1> QED
  BY <1>1, MutexInvariant, PTL

----------------------------------------------------------------------------
(* The refinement *)

\* A step that moves no thread in or out of the mutex keeps its holder.
LEMMA HolderStutters ==
  ASSUME \A t \in Threads : Holds(t)' <=> Holds(t)
  PROVE  mutexBar' = mutexBar
<1>1. Holder' = Holder
  BY DEF Holder
<1> QED
  BY <1>1 DEF mutexBar

\* The one thread inside is the holder.
LEMMA HolderIs ==
  ASSUME OneHolder, NEW t \in Threads, Holds(t)
  PROVE  Holder = t
BY DEF OneHolder, Holder

\* Until somebody intrudes, every step of AcquireMutex, TryAcquireMutex and
\* ReleaseMutex is an abstract acquisition (the compare-exchange that succeeds), an abstract release (the
\* store of 0) or invisible.
LEMMA MutexStepRefines ==
  ASSUME TypeOK, OwnerInv, OneHolder, OneHolder', ~intruded', [Next]_vars
  PROVE  Abstract!Next \/ mutexBar' = mutexBar
<1> USE DEF Goto, Entered
<1>1. pc \in [Threads -> Steps] /\ depth \in [Threads -> Nat]
  BY DEF TypeOK
<1>2. OneHolder /\ OneHolder'
  OBVIOUS
<1>3. ASSUME NEW t \in Threads, CompareExchange(t)
      PROVE  Abstract!Next
  <2>1. \A u \in Threads : ~Holds(u)
    BY <1>3 DEF CompareExchange, OwnerInv
  <2>2. Holder = NoCpu
    BY <2>1 DEF Holder
  <2>3. Holds(t)'
    BY <1>1, <1>3 DEF CompareExchange, Holds
  <2>4. Holder' = t
    BY <1>2, <2>3, HolderIs DEF OneHolder, Holder
  <2> QED
    BY <2>2, <2>4 DEF Abstract!Next, Abstract!Acquire, mutexBar
<1>4. ASSUME NEW t \in Threads, Unlock(t)
      PROVE  Abstract!Next
  <2>1. Holds(t)
    BY <1>4 DEF Unlock, Holds
  <2>2. Holder = t
    BY <1>2, <2>1, HolderIs
  <2>3. \A u \in Threads : ~Holds(u)'
    <3>1. ~Holds(t)'
      BY <1>1, <1>4 DEF Unlock, Holds, OwnerInv
    <3>2. ASSUME NEW u \in Threads, u # t PROVE ~Holds(u)'
      BY <1>1, <1>2, <1>4, <2>1, <3>2 DEF Unlock, Holds, OneHolder
    <3> QED
      BY <3>1, <3>2
  <2>4. Holder' = NoCpu
    BY <2>3 DEF Holder
  <2> QED
    BY <2>2, <2>4 DEF Abstract!Next, Abstract!Release, mutexBar
<1>5. ASSUME NEW t \in Threads,
             \/ CallAcquire(t) \/ CallTryAcquire(t) \/ TestOwner(t) \/ TryFails(t)
             \/ SetOwner(t) \/ ClearOwner(t) \/ TestRelease(t)
      PROVE  \A u \in Threads : Holds(u)' <=> Holds(u)
  <2>1. TestRelease(t) => Owner = CpuOf[t]
    BY DEF TestRelease, OwnerInv, Owns
  <2> QED
    BY <1>1, <1>5, <2>1 DEF CallAcquire, CallTryAcquire, TestOwner, TryFails, SetOwner,
                            ClearOwner, TestRelease, Holds
<1>6. ASSUME NEW t \in Threads, Recurse(t)
      PROVE  \A u \in Threads : Holds(u)' <=> Holds(u)
  BY <1>1, <1>6 DEF Recurse, Holds, OwnerInv
<1>7. ASSUME NEW t \in Threads, SetCount(t)
      PROVE  \A u \in Threads : Holds(u)' <=> Holds(u)
  BY <1>1, <1>7 DEF SetCount, Holds
<1>8. ASSUME NEW t \in Threads, CallRelease(t)
      PROVE  \A u \in Threads : Holds(u)' <=> Holds(u)
  BY <1>1, <1>8 DEF CallRelease, Holds
<1>9. ASSUME NEW t \in Threads, Decrement(t)
      PROVE  \A u \in Threads : Holds(u)' <=> Holds(u)
  <2>1. Owner = CpuOf[t] /\ pc[t] = "decrement" /\ RecursionCount = depth[t] + 1
    BY <1>9 DEF Decrement, OwnerInv, Owns
  <2>2. RecursionCount' = depth[t]
    BY <1>9, <2>1, CounterSteps, MutexAssumption DEF Decrement, TypeOK, OwnerInv
  <2>3. pc' = [pc EXCEPT ![t] = IF depth[t] = 0 THEN "disown" ELSE "idle"] /\ depth' = depth
    BY <1>9, <2>1, <2>2 DEF Decrement
  <2> QED
    BY <1>1, <2>1, <2>3 DEF Holds
<1>10. CASE UNCHANGED vars
  BY <1>10, HolderStutters DEF vars, Holds
<1> QED
  BY <1>3, <1>4, <1>5, <1>6, <1>7, <1>8, <1>9, <1>10, HolderStutters DEF Next, Step

\* Until a thread intrudes, the recursive mutex implements the plain lock of
\* AbstractLock, wherever the threads are: one thread is inside at a time, nested
\* entries, the owner and the counter are invisible, and the mutex changes hands
\* only at the compare-exchange and the store of 0.
THEOREM MutexImplementsAbstractLock == Spec => ImplementsAbstractLock
<1>1. Init => Abstract!Init
  BY DEF Init, Abstract!Init, Holder, Holds, mutexBar
<1>2. MutexInv /\ MutexInv' /\ [Next]_vars => [intruded' \/ [Abstract!Next]_mutexBar]_vars
  BY IntrusionStays, MutexStepRefines DEF MutexInv
<1> QED
  BY <1>1, <1>2, MutexInvariant, PTL DEF Spec, ImplementsAbstractLock

----------------------------------------------------------------------------
(* The semaphore *)

\* What each step of a thread knows: an exchange is only tried with a count
\* that was positive when it was loaded, by a thread that is not inside.
SemaphoreInv ==
  /\ Count \in Nat
  /\ inside \in SUBSET Callers
  /\ Count + Cardinality(inside) = InitialCount
  /\ at \in [Callers -> {"idle", "load", "cas", "tryCas"}]
  /\ CurrentCount \in [Callers -> Nat]
  /\ \A t \in Callers :
       /\ at[t] # "idle" => t \notin inside
       /\ at[t] \in {"cas", "tryCas"} => CurrentCount[t] > 0

\* A semaphore that InitializeSemaphore has set up satisfies the invariant.
LEMMA SemaphoreInit ==
  ASSUME InitializeSemaphore
  PROVE  SemaphoreInv
BY SemaphoreAssumption, FS_EmptySet DEF InitializeSemaphore, SemaphoreInv

\* Every load, exchange and release preserves it.
LEMMA SemaphoreStep ==
  ASSUME SemaphoreInv, [SemaphoreNext]_semaphoreVars
  PROVE  SemaphoreInv'
<1> USE DEF SemaphoreInv
<1>1. IsFiniteSet(inside) /\ Cardinality(inside) \in Nat /\ InitialCount \in Nat
  BY SemaphoreAssumption, FS_Subset, FS_CardinalityType
<1>2. ASSUME NEW t \in Callers,
             \/ CallAcquireSemaphore(t) \/ LoadCount(t)
             \/ CallTryAcquireSemaphore(t) \/ TryGivesUp(t)
      PROVE  SemaphoreInv'
  BY <1>2 DEF CallAcquireSemaphore, LoadCount, CallTryAcquireSemaphore, TryGivesUp
<1>3. ASSUME NEW t \in Callers, ExchangeCount(t)
      PROVE  SemaphoreInv'
  <2>1. t \notin inside
    BY <1>3 DEF ExchangeCount
  <2>2. Cardinality(inside \cup {t}) = Cardinality(inside) + 1
    BY <1>1, <2>1, FS_AddElement
  <2>3. CASE /\ at[t] \in {"cas", "tryCas"} /\ Count = CurrentCount[t]
             /\ Count' = CurrentCount[t] - 1 /\ inside' = inside \cup {t}
             /\ at' = [at EXCEPT ![t] = "idle"] /\ CurrentCount' = CurrentCount
    <3>1. Count' \in Nat /\ Count' = Count - 1
      BY <2>3
    <3>2. Count' + Cardinality(inside') = InitialCount
      BY <1>1, <2>2, <2>3, <3>1
    <3> QED
      BY <2>3, <3>1, <3>2
  <2>4. CASE /\ at' = [at EXCEPT ![t] = "load"] /\ at[t] = "cas"
             /\ UNCHANGED <<Count, inside, CurrentCount>>
    BY <2>4
  <2> QED
    BY <1>3, <2>3, <2>4 DEF ExchangeCount
<1>4. ASSUME NEW t \in Callers, ReleaseSemaphore(t)
      PROVE  SemaphoreInv'
  <2>1. Cardinality(inside \ {t}) = Cardinality(inside) - 1
    BY <1>1, <1>4, FS_RemoveElement DEF ReleaseSemaphore
  <2> QED
    BY <1>1, <1>4, <2>1 DEF ReleaseSemaphore
<1>5. CASE UNCHANGED semaphoreVars
  BY <1>5 DEF semaphoreVars
<1> QED
  BY <1>2, <1>3, <1>4, <1>5 DEF SemaphoreNext

\* Units are neither lost nor made: for any number of threads and any initial
\* count, AcquireSemaphore, TryAcquireSemaphore and ReleaseSemaphore let at most
\* InitialCount threads inside and the count never goes below 0.
THEOREM SemaphoreConservesUnits == SemaphoreSpec => []UnitsConserved
<1>1. SemaphoreInv /\ [SemaphoreNext]_semaphoreVars => SemaphoreInv'
  BY SemaphoreStep
<1>2. SemaphoreInv => UnitsConserved
  BY DEF SemaphoreInv, UnitsConserved
<1> QED
  BY <1>1, <1>2, SemaphoreInit, PTL DEF SemaphoreSpec
=============================================================================
