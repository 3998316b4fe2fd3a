------------------------------- MODULE Mutex -------------------------------
(***************************************************************************)
(* The recursive mutex of Kernel/Sync/Mutexes.c, which guards the whole    *)
(* VFS (VfsLock).                                                          *)
(*                                                                         *)
(* It masks no interrupts, so threads of one CPU interleave here at every  *)
(* step exactly as threads of two CPUs do.  The owner it records is a CPU, *)
(* and a caller whose CPU is the owner enters without touching the lock    *)
(* word, also when it is another thread of that CPU that holds the mutex:  *)
(* such an intruder is inside too, and from then on nothing holds.          *)
(* RecursionCount++ and the decrement with its test are one instruction     *)
(* each in the kernel's -O2 build.                                          *)
(***************************************************************************)
EXTENDS Naturals

CONSTANTS
  Threads,
  Cpus,
  CpuOf,         \* the CPU a thread runs on
  MaxDepth,      \* how deep a thread nests its own acquisitions
  CounterRange,  \* 2^32, the range of RecursionCount
  NoCpu          \* 0xFFFFFFFF in Mutex.Owner

ASSUME MutexAssumption ==
  /\ CpuOf \in [Threads -> Cpus]
  /\ MaxDepth \in Nat /\ CounterRange \in Nat
  /\ MaxDepth < CounterRange /\ 1 < CounterRange
  /\ NoCpu \notin Cpus
  /\ NoCpu \notin Threads

VARIABLES
  Lock,            \* Mutex.Lock
  Owner,           \* Mutex.Owner
  RecursionCount,  \* Mutex.RecursionCount
  pc,              \* where in Acquire, TryAcquire or Release a thread is
  depth,           \* acquisitions of a thread that it has not released
  intruded         \* history: a thread that did not hold the mutex passed
                   \* the test of Owner

vars == <<Lock, Owner, RecursionCount, pc, depth, intruded>>

Goto(t, step) == pc' = [pc EXCEPT ![t] = step]

Entered(t) ==
  /\ depth' = [depth EXCEPT ![t] = @ + 1]
  /\ Goto(t, "idle")

----------------------------------------------------------------------------
(* AcquireMutex and TryAcquireMutex *)

CallAcquire(t) ==
  /\ pc[t] = "idle"
  /\ depth[t] < MaxDepth
  /\ Goto(t, "owner")
  /\ UNCHANGED <<Lock, Owner, RecursionCount, depth, intruded>>

CallTryAcquire(t) ==
  /\ pc[t] = "idle"
  /\ depth[t] < MaxDepth
  /\ Goto(t, "tryOwner")
  /\ UNCHANGED <<Lock, Owner, RecursionCount, depth, intruded>>

\* Owner == CpuId: a recursive entry, or the way to the compare-exchange.
TestOwner(t) ==
  /\ \/ pc[t] = "owner" /\ Owner # CpuOf[t] /\ Goto(t, "cas")
     \/ pc[t] = "tryOwner" /\ Owner # CpuOf[t] /\ Goto(t, "tryCas")
     \/ pc[t] \in {"owner", "tryOwner"} /\ Owner = CpuOf[t] /\ Goto(t, "recurse")
  /\ intruded' = (intruded \/ (Owner = CpuOf[t] /\ depth[t] = 0))
  /\ UNCHANGED <<Lock, Owner, RecursionCount, depth>>

\* Mutant: a recursive entry is not counted.
Recurse_NotCounted(t) ==
  /\ pc[t] = "recurse"
  /\ Entered(t)
  /\ UNCHANGED <<Lock, Owner, RecursionCount, intruded>>

Recurse(t) ==
  /\ pc[t] = "recurse"
  /\ RecursionCount' = (RecursionCount + 1) % CounterRange
  /\ Entered(t)
  /\ UNCHANGED <<Lock, Owner, intruded>>

\* Mutant: the word is stored without the comparison.
CompareExchange_Store(t) ==
  /\ pc[t] \in {"cas", "tryCas"}
  /\ Lock' = 1
  /\ Goto(t, "own")
  /\ UNCHANGED <<Owner, RecursionCount, depth, intruded>>

\* The compare-exchange that succeeds; AcquireMutex spins until it does.
CompareExchange(t) ==
  /\ pc[t] \in {"cas", "tryCas"}
  /\ Lock = 0
  /\ Lock' = 1
  /\ Goto(t, "own")
  /\ UNCHANGED <<Owner, RecursionCount, depth, intruded>>

\* TryAcquireMutex gives up when the word is taken.
TryFails(t) ==
  /\ pc[t] = "tryCas"
  /\ Lock = 1
  /\ Goto(t, "idle")
  /\ UNCHANGED <<Lock, Owner, RecursionCount, depth, intruded>>

SetOwner(t) ==
  /\ pc[t] = "own"
  /\ Owner' = CpuOf[t]
  /\ Goto(t, "count")
  /\ UNCHANGED <<Lock, RecursionCount, depth, intruded>>

SetCount(t) ==
  /\ pc[t] = "count"
  /\ RecursionCount' = 1
  /\ Entered(t)
  /\ UNCHANGED <<Lock, Owner, intruded>>

----------------------------------------------------------------------------
(* ReleaseMutex *)

CallRelease(t) ==
  /\ pc[t] = "idle"
  /\ depth[t] > 0
  /\ depth' = [depth EXCEPT ![t] = @ - 1]
  /\ Goto(t, "release")
  /\ UNCHANGED <<Lock, Owner, RecursionCount, intruded>>

\* A caller whose CPU is not the owner is ignored.
TestRelease(t) ==
  /\ pc[t] = "release"
  /\ Goto(t, IF Owner = CpuOf[t] THEN "decrement" ELSE "idle")
  /\ UNCHANGED <<Lock, Owner, RecursionCount, depth, intruded>>

\* The last release of the owner goes on to free the word.
Decrement(t) ==
  /\ pc[t] = "decrement"
  /\ RecursionCount' = (RecursionCount + CounterRange - 1) % CounterRange
  /\ Goto(t, IF RecursionCount' = 0 THEN "disown" ELSE "idle")
  /\ UNCHANGED <<Lock, Owner, depth, intruded>>

\* Mutant: the owner stays behind.
ClearOwner_Kept(t) ==
  /\ pc[t] = "disown"
  /\ Goto(t, "unlock")
  /\ UNCHANGED <<Lock, Owner, RecursionCount, depth, intruded>>

ClearOwner(t) ==
  /\ pc[t] = "disown"
  /\ Owner' = NoCpu
  /\ Goto(t, "unlock")
  /\ UNCHANGED <<Lock, RecursionCount, depth, intruded>>

Unlock(t) ==
  /\ pc[t] = "unlock"
  /\ Lock' = 0
  /\ Goto(t, "idle")
  /\ UNCHANGED <<Owner, RecursionCount, depth, intruded>>

----------------------------------------------------------------------------

\* InitializeMutex.
Init ==
  /\ Lock = 0
  /\ Owner = NoCpu
  /\ RecursionCount = 0
  /\ pc = [t \in Threads |-> "idle"]
  /\ depth = [t \in Threads |-> 0]
  /\ intruded = FALSE

Step(t) ==
  \/ CallAcquire(t) \/ CallTryAcquire(t) \/ TestOwner(t) \/ Recurse(t)
  \/ CompareExchange(t) \/ TryFails(t)
  \/ SetOwner(t) \/ SetCount(t)
  \/ CallRelease(t) \/ TestRelease(t) \/ Decrement(t) \/ ClearOwner(t) \/ Unlock(t)

Next == \E t \in Threads : Step(t)

Spec == Init /\ [][Next]_vars

----------------------------------------------------------------------------
(* Properties *)

Steps == {"idle", "owner", "tryOwner", "recurse", "cas", "tryCas", "own", "count",
          "release", "decrement", "disown", "unlock"}

\* The fields of the mutex keep their ranges: Owner is a CPU or none
\* (Mutexes.c), never anything else.
TypeOK ==
  /\ Lock \in {0, 1}
  /\ Owner \in Cpus \cup {NoCpu}
  /\ RecursionCount \in 0 .. CounterRange - 1
  /\ pc \in [Threads -> Steps]
  /\ depth \in [Threads -> Nat]
  /\ intruded \in BOOLEAN

\* The thread that has the lock word: from the compare-exchange to the store
\* of 0.
Holds(t) ==
  depth[t] > 0 \/ pc[t] \in {"own", "count", "release", "decrement", "disown", "unlock"}

\* Who intrudes: the recursion test lets in a thread that does not hold the
\* mutex only if a thread of its own CPU holds it at that moment. A thread
\* of another CPU never gets in by an Owner that is read without the lock,
\* while it is being set, or after it should have been cleared.
IntrudersShareCpu ==
  [][~intruded /\ intruded' =>
       \E t, u \in Threads : /\ pc[t] # "recurse" /\ pc'[t] = "recurse"
                             /\ t # u /\ CpuOf[t] = CpuOf[u] /\ Holds(u)]_vars

\* Until somebody intrudes the mutex counts exactly: between two of its calls
\* a thread that is inside owns the mutex with the count of its acquisitions,
\* and one that is outside finds its CPU as the owner only while another
\* thread of that CPU holds the mutex. So nested VFS calls free the mutex at
\* the outermost release, neither earlier (another CPU would get in) nor
\* later (it would be stuck).
CountMatchesNesting ==
  ~intruded => \A t \in Threads :
    pc[t] = "idle" =>
      /\ depth[t] > 0 => Lock = 1 /\ Owner = CpuOf[t] /\ RecursionCount = depth[t]
      /\ depth[t] = 0 /\ Owner = CpuOf[t] => \E u \in Threads : CpuOf[u] = CpuOf[t] /\ Holds(u)

Holder == IF \E t \in Threads : Holds(t) THEN CHOOSE t \in Threads : Holds(t) ELSE NoCpu

mutexBar == [l \in {"mutex"} |-> Holder]

Abstract == INSTANCE AbstractLock
  WITH Clients <- Threads, Locks <- {"mutex"}, NoHolder <- NoCpu, holder <- mutexBar

\* Until somebody intrudes the recursive mutex implements the plain lock:
\* one thread holds it at a time, on whatever CPUs the threads are, and nested
\* acquisitions and releases are invisible.
ImplementsAbstractLock ==
  Abstract!Init /\ [][intruded' \/ [Abstract!Next]_mutexBar]_vars

----------------------------------------------------------------------------
(* The inductive invariant of the proofs *)

\* From the store of Owner to its reset.
Owns(t) == depth[t] > 0 \/ pc[t] \in {"count", "release", "decrement", "disown"}

\* What each step of a thread knows of the mutex.
OwnerInv ==
  /\ \A t \in Threads :
       /\ pc[t] \in {"own", "count", "cas", "tryCas", "disown", "unlock"} => depth[t] = 0
       /\ pc[t] = "recurse" => depth[t] > 0
       /\ Holds(t) => Lock = 1
       /\ Owns(t) => Owner = CpuOf[t]
       /\ pc[t] \in {"idle", "owner", "tryOwner", "recurse"} /\ depth[t] > 0 =>
            RecursionCount = depth[t]
       /\ pc[t] \in {"release", "decrement"} => RecursionCount = depth[t] + 1
       /\ depth[t] <= MaxDepth
       /\ pc[t] \in {"owner", "tryOwner", "recurse", "cas", "tryCas", "own", "count"} =>
            depth[t] < MaxDepth
       /\ pc[t] \in {"release", "decrement"} => depth[t] < MaxDepth
  /\ Owner # NoCpu => \E t \in Threads : Owns(t)

OneHolder == \A t, u \in Threads : Holds(t) /\ Holds(u) => t = u

MutexInv == TypeOK /\ (~intruded => OwnerInv /\ OneHolder)

=============================================================================
