------------------------------ MODULE SpinLock ------------------------------
(***************************************************************************)
(* Spin locks and interrupts: Kernel/Sync/Spinlocks.c on several CPUs.     *)
(*                                                                         *)
(* A CPU runs one of its threads or its interrupt handler.  An interrupt   *)
(* is taken only when the CPU's IF flag is set; the handler then runs with *)
(* IF clear and returns to whichever thread of the CPU the scheduler       *)
(* picks, with the IF flag of that thread's interrupt frame.  Threads and  *)
(* handlers take the same locks (TimerHandler enters the scheduler's       *)
(* lock), so AcquireSpinLock clears IF before it spins and ReleaseSpinLock *)
(* restores what the CPU's slot of SavedFlags holds.                       *)
(*                                                                         *)
(* SavedFlags[c] is touched only by CPU c and Lock->CpuId is read by       *)
(* nobody, so the plain stores between two atomic operations are one step. *)
(***************************************************************************)
EXTENDS Naturals, FiniteSets

CONSTANTS
  Cpus,
  Contexts,    \* the threads and the interrupt handlers
  CpuOf,       \* the CPU a context runs on
  Handler,     \* the interrupt handler of each CPU
  Locks,       \* numbered in the order in which the code nests them
  MaxNesting,  \* how many locks each context holds at once
  TryThreads,  \* the threads, of drivers, that call TryAcquireSpinLock
  NoCpu        \* 0xFFFFFFFF in Lock->CpuId

Threads == Contexts \ {Handler[c] : c \in Cpus}

ASSUME SpinLockAssumption ==
  /\ Locks \subseteq Nat /\ Locks # {} /\ IsFiniteSet(Locks)
  /\ CpuOf \in [Contexts -> Cpus]
  /\ Handler \in [Cpus -> Contexts]
  /\ \A c \in Cpus : CpuOf[Handler[c]] = c
  /\ \A c \in Cpus : \E t \in Threads : CpuOf[t] = c
  /\ MaxNesting \in [Contexts -> Nat]
  /\ TryThreads \subseteq Threads
  /\ NoCpu \notin Cpus /\ NoCpu \notin Contexts

VARIABLES
  Lock,        \* Lock->Lock: 0 free, 1 taken
  LockCpuId,   \* Lock->CpuId
  SavedFlags,  \* the IF bit of SavedFlags[cpu]
  IF_,         \* RFLAGS.IF of each CPU
  running,     \* the context each CPU runs
  frame,       \* the IF bit in the interrupt frame of a context that is not running
  pc,          \* where in Acquire or Release a context is
  want,        \* the lock that call is about
  Flags,       \* the local variable Flags of that call
  held         \* the locks a context is inside of

vars == <<Lock, LockCpuId, SavedFlags, IF_, running, frame, pc, want, Flags, held>>

\* What want holds outside a call.
AnyLock == CHOOSE l \in Locks : TRUE

\* The call of context k returns, and its locals are gone.
Return(k) ==
  /\ pc' = [pc EXCEPT ![k] = "idle"]
  /\ want' = [want EXCEPT ![k] = AnyLock]
  /\ Flags' = [Flags EXCEPT ![k] = FALSE]

----------------------------------------------------------------------------
(* AcquireSpinLock, by the context k that runs on CPU c *)

\* A context calls AcquireSpinLock for a lock above those it is inside of.
CallAcquire(c, l) ==
  LET k == running[c]
  IN  /\ pc[k] = "idle"
      /\ \A m \in held[k] : m < l
      /\ Cardinality(held[k]) < MaxNesting[k]
      /\ pc' = [pc EXCEPT ![k] = "cli"]
      /\ want' = [want EXCEPT ![k] = l]
      /\ UNCHANGED <<Lock, LockCpuId, SavedFlags, IF_, running, frame, Flags, held>>

\* Mutant: the flags are read but interrupts stay on.
MaskInterrupts_NoCli(c) ==
  LET k == running[c]
  IN  /\ pc[k] = "cli"
      /\ Flags' = [Flags EXCEPT ![k] = IF_[c]]
      /\ pc' = [pc EXCEPT ![k] = "cas"]
      /\ UNCHANGED <<Lock, LockCpuId, SavedFlags, IF_, running, frame, want, held>>

\* Mutant: the flags are read after interrupts are off.
MaskInterrupts_CliFirst(c) ==
  LET k == running[c]
  IN  /\ pc[k] = "cli"
      /\ IF_' = [IF_ EXCEPT ![c] = FALSE]
      /\ Flags' = [Flags EXCEPT ![k] = FALSE]
      /\ pc' = [pc EXCEPT ![k] = "cas"]
      /\ UNCHANGED <<Lock, LockCpuId, SavedFlags, running, frame, want, held>>

\* pushfq; popq Flags; cli.
MaskInterrupts(c) ==
  LET k == running[c]
  IN  /\ pc[k] = "cli"
      /\ Flags' = [Flags EXCEPT ![k] = IF_[c]]
      /\ IF_' = [IF_ EXCEPT ![c] = FALSE]
      /\ pc' = [pc EXCEPT ![k] = "cas"]
      /\ UNCHANGED <<Lock, LockCpuId, SavedFlags, running, frame, want, held>>

\* Mutant: the word is stored without the comparison.
CompareExchange_Store(c) ==
  LET k == running[c]
      l == want[k]
  IN  /\ pc[k] = "cas"
      /\ Lock' = [Lock EXCEPT ![l] = 1]
      /\ held' = [held EXCEPT ![k] = @ \cup {l}]
      /\ pc' = [pc EXCEPT ![k] = "own"]
      /\ UNCHANGED <<LockCpuId, SavedFlags, IF_, running, frame, want, Flags>>

\* The compare-exchange that succeeds; one that fails only spins.
CompareExchange(c) ==
  LET k == running[c]
      l == want[k]
  IN  /\ pc[k] = "cas"
      /\ Lock[l] = 0
      /\ Lock' = [Lock EXCEPT ![l] = 1]
      /\ held' = [held EXCEPT ![k] = @ \cup {l}]
      /\ pc' = [pc EXCEPT ![k] = "own"]
      /\ UNCHANGED <<LockCpuId, SavedFlags, IF_, running, frame, want, Flags>>

RecordOwner(c) ==
  LET k == running[c]
  IN  /\ pc[k] = "own"
      /\ LockCpuId' = [LockCpuId EXCEPT ![want[k]] = c]
      /\ SavedFlags' = [SavedFlags EXCEPT ![c] = Flags[k]]
      /\ Return(k)
      /\ UNCHANGED <<Lock, IF_, running, frame, held>>

\* TryAcquireSpinLock takes a free lock and leaves the flags alone; a failed
\* try changes nothing.
TryAcquireSpinLock(c, l) ==
  LET k == running[c]
  IN  /\ k \in TryThreads
      /\ pc[k] = "idle"
      /\ \A m \in held[k] : m < l
      /\ Cardinality(held[k]) < MaxNesting[k]
      /\ Lock[l] = 0
      /\ Lock' = [Lock EXCEPT ![l] = 1]
      /\ LockCpuId' = [LockCpuId EXCEPT ![l] = c]
      /\ held' = [held EXCEPT ![k] = @ \cup {l}]
      /\ UNCHANGED <<SavedFlags, IF_, running, frame, pc, want, Flags>>

----------------------------------------------------------------------------
(* ReleaseSpinLock *)

CallRelease(c, l) ==
  LET k == running[c]
  IN  /\ pc[k] = "idle"
      /\ l \in held[k]
      /\ pc' = [pc EXCEPT ![k] = "disown"]
      /\ want' = [want EXCEPT ![k] = l]
      /\ UNCHANGED <<Lock, LockCpuId, SavedFlags, IF_, running, frame, Flags, held>>

ForgetOwner(c) ==
  LET k == running[c]
  IN  /\ pc[k] = "disown"
      /\ Flags' = [Flags EXCEPT ![k] = SavedFlags[c]]
      /\ LockCpuId' = [LockCpuId EXCEPT ![want[k]] = NoCpu]
      /\ pc' = [pc EXCEPT ![k] = "unlock"]
      /\ UNCHANGED <<Lock, SavedFlags, IF_, running, frame, want, held>>

\* The atomic store of 0.
Unlock(c) ==
  LET k == running[c]
      l == want[k]
  IN  /\ pc[k] = "unlock"
      /\ Lock' = [Lock EXCEPT ![l] = 0]
      /\ held' = [held EXCEPT ![k] = @ \ {l}]
      /\ pc' = [pc EXCEPT ![k] = "popf"]
      /\ UNCHANGED <<LockCpuId, SavedFlags, IF_, running, frame, want, Flags>>

\* pushq Flags; popfq.
RestoreFlags(c) ==
  LET k == running[c]
  IN  /\ pc[k] = "popf"
      /\ IF_' = [IF_ EXCEPT ![c] = Flags[k]]
      /\ Return(k)
      /\ UNCHANGED <<Lock, LockCpuId, SavedFlags, running, frame, held>>

----------------------------------------------------------------------------
(* The CPU *)

\* Through an interrupt gate: the frame keeps IF, and IF is cleared.
EnterHandler(c) ==
  /\ frame' = [frame EXCEPT ![running[c]] = IF_[c]]
  /\ running' = [running EXCEPT ![c] = Handler[c]]
  /\ IF_' = [IF_ EXCEPT ![c] = FALSE]
  /\ UNCHANGED <<Lock, LockCpuId, SavedFlags, pc, want, Flags, held>>

\* The timer interrupts a thread anywhere, if IF lets it.
Interrupt(c) ==
  /\ running[c] \in Threads
  /\ IF_[c]
  /\ EnterHandler(c)

\* int $0x20 from ThreadYield, which no thread calls inside a lock.
Yield(c) ==
  /\ running[c] \in Threads
  /\ pc[running[c]] = "idle"
  /\ held[running[c]] = {}
  /\ EnterHandler(c)

\* iretq to the thread the handler loaded into the frame.
ReturnFromInterrupt(c) ==
  /\ running[c] = Handler[c]
  /\ pc[Handler[c]] = "idle"
  /\ held[Handler[c]] = {}
  /\ \E t \in Threads :
       /\ CpuOf[t] = c
       /\ running' = [running EXCEPT ![c] = t]
       /\ IF_' = [IF_ EXCEPT ![c] = frame[t]]
       /\ frame' = [frame EXCEPT ![t] = TRUE]
  /\ UNCHANGED <<Lock, LockCpuId, SavedFlags, pc, want, Flags, held>>

----------------------------------------------------------------------------

\* Every CPU runs a thread with interrupts on; a new thread's Rflags has IF
\* set.
Init ==
  /\ Lock = [l \in Locks |-> 0]
  /\ LockCpuId = [l \in Locks |-> NoCpu]
  /\ SavedFlags = [c \in Cpus |-> FALSE]
  /\ IF_ = [c \in Cpus |-> TRUE]
  /\ running \in [Cpus -> Threads]
  /\ \A c \in Cpus : CpuOf[running[c]] = c
  /\ frame = [k \in Contexts |-> TRUE]
  /\ pc = [k \in Contexts |-> "idle"]
  /\ want = [k \in Contexts |-> AnyLock]
  /\ Flags = [k \in Contexts |-> FALSE]
  /\ held = [k \in Contexts |-> {}]

\* What a CPU does of itself once a call is under way, or a lock is held, or
\* a handler has nothing left to do.
Progress(c) ==
  \/ MaskInterrupts(c)
  \/ CompareExchange(c)
  \/ RecordOwner(c)
  \/ \E l \in Locks : CallRelease(c, l)
  \/ ForgetOwner(c)
  \/ Unlock(c)
  \/ RestoreFlags(c)

Next ==
  \E c \in Cpus :
    \/ Progress(c)
    \/ \E l \in Locks : CallAcquire(c, l)
    \/ \E l \in Locks : TryAcquireSpinLock(c, l)
    \/ Interrupt(c)
    \/ Yield(c)
    \/ ReturnFromInterrupt(c)

Spec == Init /\ [][Next]_vars

----------------------------------------------------------------------------
(* Properties *)

Steps == {"idle", "cli", "cas", "own", "disown", "unlock", "popf"}

\* The fields of the locks and CPUs keep their ranges (Spinlocks.c).
TypeOK ==
  /\ Lock \in [Locks -> {0, 1}]
  /\ LockCpuId \in [Locks -> Cpus \cup {NoCpu}]
  /\ SavedFlags \in [Cpus -> BOOLEAN]
  /\ IF_ \in [Cpus -> BOOLEAN]
  /\ running \in [Cpus -> Contexts]
  /\ frame \in [Contexts -> BOOLEAN]
  /\ pc \in [Contexts -> Steps]
  /\ want \in [Contexts -> Locks]
  /\ Flags \in [Contexts -> BOOLEAN]
  /\ held \in [Contexts -> SUBSET Locks]

\* No two contexts, of one CPU or of two, are inside the same lock.
MutualExclusion ==
  \A k, m \in Contexts : held[k] \cap held[m] # {} => k = m

\* A context that is inside a lock, or spins for one, is on its CPU with
\* interrupts off, unless it uses TryAcquireSpinLock, which masks none.  So
\* nobody ever spins for a lock whose holder it has displaced: the timer
\* handler that needs the scheduler's lock never finds it held by the very
\* thread it interrupted, which would hang the CPU.
HolderIsRunning ==
  \A k \in Contexts \ TryThreads :
    held[k] # {} \/ pc[k] \notin {"idle", "cli"} =>
      running[CpuOf[k]] = k /\ ~ IF_[CpuOf[k]]

\* The handler runs with interrupts off from entry to return, whatever locks
\* it takes and releases: the frame of the interrupted thread is not
\* overwritten by a second interrupt.
HandlerMasked ==
  \A c \in Cpus : running[c] = Handler[c] => ~ IF_[c]

\* Thread k is outside every lock only with interrupts on, as it was before it
\* called AcquireSpinLock.
FlagsRestored(k) ==
  running[CpuOf[k]] = k /\ pc[k] = "idle" /\ held[k] = {} => IF_[CpuOf[k]]

\* ReleaseSpinLock restores the flags of a thread that takes one lock at a
\* time, although one slot of SavedFlags serves all threads of its CPU, those
\* that nest locks included, and the interrupt handler.
InterruptsRestored ==
  \A k \in Threads \ TryThreads : MaxNesting[k] <= 1 => FlagsRestored(k)

Holder(l) ==
  IF \E k \in Contexts : l \in held[k]
  THEN CHOOSE k \in Contexts : l \in held[k]
  ELSE NoCpu

Abstract == INSTANCE AbstractLock
  WITH Clients <- Contexts, NoHolder <- NoCpu, holder <- [l \in Locks |-> Holder(l)]

\* The spin lock implements the abstract lock: the compare-exchange is the
\* acquisition and the store of 0 the release.
ImplementsAbstractLock == Abstract!Spec

=============================================================================
