--------------------------- MODULE SpinLockProofs ---------------------------
(***************************************************************************)
(* Proofs about SpinLock for any number of CPUs, threads, locks and levels *)
(* of nesting: mutual exclusion, that the spin lock implements the         *)
(* abstract lock, that a holder is never displaced, that a handler runs    *)
(* masked, and that a thread gets its interrupts back.                     *)
(***************************************************************************)
EXTENDS SpinLock, FiniteSetTheorems, TLAPS

----------------------------------------------------------------------------
(* Exclusion *)

\* The lock word tells when nobody is inside, and a call works on a lock the
\* caller is inside of from the compare-exchange to the store of 0.
LockWordInv ==
  /\ \A l \in Locks : Lock[l] = 0 => \A k \in Contexts : l \notin held[k]
  /\ \A k \in Contexts : pc[k] \in {"own", "disown", "unlock"} => want[k] \in held[k]

CpuInv == \A c \in Cpus : CpuOf[running[c]] = c

ExclusionInv == TypeOK /\ CpuInv /\ LockWordInv /\ MutualExclusion

\* There is a lock, so want names one also outside the calls of Spinlocks.c.
LEMMA AnyLockIsLock == AnyLock \in Locks
  BY SpinLockAssumption DEF AnyLock

\* Initialised locks satisfy the exclusion invariant.
LEMMA ExclusionInit == Init => ExclusionInv
<1> SUFFICES ASSUME Init PROVE ExclusionInv
  OBVIOUS
<1>1. want \in [Contexts -> Locks]
  BY AnyLockIsLock DEF Init
<1>2. TypeOK
  BY <1>1 DEF Init, TypeOK, Threads, Steps
<1>3. CpuInv /\ LockWordInv /\ MutualExclusion
  BY DEF Init, CpuInv, LockWordInv, MutualExclusion
<1> QED
  BY <1>2, <1>3 DEF ExclusionInv

\* Every step of a CPU preserves the exclusion invariant.
LEMMA ExclusionStep == ExclusionInv /\ [Next]_vars => ExclusionInv'
<1> SUFFICES ASSUME ExclusionInv, [Next]_vars PROVE ExclusionInv'
  OBVIOUS
<1> USE SpinLockAssumption DEF ExclusionInv, TypeOK, Steps, CpuInv, LockWordInv, MutualExclusion
<1>1. ASSUME NEW c \in Cpus, NEW l \in Locks, CallAcquire(c, l)
      PROVE  ExclusionInv'
  BY <1>1 DEF CallAcquire
<1>2. ASSUME NEW c \in Cpus, MaskInterrupts(c)
      PROVE  ExclusionInv'
  BY <1>2 DEF MaskInterrupts
<1>3. ASSUME NEW c \in Cpus, CompareExchange(c)
      PROVE  ExclusionInv'
  <2> DEFINE k == running[c]
             l == want[k]
  <2>1. k \in Contexts /\ l \in Locks /\ want[k] = l
    OBVIOUS
  <2>2. TypeOK' /\ CpuInv'
    BY <1>3, <2>1 DEF CompareExchange
  <2>3. /\ held' = [held EXCEPT ![k] = @ \cup {l}]
        /\ Lock' = [Lock EXCEPT ![l] = 1]
        /\ pc' = [pc EXCEPT ![k] = "own"]
        /\ want' = want
    BY <1>3 DEF CompareExchange
  <2>4. \A m \in Contexts : l \notin held[m]
    BY <1>3, <2>1 DEF CompareExchange
  <2> HIDE DEF k, l
  <2>5. LockWordInv'
    BY <2>1, <2>3, <2>4
  <2>6. MutualExclusion'
    BY <2>1, <2>3, <2>4
  <2> QED
    BY <2>2, <2>5, <2>6
<1>4. ASSUME NEW c \in Cpus, RecordOwner(c)
      PROVE  ExclusionInv'
  BY <1>4, AnyLockIsLock DEF RecordOwner, Return
<1>5. ASSUME NEW c \in Cpus, NEW l \in Locks, TryAcquireSpinLock(c, l)
      PROVE  ExclusionInv'
  BY <1>5 DEF TryAcquireSpinLock
<1>6. ASSUME NEW c \in Cpus, NEW l \in Locks, CallRelease(c, l)
      PROVE  ExclusionInv'
  BY <1>6 DEF CallRelease
<1>7. ASSUME NEW c \in Cpus, ForgetOwner(c)
      PROVE  ExclusionInv'
  BY <1>7 DEF ForgetOwner
<1>8. ASSUME NEW c \in Cpus, Unlock(c)
      PROVE  ExclusionInv'
  <2> DEFINE k == running[c]
             l == want[k]
  <2>1. k \in Contexts /\ l \in Locks /\ want[k] = l
    OBVIOUS
  <2>2. TypeOK' /\ CpuInv'
    BY <1>8, <2>1 DEF Unlock
  <2>3. /\ held' = [held EXCEPT ![k] = @ \ {l}]
        /\ Lock' = [Lock EXCEPT ![l] = 0]
        /\ pc' = [pc EXCEPT ![k] = "popf"]
        /\ want' = want
    BY <1>8 DEF Unlock
  <2>4. \A m \in Contexts : m # k => l \notin held[m]
    BY <1>8, <2>1 DEF Unlock
  <2> HIDE DEF k, l
  <2>5. LockWordInv'
    BY <2>1, <2>3, <2>4
  <2>6. MutualExclusion'
    BY <2>1, <2>3, <2>4
  <2> QED
    BY <2>2, <2>5, <2>6
<1>9. ASSUME NEW c \in Cpus, RestoreFlags(c)
      PROVE  ExclusionInv'
  BY <1>9, AnyLockIsLock DEF RestoreFlags, Return
<1>10. ASSUME NEW c \in Cpus, Interrupt(c) \/ Yield(c)
       PROVE  ExclusionInv'
  <2>1. EnterHandler(c)
    BY <1>10 DEF Interrupt, Yield
  <2>2. TypeOK'
    BY <2>1 DEF EnterHandler
  <2>3. CpuInv'
    BY <2>1 DEF EnterHandler
  <2>4. LockWordInv' /\ MutualExclusion'
    BY <2>1 DEF EnterHandler
  <2> QED
    BY <2>2, <2>3, <2>4
<1>11. ASSUME NEW c \in Cpus, ReturnFromInterrupt(c)
       PROVE  ExclusionInv'
  BY <1>11 DEF ReturnFromInterrupt, Threads
<1>12. CASE UNCHANGED vars
  BY <1>12 DEF vars
<1> QED
  BY <1>1, <1>2, <1>3, <1>4, <1>5, <1>6, <1>7, <1>8, <1>9, <1>10, <1>11, <1>12
     DEF Next, Progress

\* Nobody is inside a lock whose word is 0, and no two contexts are inside
\* the same lock, in every reachable state.
THEOREM ExclusionInvariant == Spec => []ExclusionInv
  BY ExclusionInit, ExclusionStep, PTL DEF Spec

\* At most one context is inside a spin lock, whatever the CPUs, threads,
\* interrupts and nesting, and with or without TryAcquireSpinLock.
THEOREM SpinLockMutualExclusion == Spec => []MutualExclusion
<1>1. ExclusionInv => MutualExclusion
  BY DEF ExclusionInv
<1> QED
  BY <1>1, ExclusionInvariant, PTL

----------------------------------------------------------------------------
(* Refinement *)

\* The abstract holder, as a function of who is inside which lock.
holderBar == [l \in Locks |-> Holder(l)]

\* With exclusion, the holder of a lock is the context that is inside it.
LEMMA HolderIs ==
  ASSUME MutualExclusion, NEW l \in Locks, NEW k \in Contexts, l \in held[k]
  PROVE  Holder(l) = k
<1>1. \A m \in Contexts : l \in held[m] => m = k
  BY DEF MutualExclusion
<1> QED
  BY <1>1 DEF Holder

\* A lock that nobody is inside of has no abstract holder.
LEMMA NoHolderIs ==
  ASSUME NEW l \in Locks, \A k \in Contexts : l \notin held[k]
  PROVE  Holder(l) = NoCpu
  BY DEF Holder

\* A step that leaves "inside" alone is a stuttering step of the abstract lock.
LEMMA HeldStutters ==
  ASSUME held' = held
  PROVE  holderBar' = holderBar
  BY DEF holderBar, Holder

\* A context enters a lock that nobody is inside of.
LEMMA EnteringAcquires ==
  ASSUME ExclusionInv, ExclusionInv', NEW k \in Contexts, NEW l \in Locks,
         \A m \in Contexts : l \notin held[m],
         held' = [held EXCEPT ![k] = @ \cup {l}]
  PROVE  /\ holderBar[l] = NoCpu
         /\ holderBar' = [holderBar EXCEPT ![l] = k]
<1>1. held \in [Contexts -> SUBSET Locks] /\ MutualExclusion /\ MutualExclusion'
  BY DEF ExclusionInv, TypeOK
<1>2. holderBar[l] = NoCpu
  BY NoHolderIs DEF holderBar
<1>3. Holder(l)' = k
  <2>1. \A m \in Contexts : l \in held'[m] <=> m = k
    BY <1>1
  <2> QED
    BY <2>1 DEF Holder
<1>4. ASSUME NEW m \in Locks, m # l
      PROVE  Holder(m)' = Holder(m)
  <2>1. \A n \in Contexts : m \in held'[n] <=> m \in held[n]
    BY <1>1, <1>4
  <2> QED
    BY <2>1 DEF Holder
<1>5. holderBar' = [holderBar EXCEPT ![l] = k]
  BY <1>3, <1>4 DEF holderBar
<1> QED
  BY <1>2, <1>5

\* A context leaves a lock it is inside of.
LEMMA LeavingReleases ==
  ASSUME ExclusionInv, NEW k \in Contexts, NEW l \in Locks, l \in held[k],
         held' = [held EXCEPT ![k] = @ \ {l}]
  PROVE  /\ holderBar[l] = k
         /\ holderBar' = [holderBar EXCEPT ![l] = NoCpu]
<1>1. held \in [Contexts -> SUBSET Locks] /\ MutualExclusion
  BY DEF ExclusionInv, TypeOK
<1>2. holderBar[l] = k
  BY <1>1, HolderIs DEF holderBar
<1>3. Holder(l)' = NoCpu
  <2>1. \A m \in Contexts : l \notin held'[m]
    BY <1>1 DEF MutualExclusion
  <2> QED
    BY <2>1 DEF Holder
<1>4. ASSUME NEW m \in Locks, m # l
      PROVE  Holder(m)' = Holder(m)
  <2>1. \A n \in Contexts : m \in held'[n] <=> m \in held[n]
    BY <1>1, <1>4
  <2> QED
    BY <2>1 DEF Holder
<1>5. holderBar' = [holderBar EXCEPT ![l] = NoCpu]
  BY <1>3, <1>4 DEF holderBar
<1> QED
  BY <1>2, <1>5

\* Every step of a CPU is an abstract acquisition, an abstract release or a
\* stutter.
LEMMA StepRefines ==
  ASSUME ExclusionInv, ExclusionInv', [Next]_vars
  PROVE  Abstract!Next \/ holderBar' = holderBar
<1>1. \A c \in Cpus : running[c] \in Contexts /\ want[running[c]] \in Locks
  BY DEF ExclusionInv, TypeOK
<1>2. ASSUME NEW c \in Cpus, CompareExchange(c)
      PROVE  Abstract!Next
  <2> DEFINE k == running[c]
             l == want[k]
  <2>1. k \in Contexts /\ l \in Locks
    BY <1>1
  <2>2. \A m \in Contexts : l \notin held[m]
    BY <1>2, <2>1 DEF CompareExchange, ExclusionInv, LockWordInv
  <2>3. held' = [held EXCEPT ![k] = @ \cup {l}]
    BY <1>2 DEF CompareExchange
  <2> HIDE DEF k, l
  <2>4. holderBar[l] = NoCpu /\ holderBar' = [holderBar EXCEPT ![l] = k]
    BY <2>1, <2>2, <2>3, EnteringAcquires
  <2> QED
    BY <2>1, <2>4 DEF Abstract!Next, Abstract!Acquire, holderBar
<1>3. ASSUME NEW c \in Cpus, NEW l \in Locks, TryAcquireSpinLock(c, l)
      PROVE  Abstract!Next
  <2> DEFINE k == running[c]
  <2>1. k \in Contexts
    BY <1>1
  <2>2. \A m \in Contexts : l \notin held[m]
    BY <1>3, <2>1 DEF TryAcquireSpinLock, ExclusionInv, LockWordInv
  <2>3. held' = [held EXCEPT ![k] = @ \cup {l}]
    BY <1>3 DEF TryAcquireSpinLock
  <2> HIDE DEF k
  <2>4. holderBar[l] = NoCpu /\ holderBar' = [holderBar EXCEPT ![l] = k]
    BY <2>1, <2>2, <2>3, EnteringAcquires
  <2> QED
    BY <2>1, <2>4 DEF Abstract!Next, Abstract!Acquire, holderBar
<1>4. ASSUME NEW c \in Cpus, Unlock(c)
      PROVE  Abstract!Next
  <2> DEFINE k == running[c]
             l == want[k]
  <2>1. k \in Contexts /\ l \in Locks
    BY <1>1
  <2>2. l \in held[k]
    BY <1>4, <2>1 DEF Unlock, ExclusionInv, LockWordInv
  <2>3. held' = [held EXCEPT ![k] = @ \ {l}]
    BY <1>4 DEF Unlock
  <2> HIDE DEF k, l
  <2>4. holderBar[l] = k /\ holderBar' = [holderBar EXCEPT ![l] = NoCpu]
    BY <2>1, <2>2, <2>3, LeavingReleases
  <2> QED
    BY <2>1, <2>4 DEF Abstract!Next, Abstract!Release, holderBar
<1>5. ASSUME NEW c \in Cpus, NEW l \in Locks,
             \/ CallAcquire(c, l) \/ MaskInterrupts(c) \/ RecordOwner(c)
             \/ CallRelease(c, l) \/ ForgetOwner(c) \/ RestoreFlags(c)
             \/ Interrupt(c) \/ Yield(c) \/ ReturnFromInterrupt(c)
      PROVE  holderBar' = holderBar
  <2>1. held' = held
    BY <1>5 DEF CallAcquire, MaskInterrupts, RecordOwner, CallRelease, ForgetOwner,
         RestoreFlags, Interrupt, Yield, EnterHandler, ReturnFromInterrupt
  <2> QED
    BY <2>1, HeldStutters
<1>6. CASE UNCHANGED vars
  BY <1>6, HeldStutters DEF vars
<1>7. PICK l \in Locks : TRUE
  BY SpinLockAssumption
<1> QED
  BY <1>2, <1>3, <1>4, <1>5, <1>6, <1>7 DEF Next, Progress

\* Spin locks implement the abstract lock: an acquisition takes effect at the
\* successful compare-exchange, a release at the store of 0, and no other
\* step of any CPU changes who holds what.
THEOREM SpinLockImplementsAbstractLock == Spec => ImplementsAbstractLock
<1>1. Init => Abstract!Init
  BY NoHolderIs DEF Init, Abstract!Init, Holder
<1>2. ExclusionInv /\ ExclusionInv' /\ [Next]_vars => [Abstract!Next]_holderBar
  BY StepRefines
<1> QED
  BY <1>1, <1>2, ExclusionInvariant, PTL DEF Spec, ImplementsAbstractLock, Abstract!Spec, holderBar

----------------------------------------------------------------------------
(* Interrupts *)

\* Where the flags of a nested call come from: interrupts were off when it
\* began, so the flags it holds, and the slot it fills, say "off".  The same
\* goes for every call of a handler.
IsHandler(k) == \E c \in Cpus : k = Handler[c]

NestedFlagsOff ==
  \A k \in Contexts \ TryThreads :
    /\ pc[k] \in {"cas", "own", "unlock", "popf"} /\ (held[k] \ {want[k]} # {} \/ IsHandler(k))
         => ~ Flags[k]
    /\ pc[k] = "popf" /\ held[k] # {} => ~ Flags[k]
    /\ pc[k] # "own" /\ ((\E l, m \in held[k] : l # m) \/ (IsHandler(k) /\ held[k] # {}))
         => ~ SavedFlags[CpuOf[k]]

MaskInv == ExclusionInv /\ HolderIsRunning /\ HandlerMasked /\ NestedFlagsOff

\* The initial state satisfies the masking invariant.
LEMMA MaskInit == Init => MaskInv
<1> SUFFICES ASSUME Init PROVE MaskInv
  OBVIOUS
<1>1. HandlerMasked
  BY DEF Init, HandlerMasked, Threads
<1> QED
  BY <1>1, ExclusionInit DEF Init, MaskInv, HolderIsRunning, NestedFlagsOff

\* An interrupt handler never uses TryAcquireSpinLock.
LEMMA HandlersDoNotTry == \A c \in Cpus : Handler[c] \in Contexts \ TryThreads
  BY SpinLockAssumption DEF Threads

\* Every step of a CPU preserves the masking invariant.
LEMMA MaskStep ==
  ASSUME MaskInv, [Next]_vars
  PROVE  MaskInv'
<1>1. ExclusionInv'
  BY ExclusionStep DEF MaskInv
<1> DEFINE Goal == HolderIsRunning' /\ HandlerMasked' /\ NestedFlagsOff'
<1>12. CASE UNCHANGED vars
  BY <1>1, <1>12 DEF vars, MaskInv, HolderIsRunning, HandlerMasked, NestedFlagsOff
<1> USE SpinLockAssumption DEF MaskInv, ExclusionInv, TypeOK, Steps, CpuInv, LockWordInv,
        HolderIsRunning, HandlerMasked, NestedFlagsOff, IsHandler
<1>2. ASSUME NEW c \in Cpus, NEW l \in Locks, CallAcquire(c, l)
      PROVE  Goal
  <2>1. HolderIsRunning'
    BY <1>2 DEF CallAcquire
  <2>2. HandlerMasked'
    BY <1>2 DEF CallAcquire
  <2>3. NestedFlagsOff'
    BY <1>2 DEF CallAcquire
  <2> QED
    BY <2>1, <2>2, <2>3
<1>3. ASSUME NEW c \in Cpus, MaskInterrupts(c)
      PROVE  Goal
  <2>1. HolderIsRunning'
    BY <1>3 DEF MaskInterrupts
  <2>2. HandlerMasked'
    BY <1>3 DEF MaskInterrupts
  <2>3. NestedFlagsOff'
    BY <1>3 DEF MaskInterrupts
  <2> QED
    BY <2>1, <2>2, <2>3
<1>4. ASSUME NEW c \in Cpus, CompareExchange(c)
      PROVE  Goal
  <2>1. HolderIsRunning'
    BY <1>4 DEF CompareExchange
  <2>2. HandlerMasked'
    BY <1>4 DEF CompareExchange
  <2>3. NestedFlagsOff'
    BY <1>4 DEF CompareExchange
  <2> QED
    BY <2>1, <2>2, <2>3
<1>5. ASSUME NEW c \in Cpus, RecordOwner(c)
      PROVE  Goal
  <2> DEFINE k == running[c]
  <2>1. /\ k \in Contexts /\ CpuOf[k] = c /\ pc[k] = "own" /\ want[k] \in held[k]
        /\ SavedFlags' = [SavedFlags EXCEPT ![c] = Flags[k]] /\ pc' = [pc EXCEPT ![k] = "idle"]
        /\ want' = [want EXCEPT ![k] = AnyLock] /\ Flags' = [Flags EXCEPT ![k] = FALSE]
        /\ UNCHANGED <<Lock, IF_, running, frame, held>>
    BY <1>5 DEF RecordOwner, Return
  <2>2. k \notin TryThreads /\ ((\E l, m \in held[k] : l # m) \/ IsHandler(k)) => ~ Flags[k]
    BY <2>1
  <2>3. \A m \in Contexts \ TryThreads :
          m # k /\ CpuOf[m] = c => held[m] = {} /\ pc[m] \in {"idle", "cli"}
    BY <2>1
  <2> HIDE DEF k
  <2>4. HolderIsRunning' /\ HandlerMasked'
    BY <2>1
  <2>5. NestedFlagsOff'
    BY <2>1, <2>2, <2>3
  <2> QED
    BY <2>4, <2>5
<1>6. ASSUME NEW c \in Cpus, NEW l \in Locks, CallRelease(c, l)
      PROVE  Goal
  <2>1. HolderIsRunning'
    BY <1>6 DEF CallRelease
  <2>2. HandlerMasked'
    BY <1>6 DEF CallRelease
  <2>3. NestedFlagsOff'
    BY <1>6 DEF CallRelease
  <2> QED
    BY <2>1, <2>2, <2>3
<1>7. ASSUME NEW c \in Cpus, ForgetOwner(c)
      PROVE  Goal
  <2> DEFINE k == running[c]
  <2>1. /\ k \in Contexts /\ CpuOf[k] = c /\ pc[k] = "disown" /\ want[k] \in held[k]
        /\ Flags' = [Flags EXCEPT ![k] = SavedFlags[c]] /\ pc' = [pc EXCEPT ![k] = "unlock"]
        /\ UNCHANGED <<Lock, SavedFlags, IF_, running, frame, want, held>>
    BY <1>7 DEF ForgetOwner
  <2> HIDE DEF k
  <2>2. k \notin TryThreads /\ (held[k] \ {want[k]} # {} \/ IsHandler(k)) => ~ SavedFlags[c]
    <3>1. /\ held[k] \ {want[k]} # {} => \E l, m \in held[k] : l # m
          /\ held[k] # {} /\ pc[k] # "own"
      <4>1. ASSUME held[k] \ {want[k]} # {} PROVE \E l, m \in held[k] : l # m
        <5>1. PICK m \in held[k] : m # want[k]
          BY <4>1
        <5> QED
          BY <2>1, <5>1
      <4> QED
        BY <2>1, <4>1
    <3>2. k \notin TryThreads /\ ((\E l, m \in held[k] : l # m) \/ (IsHandler(k) /\ held[k] # {}))
            => ~ SavedFlags[CpuOf[k]]
      BY <2>1, <3>1 DEF NestedFlagsOff
    <3> QED
      BY <2>1, <3>1, <3>2
  <2>3. HolderIsRunning' /\ HandlerMasked'
    BY <2>1
  <2>4. NestedFlagsOff'
    BY <2>1, <2>2
  <2> QED
    BY <2>3, <2>4
<1>8. ASSUME NEW c \in Cpus, Unlock(c)
      PROVE  Goal
  <2>1. HolderIsRunning'
    BY <1>8 DEF Unlock
  <2>2. HandlerMasked'
    BY <1>8 DEF Unlock
  <2>3. NestedFlagsOff'
    BY <1>8 DEF Unlock
  <2> QED
    BY <2>1, <2>2, <2>3
<1>9. ASSUME NEW c \in Cpus, RestoreFlags(c)
      PROVE  Goal
  <2> DEFINE k == running[c]
  <2>1. /\ k \in Contexts /\ CpuOf[k] = c /\ running[c] = k /\ pc[k] = "popf"
        /\ IF_' = [IF_ EXCEPT ![c] = Flags[k]] /\ pc' = [pc EXCEPT ![k] = "idle"]
        /\ want' = [want EXCEPT ![k] = AnyLock] /\ Flags' = [Flags EXCEPT ![k] = FALSE]
        /\ UNCHANGED <<Lock, LockCpuId, SavedFlags, running, frame, held>>
    BY <1>9 DEF RestoreFlags, Return
  <2>2. k \notin TryThreads /\ (held[k] # {} \/ k = Handler[c]) => ~ Flags[k]
    BY <2>1
  <2>3. k \notin TryThreads /\ ((\E l, m \in held[k] : l # m) \/ (k = Handler[c] /\ held[k] # {}))
          => ~ SavedFlags[c]
    BY <2>1
  <2> HIDE DEF k
  <2>4. HolderIsRunning'
    BY <2>1, <2>2
  <2>5. HandlerMasked'
    BY <2>1, <2>2, HandlersDoNotTry
  <2>6. NestedFlagsOff'
    BY <2>1, <2>3
  <2> QED
    BY <2>4, <2>5, <2>6
<1>10. ASSUME NEW c \in Cpus, Interrupt(c) \/ Yield(c)
       PROVE  Goal
  <2>1. EnterHandler(c) /\ running[c] \in Contexts /\ Handler[c] \in Contexts
    BY <1>10 DEF Interrupt, Yield
  <2>2. running[c] \notin TryThreads => held[running[c]] = {} /\ pc[running[c]] \in {"idle", "cli"}
    BY <1>10 DEF Interrupt, Yield
  <2>3. HolderIsRunning'
    BY <2>1, <2>2 DEF EnterHandler
  <2>4. HandlerMasked'
    BY <2>1 DEF EnterHandler
  <2>5. NestedFlagsOff'
    BY <2>1 DEF EnterHandler
  <2> QED
    BY <2>3, <2>4, <2>5
<1>11. ASSUME NEW c \in Cpus, ReturnFromInterrupt(c)
       PROVE  Goal
  <2>1. HolderIsRunning'
    BY <1>11 DEF ReturnFromInterrupt, Threads
  <2>2. HandlerMasked'
    BY <1>11 DEF ReturnFromInterrupt, Threads
  <2>3. NestedFlagsOff'
    BY <1>11 DEF ReturnFromInterrupt, Threads
  <2> QED
    BY <2>1, <2>2, <2>3
<1>13. ASSUME NEW c \in Cpus, NEW l \in Locks, TryAcquireSpinLock(c, l)
       PROVE  Goal
  <2>1. HolderIsRunning'
    BY <1>13 DEF TryAcquireSpinLock
  <2>2. HandlerMasked'
    BY <1>13 DEF TryAcquireSpinLock
  <2>3. NestedFlagsOff'
    BY <1>13 DEF TryAcquireSpinLock
  <2> QED
    BY <2>1, <2>2, <2>3
<1> QED
  BY <1>1, <1>2, <1>3, <1>4, <1>5, <1>6, <1>7, <1>8, <1>9, <1>10, <1>11, <1>12, <1>13
     DEF Next, Progress

\* The invariant that ties interrupts to locks, whatever threads beside them
\* use TryAcquireSpinLock.
THEOREM MaskInvariant == Spec => []MaskInv
<1>1. MaskInv /\ [Next]_vars => MaskInv'
  BY MaskStep
<1> QED
  BY <1>1, MaskInit, PTL DEF Spec

\* A context inside a lock, or spinning for one, is on its CPU with interrupts
\* off, at any depth of nesting and although SavedFlags has one slot per CPU.
THEOREM SpinLockHolderIsRunning == Spec => []HolderIsRunning
<1>1. MaskInv => HolderIsRunning
  BY DEF MaskInv
<1> QED
  BY <1>1, MaskInvariant, PTL

\* No release inside an interrupt handler switches interrupts on before the
\* handler returns.
THEOREM SpinLockHandlerMasked == Spec => []HandlerMasked
<1>1. MaskInv => HandlerMasked
  BY DEF MaskInv
<1> QED
  BY <1>1, MaskInvariant, PTL

----------------------------------------------------------------------------
(* Threads that take one lock at a time *)

Flat == {k \in Threads \ TryThreads : MaxNesting[k] <= 1}

\* Such a thread carries "interrupts on" from the moment it reads the flags,
\* through the CPU's slot, to the moment it restores them, and finds them in
\* its frame when it is displaced outside its locks.
FlatFlagsOn ==
  \A k \in Flat :
    /\ pc[k] \in {"cli", "cas", "popf"} => held[k] = {}
    /\ pc[k] \in {"own", "idle", "disown", "unlock"} => \A l, m \in held[k] : l = m
    /\ pc[k] \in {"cas", "own", "unlock", "popf"} => Flags[k]
    /\ held[k] # {} /\ pc[k] # "own" => SavedFlags[CpuOf[k]]
    /\ running[CpuOf[k]] = k /\ pc[k] \in {"idle", "cli"} /\ held[k] = {} => IF_[CpuOf[k]]
    /\ running[CpuOf[k]] # k => frame[k]

FlatInv == MaskInv /\ FlatFlagsOn

\* A context that holds at most one lock at a time calls AcquireSpinLock only
\* outside every lock.
LEMMA FlatCallsOutside ==
  ASSUME ExclusionInv, NEW c \in Cpus, NEW l \in Locks, CallAcquire(c, l), running[c] \in Flat
  PROVE  held[running[c]] = {}
<1> DEFINE k == running[c]
<1>1. k \in Contexts /\ held[k] \subseteq Locks
  BY DEF ExclusionInv, TypeOK
<1>2. IsFiniteSet(held[k])
  BY <1>1, SpinLockAssumption, FS_Subset
<1>3. Cardinality(held[k]) \in Nat /\ (Cardinality(held[k]) = 0 <=> held[k] = {})
  BY <1>2, FS_CardinalityType, FS_EmptySet
<1>4. Cardinality(held[k]) < MaxNesting[k] /\ MaxNesting[k] <= 1 /\ MaxNesting[k] \in Nat
  BY <1>1, SpinLockAssumption DEF CallAcquire, Flat
<1> HIDE DEF k
<1>5. Cardinality(held[k]) = 0
  BY <1>3, <1>4
<1> QED
  BY <1>3, <1>5 DEF k

\* Every step of a CPU keeps the flags of the flat threads.
LEMMA FlatStep ==
  ASSUME FlatInv, [Next]_vars
  PROVE  FlatFlagsOn'
<1> USE SpinLockAssumption, HandlersDoNotTry
    DEF FlatInv, MaskInv, ExclusionInv, TypeOK, Steps, CpuInv, LockWordInv,
        HolderIsRunning, FlatFlagsOn
<1>0. \A k \in Flat : k \in Contexts /\ k \in Threads /\ k \notin TryThreads
                    /\ CpuOf[k] \in Cpus /\ k # Handler[CpuOf[k]]
  BY DEF Flat, Threads
<1>1. ASSUME NEW c \in Cpus, NEW l \in Locks, CallAcquire(c, l)
      PROVE  FlatFlagsOn'
  <2>1. running[c] \in Flat => held[running[c]] = {}
    BY <1>1, FlatCallsOutside
  <2> QED
    BY <1>0, <1>1, <2>1 DEF CallAcquire
<1>2. ASSUME NEW c \in Cpus, MaskInterrupts(c)
      PROVE  FlatFlagsOn'
  BY <1>0, <1>2 DEF MaskInterrupts
<1>3. ASSUME NEW c \in Cpus, CompareExchange(c)
      PROVE  FlatFlagsOn'
  BY <1>0, <1>3 DEF CompareExchange
<1>4. ASSUME NEW c \in Cpus, RecordOwner(c)
      PROVE  FlatFlagsOn'
  BY <1>0, <1>4 DEF RecordOwner, Return
<1>5. ASSUME NEW c \in Cpus, NEW l \in Locks, TryAcquireSpinLock(c, l)
      PROVE  FlatFlagsOn'
  BY <1>0, <1>5 DEF TryAcquireSpinLock
<1>6. ASSUME NEW c \in Cpus, NEW l \in Locks, CallRelease(c, l)
      PROVE  FlatFlagsOn'
  BY <1>0, <1>6 DEF CallRelease
<1>7. ASSUME NEW c \in Cpus, ForgetOwner(c)
      PROVE  FlatFlagsOn'
  BY <1>0, <1>7 DEF ForgetOwner
<1>8. ASSUME NEW c \in Cpus, Unlock(c)
      PROVE  FlatFlagsOn'
  <2> DEFINE k == running[c]
  <2>1. /\ k \in Contexts /\ running[c] = k /\ pc[k] = "unlock" /\ want[k] \in held[k]
        /\ held' = [held EXCEPT ![k] = @ \ {want[k]}] /\ pc' = [pc EXCEPT ![k] = "popf"]
        /\ UNCHANGED <<SavedFlags, IF_, running, frame, Flags>>
    BY <1>8 DEF Unlock
  <2> HIDE DEF k
  <2>2. ASSUME k \in Flat PROVE held[k] \ {want[k]} = {}
    <3>1. \A l, m \in held[k] : l = m
      BY <2>1, <2>2
    <3> HIDE DEF FlatInv, FlatFlagsOn, MaskInv, ExclusionInv, TypeOK, HolderIsRunning
    <3>2. \A l \in held[k] : l = want[k]
      BY <2>1, <3>1
    <3> QED
      BY <3>2
  <2>3. held'[k] = held[k] \ {want[k]} /\ pc'[k] = "popf"
    BY <2>1
  <2>4. \A m \in Contexts : m # k => held'[m] = held[m] /\ pc'[m] = pc[m]
    BY <2>1
  <2>5. ASSUME k \in Flat PROVE Flags[k] /\ running[CpuOf[k]] = k /\ held'[k] = {}
    BY <1>0, <2>1, <2>2, <2>3, <2>5
  <2> QED
    BY <1>0, <2>1, <2>3, <2>4, <2>5
<1>9. ASSUME NEW c \in Cpus, RestoreFlags(c)
      PROVE  FlatFlagsOn'
  BY <1>0, <1>9 DEF RestoreFlags, Return
<1>10. ASSUME NEW c \in Cpus, Interrupt(c) \/ Yield(c)
       PROVE  FlatFlagsOn'
  <2>1. running[c] \in Flat => IF_[c]
    BY <1>0, <1>10 DEF Interrupt, Yield
  <2>2. running[c] \in Contexts /\ EnterHandler(c)
    BY <1>10 DEF Interrupt, Yield
  <2> QED
    BY <1>0, <2>1, <2>2 DEF EnterHandler
<1>11. ASSUME NEW c \in Cpus, ReturnFromInterrupt(c)
       PROVE  FlatFlagsOn'
  BY <1>0, <1>11 DEF ReturnFromInterrupt
<1>12. CASE UNCHANGED vars
  BY <1>12 DEF vars
<1> QED
  BY <1>1, <1>2, <1>3, <1>4, <1>5, <1>6, <1>7, <1>8, <1>9, <1>10, <1>11, <1>12
     DEF Next, Progress

\* A thread that takes one lock at a time has interrupts on whenever it is
\* outside its locks, although AcquireSpinLock keeps the flags of all contexts
\* of a CPU in one slot of SavedFlags and other threads of the CPU nest locks
\* or use TryAcquireSpinLock.
THEOREM SpinLockInterruptsRestored == Spec => []InterruptsRestored
<1>1. Init => FlatInv
  <2>1. \A k \in Flat : k \in Contexts /\ CpuOf[k] \in Cpus
    BY SpinLockAssumption DEF Flat, Threads
  <2> QED
    BY <2>1, MaskInit DEF Init, FlatInv, FlatFlagsOn
<1>2. FlatInv /\ [Next]_vars => FlatInv'
  BY FlatStep, MaskStep DEF FlatInv
<1>3. FlatInv => InterruptsRestored
  BY DEF FlatInv, FlatFlagsOn, Flat, InterruptsRestored, FlagsRestored
<1> QED
  BY <1>1, <1>2, <1>3, PTL DEF Spec

=============================================================================
