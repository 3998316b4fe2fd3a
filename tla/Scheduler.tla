----------------------------- MODULE Scheduler -----------------------------
(***************************************************************************)
(* Threads and the per-CPU scheduler: Kernel/AxeThreads/ThreadMGR.c,       *)
(* Kernel/AxeThreads/Scheduler.c and the timer interrupt that drives them  *)
(* (Kernel/Timers/TimerCtl.c).                                             *)
(*                                                                         *)
(* The queues are the intrusive lists of the code: a head per CPU and the  *)
(* Next and Prev fields of the threads, the same two fields that ThreadList*)
(* uses.  The interrupt handler of a CPU runs with interrupts masked; a    *)
(* step of it is one critical section of its SchedulerLock, so the CPUs    *)
(* interleave between those.  What a step stores outside that section      *)
(* belongs to the CPU or to the thread it has in hand: a call of another   *)
(* CPU in between leaves what it leaves just before or just after.         *)
(* `frame` is what a CPU executes when it is not in the handler: the       *)
(* interrupt frame that the handler returns to.                            *)
(*                                                                         *)
(* WakeupTime is kept as the number of ticks still to go, which is all     *)
(* that the code compares.                                                 *)
(***************************************************************************)
EXTENDS Integers, SequencesExt

CONSTANTS
  Threads,     \* the thread control blocks that KMalloc can hand out
  NumCpus,     \* Smp.CpuCount
  Priorities,  \* the priorities threads are given
  SleepTimes,  \* the arguments of ThreadSleep, in ticks
  Calls,       \* the calls the running code makes besides CreateThread and ThreadExecute
  NULL

Cpus == 0 .. NumCpus - 1

AllCalls == {"sleep", "exit", "suspend", "resume", "destroy", "priority", "affinity"}

AllPriorities == {"kernel", "super", "ultra", "high", "normal", "low", "idle"}

ASSUME SchedulerAssumption ==
  /\ IsFiniteSet(Threads)
  /\ NumCpus \in Nat \ {0}
  /\ Priorities \subseteq AllPriorities
  /\ SleepTimes \subseteq Nat
  /\ Calls \subseteq AllCalls
  /\ NULL \notin Threads

VARIABLES
  tcb,             \* the Thread structures
  sched,           \* CpuSchedulers
  ThreadList,      \* the head of the list of all threads
  CurrentThreads,  \* the per-CPU answer of GetCurrentThread
  frame,           \* per CPU, the thread whose code it executes and where in it
  pc               \* per CPU, "thread" or the next step of the timer interrupt

vars == <<tcb, sched, ThreadList, CurrentThreads, frame, pc>>

----------------------------------------------------------------------------
(* Walking the lists *)

\* The list that starts at head, cut after as many elements as there are
\* threads.
Chain(block, head) ==
  LET walk[n \in 0 .. Cardinality(Threads)] ==
        IF n = 0 THEN <<>>
        ELSE LET seen == walk[n - 1]
                 next == IF seen = <<>> THEN head ELSE block[Last(seen)].Next
             IN  IF next = NULL THEN seen ELSE Append(seen, next)
  IN  walk[Cardinality(Threads)]

\* A walk of the list never reaches its end.
Loops(block, head) ==
  LET c == Chain(block, head) IN c # <<>> /\ block[Last(c)].Next # NULL

----------------------------------------------------------------------------
(* The queue operations: functions of the kernel state k, a record of the  *)
(* threads, the schedulers, the thread list and whether a walk has hung.   *)

Kernel == [tcb |-> tcb, sched |-> sched, list |-> ThreadList, hung |-> FALSE]

\* The step ends in state k; one that walks a cyclic list never ends.
Becomes(k) ==
  /\ ~k.hung
  /\ tcb' = k.tcb
  /\ sched' = k.sched
  /\ ThreadList' = k.list

\* Append t to the ready list of CPU c.
LinkAtTail(k, c, t) ==
  LET head == k.sched[c].ReadyQueue
      tail == Last(Chain(k.tcb, head))
  IN  [k EXCEPT
        !.tcb = IF head = NULL THEN @ ELSE [@ EXCEPT ![tail].Next = t, ![t].Prev = tail],
        !.sched[c].ReadyQueue = IF head = NULL THEN t ELSE @,
        !.hung = @ \/ Loops(k.tcb, head)]

CountReady(k, c) == [k EXCEPT !.sched[c].ReadyCount = @ + 1]

\* Mutant: the thread is put in front.
AddThreadToReadyQueue_AtHead(k, c, t) ==
  [CountReady(k, c) EXCEPT
     !.tcb[t] = [@ EXCEPT !.State = "ready", !.LastCpu = c,
                          !.Next = k.sched[c].ReadyQueue, !.Prev = NULL],
     !.sched[c].ReadyQueue = t]

AddThreadToReadyQueue(k, c, t) ==
  LET cleared == [k EXCEPT !.tcb[t] = [@ EXCEPT !.State = "ready", !.LastCpu = c,
                                                !.Next = NULL, !.Prev = NULL]]
  IN  CountReady(LinkAtTail(cleared, c, t), c)

\* The head of the ready queue, not NULL here, leaves it.
RemoveThreadFromReadyQueue(k, c) ==
  LET t    == k.sched[c].ReadyQueue
      next == k.tcb[t].Next
      rest == IF next = NULL THEN k.tcb ELSE [k.tcb EXCEPT ![next].Prev = NULL]
  IN  [k EXCEPT
        !.sched[c].ReadyQueue = next,
        !.sched[c].ReadyCount = IF @ > 0 THEN @ - 1 ELSE @,
        !.tcb = [rest EXCEPT ![t].Next = NULL, ![t].Prev = NULL]]

AddThreadToWaitingQueue(k, c, t) ==
  [k EXCEPT !.tcb[t].State = "blocked",
            !.tcb[t].Next = k.sched[c].WaitingQueue,
            !.sched[c].WaitingQueue = t]

AddThreadToZombieQueue(k, c, t) ==
  [k EXCEPT !.tcb[t].State = "zombie",
            !.tcb[t].Next = k.sched[c].ZombieQueue,
            !.sched[c].ZombieQueue = t]

AddThreadToSleepingQueue(k, c, t) ==
  [k EXCEPT !.tcb[t].State = "sleeping",
            !.tcb[t].Next = k.sched[c].SleepingQueue,
            !.sched[c].SleepingQueue = t]

\* Unlink t, whose predecessor in the sleeping queue is prev.
Unlink(k, c, prev, t) ==
  IF prev = NULL
  THEN [k EXCEPT !.sched[c].SleepingQueue = k.tcb[t].Next]
  ELSE [k EXCEPT !.tcb[prev].Next = k.tcb[t].Next]

\* Mutant: a woken thread is not counted.
WakeOne_NotCounted(k, c, prev, t) ==
  LET unlinked == Unlink(k, c, prev, t)
      woken    == [unlinked EXCEPT !.tcb[t] = [@ EXCEPT !.State = "ready", !.WaitReason = "none",
                                      !.WakeupTime = 0, !.Next = NULL, !.Prev = NULL]]
  IN  LinkAtTail(woken, c, t)

\* Mutant: the thread is put on the ready queue of CPU 0, not of its own.
WakeOne_OnCpu0(k, c, prev, t) ==
  LET unlinked == Unlink(k, c, prev, t)
      woken    == [unlinked EXCEPT !.tcb[t] = [@ EXCEPT !.State = "ready", !.WaitReason = "none",
                                      !.WakeupTime = 0, !.Next = NULL, !.Prev = NULL]]
  IN  CountReady(LinkAtTail(woken, 0, t), 0)

\* A thread whose time has come moves to the ready queue.
WakeOne(k, c, prev, t) ==
  LET unlinked == Unlink(k, c, prev, t)
      woken    == [unlinked EXCEPT !.tcb[t] = [@ EXCEPT !.State = "ready", !.WaitReason = "none",
                                      !.WakeupTime = 0, !.Next = NULL, !.Prev = NULL]]
  IN  CountReady(LinkAtTail(woken, c, t), c)

\* The loop over the sleeping queue; prev is the last thread that stays.
WakeupSleepingThreads(k, c) ==
  LET head  == k.sched[c].SleepingQueue
      queue == Chain(k.tcb, head)
      turn[n \in 0 .. Len(queue)] ==
        IF n = 0 THEN [k |-> [k EXCEPT !.hung = Loops(k.tcb, head)], prev |-> NULL]
        ELSE LET acc == turn[n - 1]
                 t   == queue[n]
             IN  IF acc.k.tcb[t].WakeupTime = 0
                 THEN [acc EXCEPT !.k = WakeOne(acc.k, c, acc.prev, t)]
                 ELSE [acc EXCEPT !.prev = t]
  IN  turn[Len(queue)].k

\* Unlink t from ThreadList, with whatever its Next and Prev are, and free it.
DestroyThread(k, t) ==
  LET next   == k.tcb[t].Next
      prev   == k.tcb[t].Prev
      ended  == [k EXCEPT !.tcb[t].State = "terminated", !.tcb[t].Life = "freed"]
      before == IF prev = NULL THEN [ended EXCEPT !.list = next]
                ELSE [ended EXCEPT !.tcb[prev].Next = next]
  IN  IF next = NULL THEN before ELSE [before EXCEPT !.tcb[next].Prev = prev]

CleanupZombieThreads(k, c) ==
  LET head     == k.sched[c].ZombieQueue
      queue    == Chain(k.tcb, head)
      detached == [k EXCEPT !.sched[c].ZombieQueue = NULL,
                            !.hung = @ \/ Loops(k.tcb, head)]
      destroyed[n \in 0 .. Len(queue)] ==
        IF n = 0 THEN detached ELSE DestroyThread(destroyed[n - 1], queue[n])
  IN  destroyed[Len(queue)]

----------------------------------------------------------------------------
(* Boot *)

NoBlock ==
  [Life |-> "none", State |-> "ready", WaitReason |-> "none", WakeupTime |-> 0,
   Priority |-> "normal", Affinity |-> Cpus, Cooldown |-> 0, Next |-> NULL, Prev |-> NULL,
   LastCpu |-> NULL, Context |-> "code"]

\* InitializeThreadManager and InitializeScheduler: every CPU is in its halt
\* loop.
Init ==
  /\ tcb = [t \in Threads |-> NoBlock]
  /\ sched = [c \in Cpus |->
       [ReadyQueue |-> NULL, WaitingQueue |-> NULL, ZombieQueue |-> NULL,
        SleepingQueue |-> NULL, CurrentThread |-> NULL, ReadyCount |-> 0]]
  /\ ThreadList = NULL
  /\ CurrentThreads = [c \in Cpus |-> NULL]
  /\ frame = [c \in Cpus |-> [thread |-> NULL, at |-> "code"]]
  /\ pc = [c \in Cpus |-> "thread"]

----------------------------------------------------------------------------
(* The timer interrupt *)

Goto(c, step) == pc' = [pc EXCEPT ![c] = step]

\* The position that the interrupt frame records: where the code was, or past
\* its own int $0x20.
Resumes(at) ==
  {at} \cup (IF at = "slept" THEN {"code"} ELSE {})
       \cup (IF at = "exited" THEN {"dead"} ELSE {})

\* SystemTicks advances: every pending WakeupTime is one tick nearer.
Tick == [t \in Threads |-> [tcb[t] EXCEPT !.WakeupTime = IF @ > 0 THEN @ - 1 ELSE 0]]

\* The timer fires, or the running code executes int $0x20.
TimerInterrupt(c) ==
  /\ pc[c] = "thread"
  /\ tcb' = Tick
  /\ \E at \in Resumes(frame[c].at) : frame' = [frame EXCEPT ![c].at = at]
  /\ Goto(c, "wake")
  /\ UNCHANGED <<sched, ThreadList, CurrentThreads>>

\* TimerHandler wakes the sleepers before it calls Schedule.
TimerHandler(c) ==
  /\ pc[c] = "wake"
  /\ Becomes(WakeupSleepingThreads(Kernel, c))
  /\ Goto(c, "save")
  /\ UNCHANGED <<CurrentThreads, frame>>

\* The queue of the interrupted thread, by its state.
Requeue(k, c, t) ==
  CASE k.tcb[t].State = "terminated" -> AddThreadToZombieQueue(k, c, t)
    [] k.tcb[t].State = "blocked"    -> AddThreadToWaitingQueue(k, c, t)
    [] k.tcb[t].State = "sleeping"   -> AddThreadToSleepingQueue(k, c, t)
    [] OTHER                         -> AddThreadToReadyQueue(k, c, t)

\* Mutant: the context is saved only of a thread that is still running.
SaveCurrent_IfRunning(c) ==
  LET t     == sched[c].CurrentThread
      saved == [Kernel EXCEPT !.tcb[t].Context = IF tcb[t].State = "running" THEN frame[c].at ELSE @]
  IN  /\ pc[c] = "save"
      /\ Becomes(IF t = NULL THEN Kernel ELSE Requeue(saved, c, t))
      /\ Goto(c, "again")
      /\ UNCHANGED <<CurrentThreads, frame>>

\* Schedule, up to SelectAgain: the context of the current thread is saved and
\* the thread is queued.
SaveCurrent(c) ==
  LET t     == sched[c].CurrentThread
      saved == [Kernel EXCEPT !.tcb[t].Context = frame[c].at]
  IN  /\ pc[c] = "save"
      /\ Becomes(IF t = NULL THEN Kernel ELSE Requeue(saved, c, t))
      /\ Goto(c, "again")
      /\ UNCHANGED <<CurrentThreads, frame>>

\* SelectAgain: sleepers are woken once more.
SelectAgain(c) ==
  /\ pc[c] = "again"
  /\ Becomes(WakeupSleepingThreads(Kernel, c))
  /\ Goto(c, "cleanup")
  /\ UNCHANGED <<CurrentThreads, frame>>

\* The zombies are taken off their queue and destroyed.
CleanUp(c) ==
  /\ pc[c] = "cleanup"
  /\ Becomes(CleanupZombieThreads(Kernel, c))
  /\ Goto(c, "select")
  /\ UNCHANGED <<CurrentThreads, frame>>

\* No thread is ready: the handler returns to the frame it interrupted.
Idle(c) ==
  /\ pc[c] = "select"
  /\ sched[c].ReadyQueue = NULL
  /\ sched' = [sched EXCEPT ![c].CurrentThread = NULL]
  /\ Goto(c, "thread")
  /\ UNCHANGED <<tcb, ThreadList, CurrentThreads, frame>>

Stride(priority) ==
  CASE priority = "kernel" -> 1
    [] priority = "super"  -> 2
    [] priority = "ultra"  -> 4
    [] priority = "high"   -> 8
    [] priority = "low"    -> 32
    [] priority = "idle"   -> 64
    [] OTHER               -> 16

\* Mutant: the cooldown is not counted down.
CoolDown_Forever(c) ==
  LET t == sched[c].ReadyQueue
  IN  /\ pc[c] = "select"
      /\ t # NULL /\ tcb[t].Cooldown > 0
      /\ Becomes(AddThreadToReadyQueue(RemoveThreadFromReadyQueue(Kernel, c), c, t))
      /\ Goto(c, "again")
      /\ UNCHANGED <<CurrentThreads, frame>>

\* The head of the ready queue is cooling down: it goes to the tail, and the
\* selection starts again.
CoolDown(c) ==
  LET t       == sched[c].ReadyQueue
      removed == RemoveThreadFromReadyQueue(Kernel, c)
      cooled  == [removed EXCEPT !.tcb[t].Cooldown = @ - 1]
  IN  /\ pc[c] = "select"
      /\ t # NULL /\ tcb[t].Cooldown > 0
      /\ Becomes(AddThreadToReadyQueue(cooled, c, t))
      /\ Goto(c, "again")
      /\ UNCHANGED <<CurrentThreads, frame>>

\* t is the current thread of CPU c, with its cooldown reset.
Started(k, c, t) ==
  [k EXCEPT !.tcb[t] = [@ EXCEPT !.Cooldown = Stride(k.tcb[t].Priority) - 1,
                                 !.State = "running", !.LastCpu = c],
            !.sched[c].CurrentThread = t]

LoadContext(c, t) == frame' = [frame EXCEPT ![c] = [thread |-> t, at |-> tcb[t].Context]]

SetCurrentThread(c, t) == CurrentThreads' = [CurrentThreads EXCEPT ![c] = t]

\* Mutant: the thread stays in the ready queue.
Run_NotRemoved(c) ==
  LET t == sched[c].ReadyQueue
  IN  /\ pc[c] = "select"
      /\ t # NULL /\ tcb[t].Cooldown = 0
      /\ Becomes(Started(Kernel, c, t))
      /\ LoadContext(c, t)
      /\ SetCurrentThread(c, t)
      /\ Goto(c, "thread")

\* The head of the ready queue runs: its context becomes the interrupt frame.
Run(c) ==
  LET t == sched[c].ReadyQueue
  IN  /\ pc[c] = "select"
      /\ t # NULL /\ tcb[t].Cooldown = 0
      /\ Becomes(Started(RemoveThreadFromReadyQueue(Kernel, c), c, t))
      /\ LoadContext(c, t)
      /\ SetCurrentThread(c, t)
      /\ Goto(c, "thread")

----------------------------------------------------------------------------
(* The calls that the code running on CPU c makes *)

InThread(c) == pc[c] = "thread"

SetThread(t, block) ==
  /\ tcb' = [tcb EXCEPT ![t] = block]
  /\ UNCHANGED <<sched, ThreadList, CurrentThreads, frame, pc>>

\* CreateThread up to the store of the list head, which no lock protects.
CreateThread(c, t, priority) ==
  LET fresh == [tcb EXCEPT ![t] = [NoBlock EXCEPT !.Life = "linking", !.Priority = priority,
                                                  !.Next = ThreadList]]
  IN  /\ InThread(c)
      /\ tcb[t].Life = "none"
      /\ tcb' = IF ThreadList = NULL THEN fresh ELSE [fresh EXCEPT ![ThreadList].Prev = t]
      /\ UNCHANGED <<sched, ThreadList, CurrentThreads, frame, pc>>

LinkThread(c, t) ==
  /\ InThread(c)
  /\ tcb[t].Life = "linking"
  /\ tcb' = [tcb EXCEPT ![t].Life = "made"]
  /\ ThreadList' = t
  /\ UNCHANGED <<sched, CurrentThreads, frame, pc>>

\* The first CPU of the affinity with the fewest ready threads; CPU 0 if the
\* mask names no CPU.
CalculateOptimalCpu(t) ==
  LET Load(c) == sched[c].ReadyCount
      allowed == tcb[t].Affinity
  IN  IF allowed = {} THEN 0
      ELSE CHOOSE c \in allowed :
             \A d \in allowed : Load(c) < Load(d) \/ (Load(c) = Load(d) /\ c <= d)

\* ThreadExecute chooses the CPU, then enqueues the thread there.
PlaceThread(c, t) ==
  /\ InThread(c)
  /\ tcb[t].Life = "made"
  /\ SetThread(t, [tcb[t] EXCEPT !.Life = "placed", !.LastCpu = CalculateOptimalCpu(t),
                                 !.State = "ready"])

ThreadExecute(c, t) ==
  /\ InThread(c)
  /\ tcb[t].Life = "placed"
  /\ Becomes([AddThreadToReadyQueue(Kernel, tcb[t].LastCpu, t) EXCEPT !.tcb[t].Life = "live"])
  /\ UNCHANGED <<CurrentThreads, frame, pc>>

\* The code of the thread that GetCurrentThread names goes from one position
\* to the next and leaves k behind.
CodeStep(c, from, to, k) ==
  /\ InThread(c)
  /\ CurrentThreads[c] # NULL
  /\ frame[c].at = from
  /\ frame' = [frame EXCEPT ![c].at = to]
  /\ Becomes(k)
  /\ UNCHANGED <<CurrentThreads, pc>>

\* ThreadSleep: the state is stored first, the time to wake up after it; the
\* int $0x20 is a TimerInterrupt at "slept".
ThreadSleep(c) ==
  /\ "sleep" \in Calls
  /\ CodeStep(c, "code", "sleep", [Kernel EXCEPT !.tcb[CurrentThreads[c]].State = "sleeping"])

SetWakeupTime(c) ==
  \E ticks \in SleepTimes :
    CodeStep(c, "sleep", "slept",
      [Kernel EXCEPT !.tcb[CurrentThreads[c]] = [@ EXCEPT !.WaitReason = "sleep", !.WakeupTime = ticks]])

\* ThreadExit: the state is stored first, then the thread is queued; the
\* int $0x20 is a TimerInterrupt at "exited".
ThreadExit(c) ==
  /\ "exit" \in Calls
  /\ CodeStep(c, "code", "exit", [Kernel EXCEPT !.tcb[CurrentThreads[c]].State = "zombie"])

ExitEnqueues(c) ==
  CodeStep(c, "exit", "exited", AddThreadToZombieQueue(Kernel, c, CurrentThreads[c]))

\* DestroyThread on the error paths of process creation: the thread has never
\* been executed.
DestroyUnused(c, t) ==
  /\ "destroy" \in Calls
  /\ InThread(c)
  /\ tcb[t].Life = "made"
  /\ Becomes([DestroyThread(Kernel, t) EXCEPT !.tcb[t].Life = "discarded"])
  /\ UNCHANGED <<CurrentThreads, frame, pc>>

Known(t) == tcb[t].Life \in {"made", "placed", "live"}

SuspendThread(c, t) ==
  /\ "suspend" \in Calls
  /\ InThread(c) /\ Known(t)
  /\ tcb[t].State \in {"running", "ready"}
  /\ SetThread(t, [tcb[t] EXCEPT !.State = "blocked", !.WaitReason = "none"])

ResumeThread(c, t) ==
  /\ "resume" \in Calls
  /\ InThread(c) /\ Known(t)
  /\ tcb[t].State = "blocked" /\ tcb[t].WaitReason = "none"
  /\ SetThread(t, [tcb[t] EXCEPT !.State = "ready"])

SetThreadPriority(c, t) ==
  /\ "priority" \in Calls
  /\ InThread(c) /\ Known(t)
  /\ \E p \in Priorities : SetThread(t, [tcb[t] EXCEPT !.Priority = p])

SetThreadAffinity(c, t) ==
  /\ "affinity" \in Calls
  /\ InThread(c) /\ Known(t)
  /\ \E mask \in SUBSET Cpus : SetThread(t, [tcb[t] EXCEPT !.Affinity = mask])

----------------------------------------------------------------------------

Handler(c) ==
  \/ TimerHandler(c) \/ SaveCurrent(c) \/ SelectAgain(c) \/ CleanUp(c)
  \/ Idle(c) \/ CoolDown(c) \/ Run(c)

Code(c) ==
  \/ ThreadSleep(c) \/ SetWakeupTime(c)
  \/ ThreadExit(c) \/ ExitEnqueues(c)
  \/ \E t \in Threads :
       \/ \E p \in Priorities : CreateThread(c, t, p)
       \/ LinkThread(c, t) \/ PlaceThread(c, t) \/ ThreadExecute(c, t)
       \/ DestroyUnused(c, t) \/ SuspendThread(c, t) \/ ResumeThread(c, t)
       \/ SetThreadPriority(c, t) \/ SetThreadAffinity(c, t)

Next == \E c \in Cpus : TimerInterrupt(c) \/ Handler(c) \/ Code(c)

Spec == Init /\ [][Next]_vars

\* The APIC timer is periodic and a handler runs to its end, so every CPU takes
\* steps of the handler for ever; those are the steps that change its pc.  It
\* is weak fairness of TimerInterrupt(c) \/ Handler(c), one of which is always
\* enabled as long as no list is cyclic.
Fairness == \A c \in Cpus : []<><<pc'[c] # pc[c]>>_vars

FairSpec == Spec /\ Fairness

----------------------------------------------------------------------------
(* Properties *)

Ready(c) == Chain(tcb, sched[c].ReadyQueue)
Waiting(c) == Chain(tcb, sched[c].WaitingQueue)
Sleeping(c) == Chain(tcb, sched[c].SleepingQueue)

\* The places of the scheduler that hold a thread: positions in the queues
\* and, until the handler has queued the thread it interrupted, CurrentThread.
Places(t) ==
  UNION {({c} \X {"ready"} \X {i \in DOMAIN Ready(c) : Ready(c)[i] = t})
         \cup ({c} \X {"waiting"} \X {i \in DOMAIN Waiting(c) : Waiting(c)[i] = t})
         \cup ({c} \X {"sleeping"} \X {i \in DOMAIN Sleeping(c) : Sleeping(c)[i] = t})
         \cup (IF sched[c].CurrentThread = t /\ pc[c] \in {"thread", "wake", "save"}
               THEN {<<c, "current", 1>>} ELSE {})
         : c \in Cpus}

\* A thread that has been executed is in exactly one place: it never drops out
\* of the lists when a queue is relinked (it would never run again), and it is
\* never queued twice (two CPUs could run it on one stack).
OnePlacePerThread ==
  \A t \in Threads : tcb[t].Life = "live" => Cardinality(Places(t)) = 1

\* ReadyCount, which ThreadExecute balances the load by, is the length of the
\* ready queue whichever of the interrupt, the wake-ups and other CPUs'
\* ThreadExecute changed it.
ReadyCountIsLength ==
  \A c \in Cpus : sched[c].ReadyCount = Len(Ready(c))

\* An exiting thread is queued again and freed while it is queued, so a freed
\* thread is resumed.  Then it executes only what follows its ThreadExit: the
\* clean-up frees no thread that still has code to run, and never is a thread
\* resumed from a context that is older than its exit.  Discarding a thread
\* that was created but not executed (DestroyUnused) unlinks by stale links, and
\* nothing is said after it.
FreedOnlyHalts ==
  (\E t \in Threads : tcb[t].Life = "discarded") \/
  \A c \in Cpus : pc[c] = "thread" /\ frame[c].thread # NULL /\ tcb[frame[c].thread].Life = "freed"
                    => frame[c].at \in {"exited", "dead"}

Executing(t) == \E c \in Cpus : pc[c] = "thread" /\ frame[c].thread = t

\* No two CPUs execute one thread.
OneCpuPerThread ==
  \A c, d \in Cpus :
    pc[c] = "thread" /\ pc[d] = "thread" /\ frame[c].thread = frame[d].thread
      => c = d \/ frame[c].thread = NULL

\* A thread in a ready or sleeping queue runs again, whatever the priorities:
\* the cooldowns of the stride scheduler starve nobody.
QueuedThreadRuns ==
  \A t \in Threads :
    (\E c \in Cpus : t \in Range(Ready(c)) \cup Range(Sleeping(c))) ~> Executing(t)

\* The handler returns: the SelectAgain loop ends even when every ready thread
\* is cooling down.
HandlerReturns == \A c \in Cpus : (pc[c] # "thread") ~> (pc[c] = "thread")

=============================================================================
