-------------------------- MODULE SchedulerProofs --------------------------
(***************************************************************************)
(* Where the threads are, for any number of CPUs and threads.              *)
(*                                                                         *)
(* The queues of the code are links in the threads.  HasQueues says which  *)
(* sequences the links spell: no thread is in two of them and ReadyCount   *)
(* counts one.  Each operation on the links is then shown to be one on the *)
(* sequences, the loop of WakeupSleepingThreads by induction on the        *)
(* sleepers it has passed; Homes says which CPU each thread belongs to, in *)
(* a queue or as the thread that the CPU holds.  ThreadExit and            *)
(* DestroyThread break the links (a thread is put in a queue while it is   *)
(* in another one, or unlinked with fields that a queue uses), so what the *)
(* queues promise is stated for runs without these calls.                  *)
(***************************************************************************)
EXTENDS Scheduler, FiniteSetTheorems, SequenceTheorems, WellFoundedInduction, TLAPS

\* The frame of every CPU belongs to the thread that CurrentThreads names, in
\* the handler too: Schedule replaces both or neither, even when a list has
\* been corrupted.
FrameInv ==
  /\ CurrentThreads = [c \in Cpus |-> CurrentThreads[c]]
  /\ frame = [c \in Cpus |-> [thread |-> CurrentThreads[c], at |-> frame[c].at]]

\* A step that moves the code of one CPU keeps the frames in order.
LEMMA MovingKeepsFrames ==
  ASSUME FrameInv, NEW d \in Cpus, NEW position,
         frame' = [frame EXCEPT ![d].at = position],
         UNCHANGED CurrentThreads
  PROVE  FrameInv'
<1>1. frame' = [frame EXCEPT ![d] = [thread |-> CurrentThreads[d], at |-> position]]
  <2>1. frame[d] = [thread |-> CurrentThreads[d], at |-> frame[d].at]
    BY DEF FrameInv
  <2>2. [[thread |-> CurrentThreads[d], at |-> frame[d].at] EXCEPT !.at = position]
          = [thread |-> CurrentThreads[d], at |-> position]
    OBVIOUS
  <2>3. [frame[d] EXCEPT !.at = position] = [thread |-> CurrentThreads[d], at |-> position]
    BY <2>1, <2>2
  <2>4. frame' = [frame EXCEPT ![d] = [frame[d] EXCEPT !.at = position]]
    OBVIOUS
  <2> QED BY <2>3, <2>4
<1>2. frame'[d] = [thread |-> CurrentThreads[d], at |-> position]
  BY <1>1 DEF FrameInv
<1>3. \A c \in Cpus : frame'[c] = [thread |-> CurrentThreads'[c], at |-> frame'[c].at]
  <2> SUFFICES ASSUME NEW c \in Cpus
               PROVE  frame'[c] = [thread |-> CurrentThreads[c], at |-> frame'[c].at]
    OBVIOUS
  <2>1. CASE c = d
    BY <2>1, <1>2
  <2>2. CASE c # d
    <3>1. frame'[c] = frame[c]
      BY <1>1, <2>2 DEF FrameInv
    <3>2. frame[c] = [thread |-> CurrentThreads[c], at |-> frame[c].at]
      BY DEF FrameInv
    <3> QED BY <3>1, <3>2
  <2> QED BY <2>1, <2>2
<1>4. frame' = [c \in Cpus |-> frame'[c]]
  BY <1>1 DEF FrameInv
<1>5. frame' = [c \in Cpus |-> [thread |-> CurrentThreads'[c], at |-> frame'[c].at]]
  BY <1>3, <1>4
<1>6. CurrentThreads' = [c \in Cpus |-> CurrentThreads'[c]]
  BY DEF FrameInv
<1> QED BY <1>5, <1>6 DEF FrameInv

\* A step that starts a thread keeps the frames in order.
LEMMA RunningKeepsFrames ==
  ASSUME FrameInv, NEW d \in Cpus, Run(d)
  PROVE  FrameInv'
<1> DEFINE t == sched[d].ReadyQueue
<1>1. /\ frame' = [frame EXCEPT ![d] = [thread |-> t, at |-> tcb[t].Context]]
      /\ CurrentThreads' = [CurrentThreads EXCEPT ![d] = t]
  BY DEF Run, LoadContext, SetCurrentThread
<1> HIDE DEF t
<1>2. \A c \in Cpus : frame'[c] = [thread |-> CurrentThreads'[c], at |-> frame'[c].at]
  <2> SUFFICES ASSUME NEW c \in Cpus
               PROVE  frame'[c] = [thread |-> CurrentThreads'[c], at |-> frame'[c].at]
    OBVIOUS
  <2>1. CASE c = d
    <3>1. frame'[c] = [thread |-> t, at |-> tcb[t].Context] /\ CurrentThreads'[c] = t
      BY <1>1, <2>1 DEF FrameInv
    <3> QED BY <3>1
  <2>2. CASE c # d
    <3>1. frame'[c] = frame[c] /\ CurrentThreads'[c] = CurrentThreads[c]
      BY <1>1, <2>2 DEF FrameInv
    <3>2. frame[c] = [thread |-> CurrentThreads[c], at |-> frame[c].at]
      BY DEF FrameInv
    <3> QED BY <3>1, <3>2
  <2> QED BY <2>1, <2>2
<1>3. frame' = [c \in Cpus |-> frame'[c]]
  BY <1>1 DEF FrameInv
<1>4. frame' = [c \in Cpus |-> [thread |-> CurrentThreads'[c], at |-> frame'[c].at]]
  BY <1>2, <1>3
<1>5. CurrentThreads' = [c \in Cpus |-> CurrentThreads'[c]]
  BY <1>1 DEF FrameInv
<1> QED BY <1>4, <1>5 DEF FrameInv

\* Every step of a CPU keeps the frames in order.
LEMMA StepKeepsFrames ==
  ASSUME FrameInv, [Next]_vars
  PROVE  FrameInv'
<1>1. CASE UNCHANGED vars
  BY <1>1 DEF FrameInv, vars
<1>2. CASE Next
  <2> PICK d \in Cpus : TimerInterrupt(d) \/ Handler(d) \/ Code(d)
    BY <1>2 DEF Next
  <2>1. CASE TimerInterrupt(d)
    BY <2>1, MovingKeepsFrames DEF TimerInterrupt
  <2>2. CASE Run(d)
    BY <2>2, RunningKeepsFrames
  <2>3. CASE \/ TimerHandler(d) \/ SaveCurrent(d) \/ SelectAgain(d) \/ CleanUp(d)
             \/ Idle(d) \/ CoolDown(d)
    BY <2>3 DEF TimerHandler, SaveCurrent, SelectAgain, CleanUp, Idle, CoolDown, FrameInv
  <2>4. CASE \/ ThreadSleep(d) \/ SetWakeupTime(d) \/ ThreadExit(d) \/ ExitEnqueues(d)
    BY <2>4, MovingKeepsFrames
       DEF ThreadSleep, SetWakeupTime, ThreadExit, ExitEnqueues, CodeStep
  <2>5. ASSUME NEW t \in Threads,
               \/ \E p \in Priorities : CreateThread(d, t, p)
               \/ LinkThread(d, t) \/ PlaceThread(d, t) \/ ThreadExecute(d, t)
               \/ DestroyUnused(d, t) \/ SuspendThread(d, t) \/ ResumeThread(d, t)
               \/ SetThreadPriority(d, t) \/ SetThreadAffinity(d, t)
        PROVE  FrameInv'
    BY <2>5 DEF CreateThread, LinkThread, PlaceThread, ThreadExecute, DestroyUnused,
                SuspendThread, ResumeThread, SetThreadPriority, SetThreadAffinity,
                SetThread, FrameInv
  <2> QED BY <2>1, <2>2, <2>3, <2>4, <2>5 DEF Handler, Code
<1> QED BY <1>1, <1>2

-----------------------------------------------------------------------------
(* Numbers and recursive functions *)

\* A set of naturals has a least element.
LEMMA LeastNat ==
    ASSUME NEW T \in SUBSET Nat, T # {}
    PROVE  \E x \in T : \A y \in T : x <= y
<1> DEFINE less == {ss \in Nat \X Nat : ss[1] < ss[2]}
<1>1. OpToRel(<, Nat) = less
  BY Zenon DEF OpToRel
<1>2. IsWellFoundedOn(less, Nat)
  BY <1>1, NatLessThanWellFounded, Zenon
<1> HIDE DEF less
<1>3. PICK x \in T : \A y \in T : ~ (<<y, x>> \in less)
  BY <1>2, WFMin, Zenon
<1>4. ASSUME NEW y \in T PROVE x <= y
  <2>1. <<y, x>> \in Nat \X Nat /\ <<y, x>>[1] = y /\ <<y, x>>[2] = x
    OBVIOUS
  <2>2. ~(<<y, x>>[1] < <<y, x>>[2])
    BY <1>3, <2>1, Zenon DEF less
  <2>3. ~(y < x)
    BY <2>1, <2>2
  <2> QED
    BY <2>3
<1> QED
  BY <1>4

\* Induction, for a set of naturals.
LEMMA Induction ==
    ASSUME NEW T, 0 \in T, \A n \in Nat : n \in T => n + 1 \in T
    PROVE  \A n \in Nat : n \in T
<1> SUFFICES ASSUME Nat \ T # {} PROVE FALSE
  OBVIOUS
<1>1. PICK x \in Nat \ T : \A y \in Nat \ T : x <= y
  BY LeastNat
<1>2. x # 0 /\ x - 1 \in Nat /\ x - 1 \in T
  BY <1>1
<1> QED
  BY <1>1, <1>2

\* A function on 0 .. n that starts with a and goes on as step says.
Iterates(f, n, a, step) == f[0] = a /\ \A k \in 1 .. n : f[k] = step[<<k, f[k - 1]>>]
Iterations(n, S, a, step) == {f \in [0 .. n -> S] : Iterates(f, n, a, step)}

\* A step that stays in S has iterations of every length.
LEMMA Recursion ==
    ASSUME NEW S, NEW a \in S, NEW step, step \in [Nat \X S -> S], NEW n \in Nat
    PROVE  Iterations(n, S, a, step) # {}
<1> DEFINE Q(f, m) == f[0] = a /\ \A k \in 1 .. m : f[k] = step[<<k, f[k - 1]>>]
           T == {m \in Nat : \E f \in [0 .. m -> S] : Q(f, m)}
<1>1. 0 \in T
  <2> DEFINE f == [k \in 0 .. 0 |-> a]
  <2>1. f \in [0 .. 0 -> S] /\ Q(f, 0)
    OBVIOUS
  <2> QED
    BY <2>1
<1>2. ASSUME NEW m \in Nat, m \in T PROVE m + 1 \in T
  <2>1. PICK f \in [0 .. m -> S] : Q(f, m)
    BY <1>2
  <2> DEFINE g == [k \in 0 .. m + 1 |-> IF k = m + 1 THEN step[<<m + 1, f[m]>>] ELSE f[k]]
  <2>2. \A k \in 0 .. m : f[k] \in S /\ g[k] = f[k]
    OBVIOUS
  <2>3. g[m + 1] = step[<<m + 1, f[m]>>] /\ g[m + 1] \in S
    <3>1. m \in 0 .. m /\ m + 1 \in Nat /\ m + 1 \in 0 .. m + 1
      OBVIOUS
    <3> QED
      BY <2>2, <3>1
  <2>4. \A k \in 0 .. m + 1 : k \in 0 .. m \/ k = m + 1
    OBVIOUS
  <2>5. g \in [0 .. m + 1 -> S]
    <3>1. \A k \in 0 .. m + 1 : g[k] \in S
      BY <2>2, <2>3, <2>4
    <3>2. g = [k \in 0 .. m + 1 |-> g[k]]
      OBVIOUS
    <3> HIDE DEF g
    <3> QED
      BY <3>1, <3>2
  <2> HIDE DEF g
  <2>6. \A k \in 1 .. m : k \in 0 .. m /\ k - 1 \in 0 .. m
    OBVIOUS
  <2>7. g[0] = a
    BY <2>1, <2>2
  <2>8. ASSUME NEW k \in 1 .. m + 1 PROVE g[k] = step[<<k, g[k - 1]>>]
    <3>1. CASE k = m + 1
      <4>1. k - 1 = m /\ m \in 0 .. m
        BY <3>1
      <4> QED
        BY <2>2, <2>3, <3>1, <4>1
    <3>2. CASE k # m + 1
      <4>1. k \in 1 .. m
        BY <3>2
      <4> QED
        BY <2>1, <2>2, <2>6, <4>1
    <3> QED
      BY <3>1, <3>2
  <2> QED
    BY <2>5, <2>7, <2>8
<1> HIDE DEF T
<1>3. \A m \in Nat : m \in T
  BY <1>1, <1>2, Induction
<1> QED
  BY <1>3 DEF T, Iterations, Iterates

-----------------------------------------------------------------------------
(* The queues, when no call exits or destroys a thread *)

\* Where a thread waits for a CPU.
Kinds == {"ready", "waiting", "sleeping"}
Queues == Cpus \X Kinds
Links == Threads \cup {NULL}
Positions == {"code", "sleep", "slept"}

Blocks ==
  [Life : {"none", "linking", "made", "placed", "live"},
   State : {"ready", "running", "blocked", "sleeping"},
   WaitReason : {"none", "sleep"}, WakeupTime : Nat,
   Priority : AllPriorities, Affinity : SUBSET Cpus, Cooldown : Nat,
   Next : Links, Prev : Links, LastCpu : Cpus \cup {NULL}, Context : Positions]

Scheds ==
  [ReadyQueue : Links, WaitingQueue : Links, ZombieQueue : {NULL},
   SleepingQueue : Links, CurrentThread : Links, ReadyCount : Nat]

Kernels == [tcb : [Threads -> Blocks], sched : [Cpus -> Scheds], list : Links, hung : {FALSE}]

Nexts(k) == [t \in Threads |-> k.tcb[t].Next]

HeadsOf(scheduler) ==
  [ready |-> scheduler.ReadyQueue, waiting |-> scheduler.WaitingQueue,
   sleeping |-> scheduler.SleepingQueue]

Heads(k) == [x \in Queues |-> HeadsOf(k.sched[x[1]])[x[2]]]

\* The list from head spells the sequence s.
Linked(nx, head, s) ==
  /\ head = IF s = << >> THEN NULL ELSE s[1]
  /\ \A i \in 1 .. Len(s) : nx[s[i]] = IF i < Len(s) THEN s[i + 1] ELSE NULL

\* No thread is in two of the queues, or twice in one.
Apart(q) ==
  \A x, y \in Queues : \A i \in 1 .. Len(q[x]), j \in 1 .. Len(q[y]) :
    q[x][i] = q[y][j] => x = y /\ i = j

Spells(nx, heads, q) ==
  /\ nx \in [Threads -> Links] /\ heads \in [Queues -> Links]
  /\ q \in [Queues -> Seq(Threads)]
  /\ \A x \in Queues : Linked(nx, heads[x], q[x])
  /\ Apart(q)

\* The state k has the queues q, correctly linked and counted.
HasQueues(k, q) ==
  /\ k \in Kernels
  /\ Spells(Nexts(k), Heads(k), q)
  /\ \A c \in Cpus : k.sched[c].ReadyCount = Len(q[<<c, "ready">>])

\* The threads queued on CPU c.
On(q, c) == {t \in Threads : \E x \in Queues : x[1] = c /\ \E i \in 1 .. Len(q[x]) : q[x][i] = t}

LivesOn(k, t, c) == t \in Threads /\ k.tcb[t].Life = "live" /\ k.tcb[t].LastCpu = c

\* A thread that has been executed stays on one CPU c, in its queues or as
\* held[c].
Homes(k, held, q) ==
  /\ \A c \in Cpus : \A t \in On(q, c) : LivesOn(k, t, c)
  /\ \A c \in Cpus : held[c] # NULL => LivesOn(k, held[c], c) /\ held[c] \notin On(q, c)
  /\ \A t \in Threads : k.tcb[t].Life = "live" => \E c \in Cpus : t \in On(q, c) \/ t = held[c]
  /\ \A t \in Threads : k.tcb[t].Life = "placed" => k.tcb[t].LastCpu \in Cpus

\* The code a CPU executes, threads[c], belongs to a thread of that CPU.
Owned(k, threads) == \A c \in Cpus : threads[c] # NULL => LivesOn(k, threads[c], c)

Lists(k) == [x \in Queues |-> Chain(k.tcb, Heads(k)[x])]

\* The thread that a CPU has not queued yet.
HeldSteps == {"thread", "wake", "save"}
Held == [c \in Cpus |-> IF pc[c] \in HeldSteps THEN sched[c].CurrentThread ELSE NULL]

CpuTypes ==
  /\ \A c \in Cpus : frame[c].at \in Positions
  /\ pc \in [Cpus -> HeldSteps \cup {"again", "cleanup", "select"}]
  /\ CurrentThreads \in [Cpus -> Links]

\* The queues of the scheduler, their counts, where each thread is, and whose
\* code the CPUs execute.
QueueInv ==
  /\ FrameInv /\ CpuTypes
  /\ HasQueues(Kernel, Lists(Kernel))
  /\ Homes(Kernel, Held, Lists(Kernel))
  /\ Owned(Kernel, CurrentThreads)

-----------------------------------------------------------------------------
(* Following links *)

\* A sequence of different threads is no longer than there are threads.
LEMMA FewThreads ==
    ASSUME NEW s \in Seq(Threads), \A i, j \in 1 .. Len(s) : s[i] = s[j] => i = j
    PROVE  Len(s) <= Cardinality(Threads) /\ Cardinality(Threads) \in Nat
<1>1. s \in Injection(1 .. Len(s), Threads)
  BY DEF Injection, IsInjective
<1>2. IsFiniteSet(Threads) /\ Cardinality(1 .. Len(s)) = Len(s)
  BY SchedulerAssumption, FS_Interval
<1> QED
  BY <1>1, <1>2, FS_Injection, FS_CardinalityType

\* Following the links from head gives the sequence that they spell, and the
\* walk ends.
LEMMA ChainIs ==
    ASSUME NEW block, NEW head, NEW nx, \A t \in Threads : nx[t] = block[t].Next,
           NEW s \in Seq(Threads), \A i, j \in 1 .. Len(s) : s[i] = s[j] => i = j,
           Linked(nx, head, s)
    PROVE  Chain(block, head) = s /\ ~Loops(block, head)
<1> DEFINE N == Cardinality(Threads)
           Turn(seen) ==
             LET next == IF seen = <<>> THEN head ELSE block[Last(seen)].Next
             IN  IF next = NULL THEN seen ELSE Append(seen, next)
           Prefix(n) == IF n <= Len(s) THEN SubSeq(s, 1, n) ELSE s
           P(f) == f = [n \in 0 .. N |-> IF n = 0 THEN <<>> ELSE Turn(f[n - 1])]
           walk == CHOOSE f : P(f)
<1>1. N \in Nat /\ Len(s) \in Nat /\ Len(s) <= N
  BY FewThreads
<1>2. NULL \notin Threads /\ \A i \in 1 .. Len(s) : s[i] \in Threads
  BY SchedulerAssumption
<1>3. ASSUME NEW n \in 1 .. N PROVE Turn(Prefix(n - 1)) = Prefix(n)
  <2>1. CASE n <= Len(s)
    <3> DEFINE p == Prefix(n - 1)
    <3>1. p \in Seq(Threads) /\ Len(p) = n - 1 /\ \A i \in 1 .. n - 1 : p[i] = s[i]
      BY <1>1, <2>1
    <3>2. Turn(p) = Append(p, s[n])
      <4>1. CASE n = 1
        <5>1. p = <<>>
          BY <3>1, <4>1
        <5>2. head = s[1] /\ head # NULL
          BY <1>2, <2>1, <4>1 DEF Linked
        <5> HIDE DEF p
        <5> QED
          BY <4>1, <5>1, <5>2
      <4>2. CASE n > 1
        <5>1. p # <<>> /\ Last(p) = s[n - 1]
          BY <3>1, <4>2 DEF Last
        <5>2. nx[s[n - 1]] = s[n] /\ s[n - 1] \in Threads /\ s[n] # NULL
          BY <1>1, <1>2, <2>1, <4>2 DEF Linked
        <5> HIDE DEF p
        <5> QED
          BY <5>1, <5>2
      <4> HIDE DEF p, Turn
      <4> QED
        BY <1>1, <4>1, <4>2
    <3>3. Append(p, s[n]) = SubSeq(s, 1, n)
      BY <1>1, <2>1, <3>1
    <3> QED
      BY <2>1, <3>2, <3>3
  <2>2. CASE n > Len(s)
    <3>1. Prefix(n - 1) = s /\ Prefix(n) = s
      <4>1. CASE n - 1 <= Len(s)
        <5>1. n - 1 = Len(s) /\ SubSeq(s, 1, Len(s)) = s
          BY <1>1, <2>2, <4>1
        <5> QED
          BY <2>2, <5>1
      <4> QED
        BY <2>2, <4>1
    <3>2. Turn(s) = s
      <4>1. CASE s = <<>>
        BY <4>1 DEF Linked
      <4>2. CASE s # <<>>
        <5>1. Last(s) = s[Len(s)] /\ Len(s) \in 1 .. Len(s)
          BY <4>2 DEF Last
        <5>2. nx[s[Len(s)]] = NULL
          BY <5>1 DEF Linked
        <5> QED
          BY <1>2, <4>2, <5>1, <5>2
      <4> QED
        BY <4>1, <4>2
    <3> HIDE DEF Turn, Prefix
    <3> QED
      BY <3>1, <3>2
  <2> HIDE DEF Turn, Prefix
  <2> QED
    BY <1>1, <2>1, <2>2
<1>4. Prefix(0) = <<>>
  BY <1>1
<1>5. Chain(block, head) = walk[N]
  BY Zenon DEF Chain
<1> HIDE DEF Turn, Prefix
<1>6. P([n \in 0 .. N |-> Prefix(n)])
  <2> DEFINE f == [n \in 0 .. N |-> Prefix(n)]
  <2>1. ASSUME NEW n \in 0 .. N PROVE f[n] = IF n = 0 THEN <<>> ELSE Turn(f[n - 1])
    <3>1. n # 0 => n \in 1 .. N /\ n - 1 \in 0 .. N
      BY <1>1
    <3> QED
      BY <1>3, <1>4, <3>1
  <2>2. f = [n \in 0 .. N |-> f[n]]
    OBVIOUS
  <2> QED
    BY <2>1, <2>2
<1>7. P(walk)
  <2> HIDE DEF P
  <2> QED
    BY <1>6, Zenon
<1> HIDE DEF walk
<1>8. \A n \in 0 .. N : walk[n] = IF n = 0 THEN <<>> ELSE Turn(walk[n - 1])
  BY <1>7
<1> HIDE DEF P
<1> DEFINE T == {n \in Nat : n <= N => walk[n] = Prefix(n)}
<1>9. 0 \in T
  BY <1>1, <1>4, <1>8
<1>10. ASSUME NEW n \in Nat, n \in T PROVE n + 1 \in T
  <2> SUFFICES ASSUME n + 1 <= N PROVE walk[n + 1] = Prefix(n + 1)
    OBVIOUS
  <2>1. n + 1 \in 1 .. N /\ n + 1 \in 0 .. N /\ (n + 1) - 1 = n /\ n + 1 # 0 /\ n <= N
    BY <1>1
  <2>2. walk[n + 1] = Turn(walk[n])
    BY <1>8, <2>1
  <2>3. walk[n] = Prefix(n)
    BY <1>10, <2>1
  <2>4. Turn(Prefix(n)) = Prefix(n + 1)
    BY <1>3, <2>1
  <2> QED
    BY <2>2, <2>3, <2>4
<1> HIDE DEF T
<1>11. N \in T
  BY <1>1, <1>9, <1>10, Induction
<1>12. walk[N] = Prefix(N)
  BY <1>1, <1>11 DEF T
<1>13. Prefix(N) = s
  <2>1. CASE N = Len(s)
    BY <2>1 DEF Prefix
  <2>2. CASE N # Len(s)
    BY <1>1, <2>2 DEF Prefix
  <2> QED
    BY <2>1, <2>2
<1>14. Chain(block, head) = s
  BY <1>5, <1>12, <1>13
<1>15. s # <<>> => block[Last(s)].Next = NULL
  <2> SUFFICES ASSUME s # <<>> PROVE block[Last(s)].Next = NULL
    OBVIOUS
  <2>1. Last(s) = s[Len(s)] /\ Len(s) \in 1 .. Len(s)
    BY DEF Last
  <2>2. nx[s[Len(s)]] = NULL
    BY <2>1 DEF Linked
  <2> QED
    BY <1>2, <2>1, <2>2
<1> QED
  BY <1>14, <1>15, Zenon DEF Loops

-----------------------------------------------------------------------------
(* Relinking a queue *)

Free(t, q) == \A x \in Queues : \A i \in 1 .. Len(q[x]) : q[x][i] # t

Different(s) == \A i, j \in 1 .. Len(s) : s[i] = s[j] => i = j

\* The lists follow when one queue becomes the sequence s and the links of
\* the others stay.
LEMMA Requeued ==
    ASSUME NEW nx, NEW heads, NEW q, Spells(nx, heads, q), NEW x \in Queues,
           NEW nx2 \in [Threads -> Links], NEW heads2 \in [Queues -> Links], NEW s \in Seq(Threads),
           \A y \in Queues : y # x => heads2[y] = heads[y],
           \A y \in Queues : y # x => \A i \in 1 .. Len(q[y]) : nx2[q[y][i]] = nx[q[y][i]],
           Linked(nx2, heads2[x], s), Different(s),
           \A i \in 1 .. Len(s) : Free(s[i], q) \/ \E j \in 1 .. Len(q[x]) : s[i] = q[x][j]
    PROVE  Spells(nx2, heads2, [q EXCEPT ![x] = s])
<1> DEFINE q2 == [q EXCEPT ![x] = s]
<1>1. q2 \in [Queues -> Seq(Threads)] /\ q2[x] = s /\ \A y \in Queues : y # x => q2[y] = q[y]
  BY DEF Spells
<1> HIDE DEF q2
<1>2. ASSUME NEW y \in Queues PROVE Linked(nx2, heads2[y], q2[y])
  <2>1. CASE y = x
    BY <1>1, <2>1
  <2>2. CASE y # x
    <3>1. Linked(nx, heads[y], q[y])
      BY DEF Spells
    <3>2. q2[y] = q[y] /\ heads2[y] = heads[y]
      BY <1>1, <2>2
    <3>3. \A i \in 1 .. Len(q[y]) : nx2[q[y][i]] = nx[q[y][i]]
      BY <2>2
    <3> QED
      BY <3>1, <3>2, <3>3 DEF Linked
  <2> QED
    BY <2>1, <2>2
<1>3. ASSUME NEW y \in Queues, NEW i \in 1 .. Len(s), NEW j \in 1 .. Len(q[y]), y # x
      PROVE  s[i] # q[y][j]
  <2>1. CASE Free(s[i], q)
    BY <2>1 DEF Free
  <2>2. CASE \E k \in 1 .. Len(q[x]) : s[i] = q[x][k]
    <3>1. PICK k \in 1 .. Len(q[x]) : s[i] = q[x][k]
      BY <2>2
    <3> QED
      BY <1>3, <3>1 DEF Spells, Apart
  <2> QED
    BY <2>1, <2>2
<1>4. ASSUME NEW y \in Queues, NEW z \in Queues, NEW i \in 1 .. Len(q2[y]), NEW j \in 1 .. Len(q2[z]),
             q2[y][i] = q2[z][j]
      PROVE  y = z /\ i = j
  <2>1. CASE y = x /\ z = x
    BY <1>1, <1>4, <2>1 DEF Different
  <2>2. CASE y = x /\ z # x
    BY <1>1, <1>3, <1>4, <2>2
  <2>3. CASE y # x /\ z = x
    BY <1>1, <1>3, <1>4, <2>3
  <2>4. CASE y # x /\ z # x
    BY <1>1, <1>4, <2>4 DEF Spells, Apart
  <2> QED
    BY <2>1, <2>2, <2>3, <2>4
<1> QED
  BY <1>1, <1>2, <1>4 DEF Spells, Apart, q2

\* The link of a thread in no queue does not matter.
LEMMA FreeLink ==
    ASSUME NEW nx, NEW heads, NEW q, Spells(nx, heads, q), NEW t \in Threads, Free(t, q),
           NEW v \in Links
    PROVE  Spells([nx EXCEPT ![t] = v], heads, q)
<1> DEFINE nx2 == [nx EXCEPT ![t] = v]
<1>1. nx2 \in [Threads -> Links] /\ \A u \in Threads : u # t => nx2[u] = nx[u]
  BY DEF Spells
<1> HIDE DEF nx2
<1>2. ASSUME NEW x \in Queues PROVE Linked(nx2, heads[x], q[x])
  <2>1. \A i \in 1 .. Len(q[x]) : q[x][i] \in Threads /\ q[x][i] # t
    BY DEF Spells, Free
  <2>2. Linked(nx, heads[x], q[x])
    BY DEF Spells
  <2> QED
    BY <1>1, <2>1, <2>2, Zenon DEF Linked
<1> QED
  BY <1>1, <1>2 DEF Spells, nx2

\* What the queues' links and heads are.
LEMMA QueueIs ==
    ASSUME NEW nx, NEW heads, NEW q, Spells(nx, heads, q), NEW x \in Queues
    PROVE  /\ q[x] \in Seq(Threads) /\ Len(q[x]) \in Nat /\ heads[x] \in Links /\ Different(q[x])
           /\ \A i \in 1 .. Len(q[x]) : q[x][i] \in Threads /\ q[x][i] # NULL
           /\ heads[x] = IF q[x] = << >> THEN NULL ELSE q[x][1]
           /\ \A i \in 1 .. Len(q[x]) : nx[q[x][i]] = IF i < Len(q[x]) THEN q[x][i + 1] ELSE NULL
<1>1. Linked(nx, heads[x], q[x]) /\ q[x] \in Seq(Threads) /\ heads[x] \in Links
  BY DEF Spells
<1>2. Different(q[x])
  BY DEF Spells, Apart, Different
<1>3. \A i \in 1 .. Len(q[x]) : q[x][i] \in Threads /\ q[x][i] # NULL
  BY <1>1, SchedulerAssumption
<1> QED
  BY <1>1, <1>2, <1>3 DEF Linked

Pushed(s, t) == [i \in 1 .. Len(s) + 1 |-> IF i = 1 THEN t ELSE s[i - 1]]

\* A thread is put in front of a queue.
LEMMA PushIs ==
    ASSUME NEW nx, NEW heads, NEW q, Spells(nx, heads, q), NEW x \in Queues,
           NEW t \in Threads, Free(t, q)
    PROVE  Spells([nx EXCEPT ![t] = heads[x]], [heads EXCEPT ![x] = t], [q EXCEPT ![x] = Pushed(@, t)])
<1> DEFINE s == q[x]
           s2 == Pushed(s, t)
           nx2 == [nx EXCEPT ![t] = heads[x]]
           heads2 == [heads EXCEPT ![x] = t]
<1>1. /\ s \in Seq(Threads) /\ Len(s) \in Nat /\ heads[x] \in Links /\ Different(s)
      /\ \A i \in 1 .. Len(s) : s[i] \in Threads /\ s[i] # NULL /\ s[i] # t
      /\ heads[x] = IF s = << >> THEN NULL ELSE s[1]
      /\ \A i \in 1 .. Len(s) : nx[s[i]] = IF i < Len(s) THEN s[i + 1] ELSE NULL
  BY QueueIs DEF Free
<1>2. nx2 \in [Threads -> Links] /\ nx2[t] = heads[x] /\ \A u \in Threads : u # t => nx2[u] = nx[u]
  BY <1>1 DEF Spells
<1>3. heads2 \in [Queues -> Links] /\ heads2[x] = t /\ \A y \in Queues : y # x => heads2[y] = heads[y]
  BY DEF Spells, Links
<1> HIDE DEF nx2, heads2, s
<1>4. /\ s2 \in Seq(Threads) /\ Len(s2) = Len(s) + 1 /\ s2[1] = t
      /\ \A i \in 2 .. Len(s) + 1 : s2[i] = s[i - 1] /\ i - 1 \in 1 .. Len(s)
  <2>1. s2 \in [1 .. Len(s) + 1 -> Threads]
    <3>1. \A i \in 1 .. Len(s) + 1 : i # 1 => i - 1 \in 1 .. Len(s)
      BY <1>1
    <3> QED
      BY <1>1, <3>1 DEF Pushed
  <2>2. s2[1] = t /\ \A i \in 2 .. Len(s) + 1 : s2[i] = s[i - 1] /\ i - 1 \in 1 .. Len(s)
    BY <1>1 DEF Pushed
  <2> HIDE DEF s2
  <2> QED
    BY <1>1, <2>1, <2>2
<1> HIDE DEF s2
<1>5. \A i \in 1 .. Len(s2) : i = 1 \/ i \in 2 .. Len(s) + 1
  BY <1>1, <1>4
<1>6. Linked(nx2, t, s2)
  <2>1. s2 # << >>
    BY <1>1, <1>4
  <2>2. ASSUME NEW i \in 1 .. Len(s2)
        PROVE  nx2[s2[i]] = IF i < Len(s2) THEN s2[i + 1] ELSE NULL
    <3>1. CASE i = 1
      <4>1. CASE s = << >>
        BY <1>1, <1>2, <1>4, <3>1, <4>1
      <4>2. CASE s # << >>
        <5>1. 2 \in 2 .. Len(s) + 1 /\ Len(s) >= 1
          BY <1>1, <4>2
        <5> QED
          BY <1>1, <1>2, <1>4, <3>1, <4>2, <5>1
      <4> QED
        BY <4>1, <4>2
    <3>2. CASE i \in 2 .. Len(s) + 1
      <4>1. s2[i] = s[i - 1] /\ i - 1 \in 1 .. Len(s)
        BY <1>4, <3>2
      <4>2. nx2[s2[i]] = IF i - 1 < Len(s) THEN s[(i - 1) + 1] ELSE NULL
        BY <1>1, <1>2, <4>1
      <4>3. i - 1 < Len(s) => i + 1 \in 2 .. Len(s) + 1 /\ s2[i + 1] = s[i]
        BY <1>1, <1>4, <3>2
      <4> QED
        BY <1>1, <1>4, <3>2, <4>2, <4>3
    <3> QED
      BY <1>5, <3>1, <3>2
  <2> QED
    BY <1>4, <2>1, <2>2 DEF Linked
<1>7. Different(s2)
  BY <1>1, <1>4, <1>5, SMTT(30) DEF Different
<1>8. \A i \in 1 .. Len(s2) : Free(s2[i], q) \/ \E j \in 1 .. Len(s) : s2[i] = s[j]
  BY <1>4, <1>5, SMTT(30)
<1>9. \A y \in Queues : y # x => \A i \in 1 .. Len(q[y]) : nx2[q[y][i]] = nx[q[y][i]]
  <2> SUFFICES ASSUME NEW y \in Queues, NEW i \in 1 .. Len(q[y]) PROVE nx2[q[y][i]] = nx[q[y][i]]
    OBVIOUS
  <2>1. q[y][i] \in Threads /\ q[y][i] # t
    BY QueueIs DEF Free
  <2> QED
    BY <1>2, <2>1
<1> QED
  BY <1>2, <1>3, <1>4, <1>6, <1>7, <1>8, <1>9, Requeued, ZenonT(40) DEF s, s2, nx2, heads2

\* A thread is linked behind the last one of a queue.
LEMMA AppendIs ==
    ASSUME NEW nx, NEW heads, NEW q, Spells(nx, heads, q), NEW x \in Queues,
           NEW t \in Threads, Free(t, q), nx[t] = NULL
    PROVE  Spells(IF heads[x] = NULL THEN nx ELSE [nx EXCEPT ![Last(q[x])] = t],
                  IF heads[x] = NULL THEN [heads EXCEPT ![x] = t] ELSE heads,
                  [q EXCEPT ![x] = Append(@, t)])
<1> DEFINE s == q[x]
           s2 == Append(s, t)
           nx2 == IF heads[x] = NULL THEN nx ELSE [nx EXCEPT ![Last(s)] = t]
           heads2 == IF heads[x] = NULL THEN [heads EXCEPT ![x] = t] ELSE heads
<1>1. /\ s \in Seq(Threads) /\ Len(s) \in Nat /\ heads[x] \in Links /\ Different(s)
      /\ \A i \in 1 .. Len(s) : s[i] \in Threads /\ s[i] # NULL /\ s[i] # t
      /\ heads[x] = IF s = << >> THEN NULL ELSE s[1]
      /\ \A i \in 1 .. Len(s) : nx[s[i]] = IF i < Len(s) THEN s[i + 1] ELSE NULL
  BY QueueIs DEF Free
<1>2. /\ nx \in [Threads -> Links] /\ heads \in [Queues -> Links] /\ t \in Links /\ t # NULL
      /\ s # << >> => Last(s) = s[Len(s)] /\ Len(s) \in 1 .. Len(s)
  BY <1>1, SchedulerAssumption DEF Spells, Links, Last
<1>3. s = << >> <=> heads[x] = NULL
  <2>1. s # << >> => 1 \in 1 .. Len(s)
    BY <1>1
  <2> QED
    BY <1>1, <2>1
<1>4. /\ s2 \in Seq(Threads) /\ Len(s2) = Len(s) + 1 /\ s2[Len(s) + 1] = t
      /\ \A i \in 1 .. Len(s) : s2[i] = s[i]
  <2> HIDE DEF s
  <2> QED
    BY <1>1
<1>5. /\ nx2 \in [Threads -> Links] /\ nx2[t] = NULL
      /\ \A u \in Threads : (\A i \in 1 .. Len(s) : u # s[i]) => nx2[u] = nx[u]
      /\ \A i \in 1 .. Len(s) : nx2[s[i]] = IF i < Len(s) THEN s[i + 1] ELSE t
  <2>1. CASE s = << >>
    <3>1. nx2 = nx
      BY <1>3, <2>1
    <3>2. ~(\E i \in 1 .. Len(s) : TRUE)
      BY <2>1
    <3> HIDE DEF nx2, s
    <3> QED
      BY <1>2, <3>1, <3>2
  <2>2. CASE s # << >>
    <3>1. nx2 = [nx EXCEPT ![s[Len(s)]] = t]
      BY <1>2, <1>3, <2>2
    <3> HIDE DEF nx2, s
    <3>2. s[Len(s)] \in Threads /\ s[Len(s)] # t /\ Len(s) \in 1 .. Len(s)
      BY <1>1, <1>2, <2>2
    <3>3. nx2 \in [Threads -> Links] /\ nx2[s[Len(s)]] = t
          /\ \A u \in Threads : u # s[Len(s)] => nx2[u] = nx[u]
      BY <1>2, <3>1, <3>2
    <3>4. ASSUME NEW i \in 1 .. Len(s) PROVE nx2[s[i]] = IF i < Len(s) THEN s[i + 1] ELSE t
      <4>1. CASE i = Len(s)
        BY <3>3, <4>1
      <4>2. CASE i # Len(s)
        <5>1. s[i] # s[Len(s)] /\ i < Len(s) /\ s[i] \in Threads
          BY <1>1, <3>2, <4>2 DEF Different
        <5> QED
          BY <1>1, <3>3, <5>1
      <4> QED
        BY <4>1, <4>2
    <3> QED
      BY <3>2, <3>3, <3>4
  <2> QED
    BY <2>1, <2>2
<1>6. /\ heads2 \in [Queues -> Links] /\ heads2[x] = IF s = << >> THEN t ELSE heads[x]
      /\ \A y \in Queues : y # x => heads2[y] = heads[y]
  <2>1. CASE s = << >>
    <3>1. heads2 = [heads EXCEPT ![x] = t]
      BY <1>3, <2>1
    <3> HIDE DEF heads2, s
    <3> QED
      BY <1>2, <2>1, <3>1
  <2>2. CASE s # << >>
    BY <1>2, <1>3, <2>2
  <2> QED
    BY <2>1, <2>2
<1> HIDE DEF nx2, heads2, s, s2
<1>7. \A i \in 1 .. Len(s2) : i \in 1 .. Len(s) \/ i = Len(s) + 1
  BY <1>1, <1>4
<1>8. Linked(nx2, heads2[x], s2)
  <2>1. s2 # << >> /\ heads2[x] = s2[1]
    <3>1. CASE s = << >>
      <4>1. Len(s) = 0
        BY <3>1
      <4>2. s2[1] = t /\ s2 # << >>
        BY <1>4, <4>1
      <4> QED
        BY <1>6, <3>1, <4>2
    <3>2. CASE s # << >>
      <4>1. 1 \in 1 .. Len(s)
        BY <1>1, <3>2
      <4>2. s2[1] = s[1]
        BY <1>4, <4>1
      <4> QED
        BY <1>1, <1>4, <1>6, <3>2, <4>2
    <3> QED
      BY <3>1, <3>2
  <2>2. ASSUME NEW i \in 1 .. Len(s2)
        PROVE  nx2[s2[i]] = IF i < Len(s2) THEN s2[i + 1] ELSE NULL
    <3>1. CASE i \in 1 .. Len(s)
      <4>1. s2[i] = s[i] /\ i < Len(s2) /\ nx2[s[i]] = IF i < Len(s) THEN s[i + 1] ELSE t
        BY <1>1, <1>4, <1>5, <3>1
      <4>2. CASE i < Len(s)
        <5>1. i + 1 \in 1 .. Len(s)
          BY <1>1, <3>1, <4>2
        <5> QED
          BY <1>4, <4>1, <4>2, <5>1
      <4>3. CASE ~(i < Len(s))
        <5>1. i = Len(s)
          BY <1>1, <3>1, <4>3
        <5> QED
          BY <1>1, <1>4, <4>1, <5>1
      <4> QED
        BY <4>2, <4>3
    <3>2. CASE i = Len(s) + 1
      BY <1>1, <1>4, <1>5, <3>2
    <3> QED
      BY <1>7, <3>1, <3>2
  <2> QED
    BY <2>1, <2>2 DEF Linked
<1>9. Different(s2)
  BY <1>1, <1>4, <1>7 DEF Different
<1>10. \A i \in 1 .. Len(s2) : Free(s2[i], q) \/ \E j \in 1 .. Len(s) : s2[i] = s[j]
  BY <1>4, <1>7
<1>11. \A y \in Queues : y # x => \A i \in 1 .. Len(q[y]) : nx2[q[y][i]] = nx[q[y][i]]
  <2> SUFFICES ASSUME NEW y \in Queues, y # x, NEW i \in 1 .. Len(q[y]) PROVE nx2[q[y][i]] = nx[q[y][i]]
    OBVIOUS
  <2>1. q[y][i] \in Threads
    BY QueueIs
  <2>2. \A j \in 1 .. Len(s) : q[y][i] # s[j]
    BY DEF Spells, Apart, s
  <2> QED
    BY <1>5, <2>1, <2>2
<1>12. Spells(nx2, heads2, [q EXCEPT ![x] = s2])
  BY <1>4, <1>5, <1>6, <1>8, <1>9, <1>10, <1>11, Requeued DEF s
<1> QED
  BY <1>12, Zenon DEF s, s2, nx2, heads2

Without(s, k) == [i \in 1 .. Len(s) - 1 |-> IF i < k THEN s[i] ELSE s[i + 1]]

\* A thread is linked out of a queue.
LEMMA UnlinkIs ==
    ASSUME NEW nx, NEW heads, NEW q, Spells(nx, heads, q), NEW x \in Queues,
           NEW k \in 1 .. Len(q[x])
    PROVE  /\ Spells(IF k = 1 THEN nx ELSE [nx EXCEPT ![q[x][k - 1]] = nx[q[x][k]]],
                     IF k = 1 THEN [heads EXCEPT ![x] = nx[q[x][1]]] ELSE heads,
                     [q EXCEPT ![x] = Without(@, k)])
           /\ Free(q[x][k], [q EXCEPT ![x] = Without(@, k)])
<1> DEFINE s == q[x]
           s2 == Without(s, k)
           nx2 == IF k = 1 THEN nx ELSE [nx EXCEPT ![s[k - 1]] = nx[s[k]]]
           heads2 == IF k = 1 THEN [heads EXCEPT ![x] = nx[s[1]]] ELSE heads
           from(i) == IF i < k THEN i ELSE i + 1
<1>1. /\ s \in Seq(Threads) /\ Len(s) \in Nat /\ heads[x] \in Links /\ Different(s)
      /\ \A i \in 1 .. Len(s) : s[i] \in Threads /\ s[i] # NULL
      /\ heads[x] = IF s = << >> THEN NULL ELSE s[1]
      /\ \A i \in 1 .. Len(s) : nx[s[i]] = IF i < Len(s) THEN s[i + 1] ELSE NULL
  BY QueueIs
<1>2. nx \in [Threads -> Links] /\ heads \in [Queues -> Links] /\ k \in Nat /\ 1 <= k /\ k <= Len(s)
  BY <1>1 DEF Spells
<1> HIDE DEF s
<1>3. /\ nx2 \in [Threads -> Links] /\ (k > 1 => nx2[s[k - 1]] = nx[s[k]])
      /\ \A i \in 1 .. Len(s) : (k = 1 \/ i # k - 1) => nx2[s[i]] = nx[s[i]]
      /\ \A u \in Threads : (\A i \in 1 .. Len(s) : u # s[i]) => nx2[u] = nx[u]
  <2>1. CASE k = 1
    BY <1>2, <2>1
  <2>2. CASE k > 1
    <3>1. nx2 = [nx EXCEPT ![s[k - 1]] = nx[s[k]]] /\ k - 1 \in 1 .. Len(s) /\ k \in 1 .. Len(s)
      BY <1>2, <2>2
    <3> HIDE DEF nx2
    <3>2. s[k - 1] \in Threads /\ nx[s[k]] \in Links
      BY <1>1, <1>2, <3>1
    <3>3. nx2 \in [Threads -> Links] /\ nx2[s[k - 1]] = nx[s[k]]
          /\ \A u \in Threads : u # s[k - 1] => nx2[u] = nx[u]
      BY <1>2, <3>1, <3>2
    <3>4. \A i \in 1 .. Len(s) : i # k - 1 => s[i] # s[k - 1]
      BY <1>1, <3>1 DEF Different
    <3> QED
      BY <1>1, <2>2, <3>1, <3>3, <3>4
  <2> QED
    BY <1>2, <2>1, <2>2
<1>4. /\ heads2 \in [Queues -> Links] /\ heads2[x] = IF k = 1 THEN nx[s[1]] ELSE heads[x]
      /\ \A y \in Queues : y # x => heads2[y] = heads[y]
  <2>1. CASE k = 1
    <3>1. heads2 = [heads EXCEPT ![x] = nx[s[1]]] /\ s[1] \in Threads
      BY <1>1, <1>2, <2>1
    <3> HIDE DEF heads2
    <3> QED
      BY <1>2, <2>1, <3>1
  <2>2. CASE k # 1
    BY <1>2, <2>2
  <2> QED
    BY <2>1, <2>2
<1> HIDE DEF nx2, heads2
<1>5. /\ s2 \in Seq(Threads) /\ Len(s2) = Len(s) - 1
      /\ \A i \in 1 .. Len(s) - 1 : s2[i] = s[from(i)] /\ from(i) \in 1 .. Len(s) /\ from(i) # k
  <2>1. \A i \in 1 .. Len(s) - 1 : s2[i] = s[from(i)] /\ from(i) \in 1 .. Len(s) /\ from(i) # k
    BY <1>1, <1>2 DEF Without
  <2>2. s2 = [i \in 1 .. Len(s) - 1 |-> s2[i]]
    BY DEF Without
  <2> HIDE DEF from, s2
  <2>3. s2 \in [1 .. Len(s) - 1 -> Threads]
    BY <1>1, <2>1, <2>2
  <2>4. Len(s) - 1 \in Nat
    BY <1>2
  <2>5. s2 \in Seq(Threads) /\ Len(s2) = Len(s) - 1
    BY <2>3, <2>4
  <2> QED
    BY <2>1, <2>5
<1> HIDE DEF s2
<1>6. Linked(nx2, heads2[x], s2)
  <2>1. heads2[x] = IF s2 = << >> THEN NULL ELSE s2[1]
    <3>1. CASE s2 = << >>
      <4>1. Len(s) = 1 /\ k = 1
        <5>1. Len(s2) = 0
          BY <3>1
        <5>2. Len(s2) = Len(s) - 1
          BY <1>5
        <5>3. Len(s) \in Nat /\ k \in Nat /\ 1 <= k /\ k <= Len(s)
          BY <1>1, <1>2
        <5>4. Len(s) - 1 = 0
          BY <5>1, <5>2
        <5>5. Len(s) = 1
          BY <5>3, <5>4
        <5> QED
          BY <5>3, <5>5
      <4> QED
        BY <1>1, <1>4, <3>1, <4>1
    <3>2. CASE s2 # << >>
      <4>1. 1 \in 1 .. Len(s) - 1
        BY <1>1, <1>5, <3>2
      <4>2. s2[1] = IF k = 1 THEN s[2] ELSE s[1]
        BY <1>2, <1>5, <4>1
      <4>3. s # << >> /\ nx[s[1]] = s[2]
        BY <1>1, <4>1
      <4> QED
        BY <1>1, <1>4, <3>2, <4>2, <4>3
    <3> QED
      BY <3>1, <3>2
  <2>2. ASSUME NEW i \in 1 .. Len(s2)
        PROVE  nx2[s2[i]] = IF i < Len(s2) THEN s2[i + 1] ELSE NULL
    <3>1. i \in 1 .. Len(s) - 1 /\ s2[i] = s[from(i)] /\ from(i) \in 1 .. Len(s)
      BY <1>5
    <3>2. CASE i >= k
      <4>1. from(i) = i + 1 /\ i + 1 # k - 1
        BY <1>2, <3>1, <3>2
      <4>2. nx2[s2[i]] = IF i + 1 < Len(s) THEN s[i + 2] ELSE NULL
        BY <1>1, <1>3, <3>1, <4>1
      <4>3. i < Len(s2) => s2[i + 1] = s[i + 2]
        <5>1. from(i + 1) = i + 2
          BY <1>2, <3>1, <3>2
        <5>2. i < Len(s2) => i + 1 \in 1 .. Len(s) - 1
          BY <1>1, <1>5, <3>1
        <5> HIDE DEF from
        <5> QED
          BY <1>5, <5>1, <5>2
      <4> QED
        BY <1>1, <1>5, <3>1, <4>2, <4>3
    <3>3. CASE i = k - 1
      <4>1. from(i) = i /\ k > 1 /\ i + 1 = k
        BY <1>2, <3>1, <3>3
      <4>2. nx2[s2[i]] = IF k < Len(s) THEN s[k + 1] ELSE NULL
        BY <1>1, <1>2, <1>3, <3>1, <3>3, <4>1
      <4>3. i < Len(s2) => s2[i + 1] = s[k + 1]
        BY <1>1, <1>2, <1>5, <3>1, <3>3
      <4> QED
        BY <1>1, <1>5, <3>1, <3>3, <4>2, <4>3
    <3>4. CASE i < k - 1
      <4>1. from(i) = i /\ i # k - 1 /\ i < Len(s) /\ i < Len(s2)
        BY <1>2, <1>5, <3>1, <3>4
      <4>2. nx2[s2[i]] = s[i + 1]
        BY <1>1, <1>3, <3>1, <4>1
      <4>3. s2[i + 1] = s[i + 1]
        BY <1>1, <1>2, <1>5, <3>1, <3>4, SMTT(30)
      <4> QED
        BY <4>1, <4>2, <4>3
    <3> HIDE DEF from
    <3> QED
      BY <1>2, <3>1, <3>2, <3>3, <3>4
  <2> QED
    BY <2>1, <2>2 DEF Linked
<1>7. Different(s2)
  <2>1. \A i, j \in 1 .. Len(s) - 1 : from(i) = from(j) => i = j
    BY <1>2
  <2> HIDE DEF from
  <2> QED
    BY <1>1, <1>5, <2>1 DEF Different
<1> HIDE DEF from
<1>8. \A i \in 1 .. Len(s2) : Free(s2[i], q) \/ \E j \in 1 .. Len(s) : s2[i] = s[j]
  BY <1>5
<1>9. \A y \in Queues : y # x => \A i \in 1 .. Len(q[y]) : nx2[q[y][i]] = nx[q[y][i]]
  <2> SUFFICES ASSUME NEW y \in Queues, y # x, NEW i \in 1 .. Len(q[y]) PROVE nx2[q[y][i]] = nx[q[y][i]]
    OBVIOUS
  <2>1. q[y][i] \in Threads
    BY QueueIs
  <2>2. \A j \in 1 .. Len(s) : q[y][i] # s[j]
    BY DEF Spells, Apart, s
  <2> QED
    BY <1>3, <2>1, <2>2
<1>10. Spells(nx2, heads2, [q EXCEPT ![x] = s2])
  BY <1>3, <1>4, <1>5, <1>6, <1>7, <1>8, <1>9, Requeued DEF s
<1>11. Free(s[k], [q EXCEPT ![x] = s2])
  <2>1. ASSUME NEW y \in Queues, y # x, NEW i \in 1 .. Len(q[y]) PROVE q[y][i] # s[k]
    BY <1>2, <2>1 DEF Spells, Apart, s
  <2>2. \A i \in 1 .. Len(s2) : s2[i] # s[k]
    BY <1>1, <1>2, <1>5 DEF Different
  <2>3. \A y \in Queues : [q EXCEPT ![x] = s2][y] = IF y = x THEN s2 ELSE q[y]
    BY DEF Spells
  <2> QED
    BY <2>1, <2>2, <2>3 DEF Free
<1> QED
  BY <1>10, <1>11 DEF s, s2, nx2, heads2

-----------------------------------------------------------------------------
(* The kernel's records *)

\* The fields of a state of the kernel.
LEMMA KernelIs ==
    ASSUME NEW k \in Kernels
    PROVE  /\ k.tcb \in [Threads -> Blocks] /\ k.sched \in [Cpus -> Scheds]
           /\ k.list \in Links /\ k.hung = FALSE
           /\ k = [tcb |-> k.tcb, sched |-> k.sched, list |-> k.list, hung |-> FALSE]
BY DEF Kernels

\* The heads of a CPU's queues.
LEMMA HeadIs ==
    ASSUME NEW k, NEW c \in Cpus
    PROVE  /\ Heads(k)[<<c, "ready">>] = k.sched[c].ReadyQueue
           /\ Heads(k)[<<c, "waiting">>] = k.sched[c].WaitingQueue
           /\ Heads(k)[<<c, "sleeping">>] = k.sched[c].SleepingQueue
           /\ <<c, "ready">> \in Queues /\ <<c, "waiting">> \in Queues /\ <<c, "sleeping">> \in Queues
<1>1. <<c, "ready">> \in Queues /\ <<c, "waiting">> \in Queues /\ <<c, "sleeping">> \in Queues
  BY DEF Queues, Kinds
<1> QED
  BY <1>1 DEF Heads, HeadsOf

\* The state k with another block b for the thread t.
Put(k, t, b) == [k EXCEPT !.tcb[t] = b]

\* k2 is k with another block b for the thread t.
Replaced(k, k2, t, b) ==
  /\ k2.sched = k.sched /\ k2.list = k.list
  /\ k2.tcb[t] = b /\ \A u \in Threads : u # t => k2.tcb[u] = k.tcb[u]

\* The queues q with t at the end or in front of the queue x, or without the
\* thread at position i.
AppendTo(q, x, t) == [q EXCEPT ![x] = Append(@, t)]
PushOn(q, x, t) == [q EXCEPT ![x] = Pushed(@, t)]
TakeFrom(q, x, i) == [q EXCEPT ![x] = Without(@, i)]

\* What the queue operations leave alone.
Kept(k, k2) ==
  /\ \A t \in Threads : k2.tcb[t].Life = k.tcb[t].Life /\ k2.tcb[t].LastCpu = k.tcb[t].LastCpu
  /\ \A c \in Cpus : k2.sched[c].CurrentThread = k.sched[c].CurrentThread

\* The other fields of a block may change, and the link of a thread in no
\* queue.
LEMMA BlockIs ==
    ASSUME NEW k, NEW q, HasQueues(k, q), NEW t \in Threads, NEW b \in Blocks,
           b.Next = k.tcb[t].Next \/ Free(t, q)
    PROVE  HasQueues(Put(k, t, b), q) /\ Replaced(k, Put(k, t, b), t, b)
<1> SUFFICES ASSUME NEW k2, k2 = Put(k, t, b)
             PROVE  HasQueues(k2, q) /\ Replaced(k, k2, t, b)
  OBVIOUS
<1> USE DEF Put
<1>1. k \in Kernels
  BY DEF HasQueues
<1>2. /\ k2.tcb = [k.tcb EXCEPT ![t] = b] /\ k2.sched = k.sched /\ k2.list = k.list
      /\ k2 = [tcb |-> k2.tcb, sched |-> k2.sched, list |-> k2.list, hung |-> FALSE]
  <2>1. k = [tcb |-> k.tcb, sched |-> k.sched, list |-> k.list, hung |-> FALSE]
    BY <1>1, KernelIs
  <2> DEFINE tcb2 == [k.tcb EXCEPT ![t] = b]
  <2>2. k2 = [k EXCEPT !.tcb = tcb2]
    OBVIOUS
  <2> HIDE DEF tcb2
  <2>3. k2 = [tcb |-> tcb2, sched |-> k.sched, list |-> k.list, hung |-> FALSE]
    BY <1>1, <2>2 DEF Kernels
  <2> QED
    BY <2>3 DEF tcb2
<1>3. k2.tcb \in [Threads -> Blocks] /\ k2.tcb[t] = b /\ \A u \in Threads : u # t => k2.tcb[u] = k.tcb[u]
  BY <1>1, <1>2, KernelIs
<1>4. k2 \in Kernels
  BY <1>1, <1>2, <1>3, KernelIs DEF Kernels
<1>5. Heads(k2) = Heads(k)
  BY <1>2 DEF Heads
<1>6. Nexts(k2) = [Nexts(k) EXCEPT ![t] = b.Next]
  <2>1. k2.tcb[t].Next = b.Next /\ \A u \in Threads : u # t => k2.tcb[u].Next = k.tcb[u].Next
    BY <1>3
  <2>2. Nexts(k2) = [Nexts(k) EXCEPT ![t] = k2.tcb[t].Next]
    BY <2>1 DEF Nexts
  <2> QED
    BY <2>1, <2>2
<1>7. Spells(Nexts(k2), Heads(k2), q)
  <2>1. CASE Free(t, q)
    <3>1. b.Next \in Links
      BY DEF Blocks
    <3> QED
      BY <1>5, <1>6, <2>1, <3>1, FreeLink DEF HasQueues
  <2>2. CASE b.Next = k.tcb[t].Next
    <3>1. Nexts(k2) = Nexts(k)
      BY <1>3, <2>2 DEF Nexts
    <3> QED
      BY <1>5, <3>1 DEF HasQueues
  <2> QED
    BY <2>1, <2>2
<1> QED
  BY <1>2, <1>3, <1>4, <1>7 DEF HasQueues, Replaced

\* LinkAtTail followed by the count.
Tailed(k, c, t) == CountReady(LinkAtTail(k, c, t), c)

SameTimes(k, k2) == \A t \in Threads : k2.tcb[t].WakeupTime = k.tcb[t].WakeupTime

\* LinkAtTail appends a thread that is in no queue.
LEMMA TailIs ==
    ASSUME NEW k, NEW q, HasQueues(k, q), NEW c \in Cpus, NEW t \in Threads, Free(t, q),
           k.tcb[t].Next = NULL
    PROVE  /\ HasQueues(Tailed(k, c, t), AppendTo(q, <<c, "ready">>, t)) /\ Kept(k, Tailed(k, c, t))
           /\ Tailed(k, c, t).list = k.list /\ SameTimes(k, Tailed(k, c, t))
<1> SUFFICES ASSUME NEW k2, k2 = Tailed(k, c, t)
             PROVE  /\ HasQueues(k2, AppendTo(q, <<c, "ready">>, t)) /\ Kept(k, k2)
                    /\ k2.list = k.list /\ SameTimes(k, k2)
  BY Zenon
<1> DEFINE x == <<c, "ready">>
           head == k.sched[c].ReadyQueue
           tail == Last(q[x])
           tcb2 == IF head = NULL THEN k.tcb ELSE [k.tcb EXCEPT ![tail].Next = t, ![t].Prev = tail]
           sched1 == [k.sched EXCEPT ![c].ReadyQueue = IF head = NULL THEN t ELSE @]
           sched2 == [sched1 EXCEPT ![c].ReadyCount = @ + 1]
<1>1. k \in Kernels /\ Spells(Nexts(k), Heads(k), q) /\ Heads(k)[x] = head /\ x \in Queues
      /\ k.sched[c].ReadyCount = Len(q[x])
  BY HeadIs DEF HasQueues
<1>2. /\ q[x] \in Seq(Threads) /\ Len(q[x]) \in Nat /\ head \in Links /\ Different(q[x])
      /\ \A i \in 1 .. Len(q[x]) : q[x][i] \in Threads /\ q[x][i] # NULL /\ q[x][i] # t
      /\ head = IF q[x] = << >> THEN NULL ELSE q[x][1]
  BY <1>1, QueueIs DEF Free
<1>3. Chain(k.tcb, head) = q[x] /\ Loops(k.tcb, head) = FALSE
  <2>1. Linked(Nexts(k), head, q[x])
    BY <1>1 DEF Spells
  <2>2. \A u \in Threads : Nexts(k)[u] = k.tcb[u].Next
    BY DEF Nexts
  <2>3. \A i, j \in 1 .. Len(q[x]) : q[x][i] = q[x][j] => i = j
    BY <1>2 DEF Different
  <2>4. Chain(k.tcb, head) = q[x] /\ ~Loops(k.tcb, head)
    BY <1>2, <2>1, <2>2, <2>3, ChainIs
  <2> QED
    BY <2>4
<1>4. k2 = [tcb |-> tcb2, sched |-> sched2, list |-> k.list, hung |-> k.hung]
  <2> DEFINE k1 == LinkAtTail(k, c, t)
  <2>1. k1 = [k EXCEPT !.tcb = tcb2, !.sched = sched1, !.hung = k.hung \/ FALSE]
    BY <1>3, ZenonT(40) DEF LinkAtTail
  <2>2. (k.hung \/ FALSE) = k.hung
    BY <1>1, KernelIs, Zenon
  <2>3. k2 = [k1 EXCEPT !.sched[c].ReadyCount = @ + 1]
    BY Zenon DEF Tailed, CountReady
  <2> HIDE DEF tcb2, sched1, k1
  <2>4. k1 = [k EXCEPT !.tcb = tcb2, !.sched = sched1, !.hung = k.hung]
    BY <2>1, <2>2, Zenon
  <2>5. k1 = [tcb |-> tcb2, sched |-> sched1, list |-> k.list, hung |-> k.hung]
    BY <1>1, <2>4 DEF Kernels
  <2>6. k1.sched = sched1
    BY <2>5
  <2>7. k2 = [k1 EXCEPT !.sched = sched2]
    BY <2>3, <2>6
  <2> HIDE DEF sched2
  <2> QED
    BY <2>5, <2>7
<1>5. /\ k2.tcb = tcb2 /\ k2.sched = sched2 /\ k2.list = k.list /\ k2.hung = FALSE
      /\ k.tcb \in [Threads -> Blocks] /\ k.sched \in [Cpus -> Scheds] /\ k.list \in Links
  <2> HIDE DEF tcb2, sched2
  <2>1. k2.tcb = tcb2 /\ k2.sched = sched2 /\ k2.list = k.list /\ k2.hung = k.hung
    BY <1>4
  <2> QED
    BY <1>1, <2>1, KernelIs
<1>6. head # NULL => tail \in Threads /\ tail # t /\ \E i \in 1 .. Len(q[x]) : tail = q[x][i]
  <2> SUFFICES ASSUME head # NULL PROVE \E i \in 1 .. Len(q[x]) : tail = q[x][i]
    BY <1>2
  <2>1. q[x] # << >>
    BY <1>2
  <2>2. tail = q[x][Len(q[x])] /\ Len(q[x]) \in 1 .. Len(q[x])
    BY <1>2, <2>1 DEF Last
  <2> HIDE DEF tail
  <2> QED
    BY <2>2
<1> HIDE DEF tail, head
<1>7. /\ tcb2 \in [Threads -> Blocks]
      /\ \A u \in Threads : /\ tcb2[u].Life = k.tcb[u].Life /\ tcb2[u].LastCpu = k.tcb[u].LastCpu
                            /\ tcb2[u].WakeupTime = k.tcb[u].WakeupTime
                            /\ tcb2[u].Next = IF head # NULL /\ u = tail THEN t ELSE k.tcb[u].Next
  <2>1. CASE head = NULL
    BY <1>5, <2>1
  <2>2. CASE head # NULL
    <3>1. t \in Links /\ tail \in Links /\ tail \in Threads /\ tail # t
      BY <1>6, <2>2 DEF Links
    <3> DEFINE a == [k.tcb EXCEPT ![tail].Next = t]
    <3>2. tcb2 = [a EXCEPT ![t].Prev = tail]
      BY <2>2
    <3>3. \A b \in Blocks : /\ [b EXCEPT !.Next = t] \in Blocks
                            /\ [b EXCEPT !.Next = t].Next = t
                            /\ [b EXCEPT !.Next = t].Life = b.Life
                            /\ [b EXCEPT !.Next = t].LastCpu = b.LastCpu
                            /\ [b EXCEPT !.Next = t].WakeupTime = b.WakeupTime
      BY <3>1 DEF Blocks
    <3>4. \A b \in Blocks : /\ [b EXCEPT !.Prev = tail] \in Blocks
                            /\ [b EXCEPT !.Prev = tail].Next = b.Next
                            /\ [b EXCEPT !.Prev = tail].Life = b.Life
                            /\ [b EXCEPT !.Prev = tail].LastCpu = b.LastCpu
                            /\ [b EXCEPT !.Prev = tail].WakeupTime = b.WakeupTime
      BY <3>1 DEF Blocks
    <3> DEFINE bt == k.tcb[t]
               bl == k.tcb[tail]
               et == [bt EXCEPT !.Prev = tail]
               el == [bl EXCEPT !.Next = t]
    <3>5. bt \in Blocks /\ bl \in Blocks
      BY <1>5, <3>1
    <3>6. a = [k.tcb EXCEPT ![tail] = el]
      OBVIOUS
    <3> HIDE DEF a, tcb2, bt, bl
    <3>7. /\ et \in Blocks /\ et.Next = bt.Next /\ et.Life = bt.Life /\ et.LastCpu = bt.LastCpu
          /\ et.WakeupTime = bt.WakeupTime
          /\ el \in Blocks /\ el.Next = t /\ el.Life = bl.Life /\ el.LastCpu = bl.LastCpu
          /\ el.WakeupTime = bl.WakeupTime
      BY <3>3, <3>4, <3>5, Zenon
    <3>8. a[t] = bt
      BY <1>5, <3>1, <3>6 DEF bt
    <3>9. tcb2 = [a EXCEPT ![t] = et]
      BY <3>2, <3>8
    <3> HIDE DEF et, el
    <3>10. /\ tcb2 \in [Threads -> Blocks] /\ tcb2[t] = et /\ tcb2[tail] = el
           /\ \A u \in Threads : u # t /\ u # tail => tcb2[u] = k.tcb[u]
      BY <1>5, <3>1, <3>6, <3>7, <3>9
    <3>11. ASSUME NEW u \in Threads
          PROVE  /\ tcb2[u].Life = k.tcb[u].Life /\ tcb2[u].LastCpu = k.tcb[u].LastCpu
                 /\ tcb2[u].WakeupTime = k.tcb[u].WakeupTime
                 /\ tcb2[u].Next = IF u = tail THEN t ELSE k.tcb[u].Next
      <4>1. CASE u = t
        BY <3>1, <3>7, <3>10, <4>1 DEF bt
      <4>2. CASE u = tail
        BY <3>1, <3>7, <3>10, <4>2 DEF bl
      <4>3. CASE u # t /\ u # tail
        BY <3>10, <4>3
      <4> QED
        BY <4>1, <4>2, <4>3
    <3> QED
      BY <2>2, <3>10, <3>11
  <2> QED
    BY <2>1, <2>2
<1>8. /\ sched2 \in [Cpus -> Scheds]
      /\ \A d \in Cpus : d # c => sched2[d] = k.sched[d]
      /\ sched2[c].ReadyQueue = IF head = NULL THEN t ELSE head
      /\ sched2[c].ReadyCount = k.sched[c].ReadyCount + 1
      /\ sched2[c].WaitingQueue = k.sched[c].WaitingQueue
      /\ sched2[c].SleepingQueue = k.sched[c].SleepingQueue
      /\ sched2[c].CurrentThread = k.sched[c].CurrentThread
  <2> DEFINE h == IF head = NULL THEN t ELSE head
             e == k.sched[c]
             e1 == [e EXCEPT !.ReadyQueue = h]
             e2 == [e1 EXCEPT !.ReadyCount = @ + 1]
  <2>1. e \in Scheds /\ e.ReadyQueue = head /\ h \in Links
    BY <1>2, <1>5 DEF head, Links
  <2>2. sched1 = [k.sched EXCEPT ![c] = e1]
    BY DEF head
  <2> HIDE DEF e, h, sched1, sched2
  <2>3. /\ e1 \in Scheds /\ e1.ReadyQueue = h /\ e1.ReadyCount = e.ReadyCount
        /\ e1.WaitingQueue = e.WaitingQueue /\ e1.SleepingQueue = e.SleepingQueue
        /\ e1.CurrentThread = e.CurrentThread /\ e.ReadyCount \in Nat
    BY <2>1 DEF Scheds
  <2> HIDE DEF e1
  <2>4. /\ e2 \in Scheds /\ e2.ReadyQueue = h /\ e2.ReadyCount = e.ReadyCount + 1
        /\ e2.WaitingQueue = e.WaitingQueue /\ e2.SleepingQueue = e.SleepingQueue
        /\ e2.CurrentThread = e.CurrentThread
    BY <2>3 DEF Scheds
  <2>5. sched1[c] = e1 /\ sched1 \in [Cpus -> Scheds] /\ \A d \in Cpus : d # c => sched1[d] = k.sched[d]
    BY <1>5, <2>2, <2>3
  <2>6. sched2 = [sched1 EXCEPT ![c] = e2]
    BY <2>5 DEF sched2
  <2> HIDE DEF e2
  <2>7. sched2[c] = e2 /\ sched2 \in [Cpus -> Scheds] /\ \A d \in Cpus : d # c => sched2[d] = k.sched[d]
    BY <2>4, <2>5, <2>6
  <2> QED
    BY <2>4, <2>7 DEF e, h
<1> HIDE DEF tcb2, sched2

<1>9. k2 \in Kernels /\ Kept(k, k2)
  BY <1>4, <1>5, <1>7, <1>8 DEF Kernels, Kept
<1>10. Nexts(k2) = IF head = NULL THEN Nexts(k) ELSE [Nexts(k) EXCEPT ![tail] = t]
  <2>1. \A u \in Threads : k2.tcb[u].Next = IF head # NULL /\ u = tail THEN t ELSE k.tcb[u].Next
    BY <1>5, <1>7
  <2>2. CASE head = NULL
    BY <2>1, <2>2 DEF Nexts
  <2>3. CASE head # NULL
    <3>1. \A u \in Threads : k2.tcb[u].Next = IF u = tail THEN t ELSE k.tcb[u].Next
      BY <2>1, <2>3
    <3> QED
      BY <2>3, <3>1 DEF Nexts
  <2> QED
    BY <2>2, <2>3
<1>11. Heads(k2) = IF head = NULL THEN [Heads(k) EXCEPT ![x] = t] ELSE Heads(k)
  <2>1. ASSUME NEW y \in Queues PROVE Heads(k2)[y] = IF y = x /\ head = NULL THEN t ELSE Heads(k)[y]
    <3>1. PICK d \in Cpus, kind \in Kinds : y = <<d, kind>>
      BY DEF Queues, Kinds
    <3>2. k2.sched[d].WaitingQueue = k.sched[d].WaitingQueue
          /\ k2.sched[d].SleepingQueue = k.sched[d].SleepingQueue
          /\ k2.sched[d].ReadyQueue = IF d = c /\ head = NULL THEN t ELSE k.sched[d].ReadyQueue
      BY <1>5, <1>8 DEF head
    <3> QED
      BY <3>1, <3>2, HeadIs, ZenonT(40) DEF Kinds
  <2>2. CASE head = NULL
    <3>1. Heads(k2)[x] = t /\ \A y \in Queues : y # x => Heads(k2)[y] = Heads(k)[y]
      BY <1>1, <2>1, <2>2
    <3> QED
      BY <2>2, <3>1 DEF Heads
  <2>3. CASE head # NULL
    BY <2>1, <2>3 DEF Heads
  <2> QED
    BY <2>2, <2>3
<1>12. Spells(Nexts(k2), Heads(k2), [q EXCEPT ![x] = Append(@, t)])
  <2>1. Nexts(k)[t] = NULL
    BY DEF Nexts
  <2>2. Spells(IF Heads(k)[x] = NULL THEN Nexts(k) ELSE [Nexts(k) EXCEPT ![Last(q[x])] = t],
               IF Heads(k)[x] = NULL THEN [Heads(k) EXCEPT ![x] = t] ELSE Heads(k),
               [q EXCEPT ![x] = Append(@, t)])
    BY <1>1, <2>1, AppendIs, Zenon
  <2> QED
    BY <1>1, <1>10, <1>11, <2>2 DEF tail
<1>13. \A d \in Cpus : k2.sched[d].ReadyCount = Len([q EXCEPT ![x] = Append(@, t)][<<d, "ready">>])
  <2>1. ASSUME NEW d \in Cpus, d # c
        PROVE  k2.sched[d].ReadyCount = Len([q EXCEPT ![x] = Append(@, t)][<<d, "ready">>])
    <3>1. <<d, "ready">> # x /\ <<d, "ready">> \in Queues
      BY <2>1, HeadIs
    <3>2. [q EXCEPT ![x] = Append(@, t)][<<d, "ready">>] = q[<<d, "ready">>]
      BY <1>1, <3>1 DEF Spells
    <3> QED
      BY <1>5, <1>8, <2>1, <3>2 DEF HasQueues
  <2>2. k2.sched[c].ReadyCount = Len(q[x]) + 1
    BY <1>1, <1>5, <1>8
  <2>3. [q EXCEPT ![x] = Append(@, t)][x] = Append(q[x], t)
    BY <1>1 DEF Spells
  <2>4. Len(Append(q[x], t)) = Len(q[x]) + 1
    BY <1>2
  <2> QED
    BY <2>1, <2>2, <2>3, <2>4
<1> QED
  BY <1>5, <1>7, <1>9, <1>12, <1>13 DEF HasQueues, AppendTo, SameTimes

\* The state k with other threads and schedulers.
With(k, tcb2, sched2) == [k EXCEPT !.tcb = tcb2, !.sched = sched2]

\* The state that With builds is one of the kernel.
LEMMA StateIs ==
    ASSUME NEW k \in Kernels, NEW tcb2 \in [Threads -> Blocks], NEW sched2 \in [Cpus -> Scheds]
    PROVE  LET k2 == With(k, tcb2, sched2)
           IN  k2 \in Kernels /\ k2.tcb = tcb2 /\ k2.sched = sched2 /\ k2.list = k.list
BY DEF Kernels, With

\* Writing one head of a CPU.
HeadWritten(k, k2, c, kind, v) ==
  /\ \A d \in Cpus : d # c => k2.sched[d] = k.sched[d]
  /\ k2.sched[c].ReadyQueue = IF kind = "ready" THEN v ELSE k.sched[c].ReadyQueue
  /\ k2.sched[c].WaitingQueue = IF kind = "waiting" THEN v ELSE k.sched[c].WaitingQueue
  /\ k2.sched[c].SleepingQueue = IF kind = "sleeping" THEN v ELSE k.sched[c].SleepingQueue

HeadSet(heads, x, v) == [heads EXCEPT ![x] = v]

\* A head that is written is the only one that changes.
LEMMA NewHeads ==
    ASSUME NEW k, NEW k2, NEW c \in Cpus, NEW kind \in Kinds, NEW v,
           HeadWritten(k, k2, c, kind, v)
    PROVE  Heads(k2) = HeadSet(Heads(k), <<c, kind>>, v)
<1> USE DEF HeadWritten
<1> DEFINE x == <<c, kind>>
           heads2 == HeadSet(Heads(k), x, v)
<1>1. x \in Queues
  BY DEF Queues, Kinds
<1>2. ASSUME NEW y \in Queues PROVE Heads(k2)[y] = IF y = x THEN v ELSE Heads(k)[y]
  <2>1. PICK d \in Cpus, w \in Kinds : y = <<d, w>>
    BY DEF Queues, Kinds
  <2>2. /\ Heads(k)[<<d, "ready">>] = k.sched[d].ReadyQueue
        /\ Heads(k)[<<d, "waiting">>] = k.sched[d].WaitingQueue
        /\ Heads(k)[<<d, "sleeping">>] = k.sched[d].SleepingQueue
    BY HeadIs
  <2>3. /\ Heads(k2)[<<d, "ready">>] = k2.sched[d].ReadyQueue
        /\ Heads(k2)[<<d, "waiting">>] = k2.sched[d].WaitingQueue
        /\ Heads(k2)[<<d, "sleeping">>] = k2.sched[d].SleepingQueue
    BY HeadIs
  <2>4. y = x <=> d = c /\ w = kind
    BY <2>1
  <2> HIDE DEF x
  <2> QED
    BY <2>1, <2>2, <2>3, <2>4 DEF Kinds
<1>3. Heads(k2) = [y \in Queues |-> IF y = x THEN v ELSE Heads(k)[y]]
  BY <1>2 DEF Heads
<1>4. heads2 = [y \in Queues |-> IF y = x THEN v ELSE Heads(k)[y]]
  BY <1>1 DEF Heads, HeadSet
<1> HIDE DEF heads2
<1> QED
  BY <1>3, <1>4 DEF heads2

\* AddThreadToReadyQueue appends a thread that is in no queue.
LEMMA ReadyIs ==
    ASSUME NEW k, NEW q, HasQueues(k, q), NEW c \in Cpus, NEW t \in Threads, Free(t, q),
           k.tcb[t].LastCpu = c
    PROVE  /\ HasQueues(AddThreadToReadyQueue(k, c, t), AppendTo(q, <<c, "ready">>, t))
           /\ Kept(k, AddThreadToReadyQueue(k, c, t))
           /\ AddThreadToReadyQueue(k, c, t).list = k.list
<1> SUFFICES ASSUME NEW k2, k2 = AddThreadToReadyQueue(k, c, t)
             PROVE  /\ HasQueues(k2, AppendTo(q, <<c, "ready">>, t)) /\ Kept(k, k2)
                    /\ k2.list = k.list
  BY Zenon
<1> DEFINE a == k.tcb[t]
           b == [a EXCEPT !.State = "ready", !.LastCpu = c, !.Next = NULL, !.Prev = NULL]
<1>1. k \in Kernels /\ a \in Blocks /\ k.tcb \in [Threads -> Blocks]
  BY KernelIs DEF HasQueues
<1> DEFINE k1 == Put(k, t, b)
<1>2. k2 = Tailed(k1, c, t)
  BY Zenon DEF AddThreadToReadyQueue, Put, Tailed
<1>3. b \in Blocks /\ b.Next = NULL /\ b.Life = a.Life /\ b.LastCpu = c
  <2> HIDE DEF a
  <2> QED
    BY <1>1 DEF Blocks, Links
<1> HIDE DEF b
<1>4. /\ HasQueues(k1, q) /\ k1.sched = k.sched /\ k1.list = k.list
      /\ k1.tcb[t] = b /\ \A u \in Threads : u # t => k1.tcb[u] = k.tcb[u]
  <2>1. HasQueues(Put(k, t, b), q) /\ Replaced(k, Put(k, t, b), t, b)
    BY <1>3, BlockIs, Zenon
  <2> QED
    BY <2>1, Zenon DEF Replaced
<1> HIDE DEF k1
<1>6. k1.tcb[t].Next = NULL
  BY <1>3, <1>4
<1>7. /\ HasQueues(k2, AppendTo(q, <<c, "ready">>, t)) /\ Kept(k1, k2)
      /\ k2.list = k1.list
  <2>1. /\ HasQueues(Tailed(k1, c, t), AppendTo(q, <<c, "ready">>, t)) /\ Kept(k1, Tailed(k1, c, t))
        /\ Tailed(k1, c, t).list = k1.list
    BY <1>4, <1>6, TailIs
  <2> QED
    BY <1>2, <2>1, Zenon
<1>8. \A u \in Threads : k1.tcb[u].Life = k.tcb[u].Life /\ k1.tcb[u].LastCpu = k.tcb[u].LastCpu
  BY <1>3, <1>4
<1> QED
  BY <1>4, <1>7, <1>8 DEF Kept

\* What AddThreadToWaitingQueue and AddThreadToSleepingQueue do, with the head
\* they write.
Queueing(k, c, t, kind) ==
  IF kind = "waiting" THEN AddThreadToWaitingQueue(k, c, t) ELSE AddThreadToSleepingQueue(k, c, t)

\* AddThreadToWaitingQueue and AddThreadToSleepingQueue push a thread that is
\* in no queue.
LEMMA QueueingIs ==
    ASSUME NEW k, NEW q, HasQueues(k, q), NEW c \in Cpus, NEW t \in Threads, Free(t, q),
           NEW kind \in {"waiting", "sleeping"}
    PROVE  /\ HasQueues(Queueing(k, c, t, kind), PushOn(q, <<c, kind>>, t))
           /\ Kept(k, Queueing(k, c, t, kind))
           /\ Queueing(k, c, t, kind).list = k.list
<1> SUFFICES ASSUME NEW k2, k2 = Queueing(k, c, t, kind)
             PROVE  /\ HasQueues(k2, PushOn(q, <<c, kind>>, t)) /\ Kept(k, k2)
                    /\ k2.list = k.list
  BY Zenon
<1> DEFINE x == <<c, kind>>
           head == Heads(k)[x]
           state == IF kind = "waiting" THEN "blocked" ELSE "sleeping"
           a == k.tcb[t]
           b == [a EXCEPT !.State = state, !.Next = head]
           e == k.sched[c]
           e2 == IF kind = "waiting" THEN [e EXCEPT !.WaitingQueue = t]
                 ELSE [e EXCEPT !.SleepingQueue = t]
           tcb2 == [k.tcb EXCEPT ![t] = b]
           sched2 == [k.sched EXCEPT ![c] = e2]
<1>1. /\ k \in Kernels /\ a \in Blocks /\ k.tcb \in [Threads -> Blocks]
      /\ e \in Scheds /\ k.sched \in [Cpus -> Scheds]
      /\ Spells(Nexts(k), Heads(k), q) /\ x \in Queues
  BY KernelIs DEF HasQueues, Queues, Kinds
<1>2. head \in Links /\ t \in Links
  BY <1>1, QueueIs DEF Links
<1>3. k2 = [k EXCEPT !.tcb = tcb2, !.sched = sched2]
  <2>1. CASE kind = "waiting"
    <3>1. head = k.sched[c].WaitingQueue
      BY <2>1, HeadIs
    <3>2. k2 = [k EXCEPT !.tcb[t].State = "blocked", !.tcb[t].Next = head, !.sched[c].WaitingQueue = t]
      BY <2>1, <3>1, Zenon DEF Queueing, AddThreadToWaitingQueue
    <3> DEFINE b1 == [a EXCEPT !.State = "blocked"]
               k1 == [k EXCEPT !.tcb[t].State = "blocked"]
               k3 == [k1 EXCEPT !.tcb[t].Next = head]
    <3>3. b = [b1 EXCEPT !.Next = head] /\ e2 = [e EXCEPT !.WaitingQueue = t]
      BY <2>1
    <3> HIDE DEF head, b1, b, e2
    <3>4. k1 = [k EXCEPT !.tcb = [k.tcb EXCEPT ![t] = b1]]
      BY DEF b1
    <3>5. k1.tcb = [k.tcb EXCEPT ![t] = b1] /\ k1.sched = k.sched
      BY <1>1, <3>4 DEF Kernels
    <3>6. k1.tcb[t] = b1
      BY <1>1, <3>5
    <3>7. k3 = [k1 EXCEPT !.tcb = [k1.tcb EXCEPT ![t] = b]]
      BY <3>3, <3>6
    <3>8. [k1.tcb EXCEPT ![t] = b] = tcb2
      BY <1>1, <3>5
    <3>9. k3 = [k EXCEPT !.tcb = tcb2] /\ k3.sched = k.sched
      <4> HIDE DEF tcb2, k1, k3
      <4> QED
        BY <1>1, <3>4, <3>7, <3>8 DEF Kernels
    <3>10. k2 = [k3 EXCEPT !.sched[c].WaitingQueue = t]
      BY <3>2
    <3> HIDE DEF k3
    <3>11. k2 = [k3 EXCEPT !.sched = sched2]
      BY <3>3, <3>9, <3>10
    <3> HIDE DEF tcb2, sched2
    <3> QED
      BY <1>1, <3>9, <3>11 DEF Kernels
  <2>2. CASE kind = "sleeping"
    <3>1. head = k.sched[c].SleepingQueue
      BY <2>2, HeadIs
    <3>2. k2 = [k EXCEPT !.tcb[t].State = "sleeping", !.tcb[t].Next = head, !.sched[c].SleepingQueue = t]
      BY <2>2, <3>1, Zenon DEF Queueing, AddThreadToSleepingQueue
    <3> DEFINE b1 == [a EXCEPT !.State = "sleeping"]
               k1 == [k EXCEPT !.tcb[t].State = "sleeping"]
               k3 == [k1 EXCEPT !.tcb[t].Next = head]
    <3>3. b = [b1 EXCEPT !.Next = head] /\ e2 = [e EXCEPT !.SleepingQueue = t]
      BY <2>2
    <3> HIDE DEF head, b1, b, e2
    <3>4. k1 = [k EXCEPT !.tcb = [k.tcb EXCEPT ![t] = b1]]
      BY DEF b1
    <3>5. k1.tcb = [k.tcb EXCEPT ![t] = b1] /\ k1.sched = k.sched
      BY <1>1, <3>4 DEF Kernels
    <3>6. k1.tcb[t] = b1
      BY <1>1, <3>5
    <3>7. k3 = [k1 EXCEPT !.tcb = [k1.tcb EXCEPT ![t] = b]]
      BY <3>3, <3>6
    <3>8. [k1.tcb EXCEPT ![t] = b] = tcb2
      BY <1>1, <3>5
    <3>9. k3 = [k EXCEPT !.tcb = tcb2] /\ k3.sched = k.sched
      <4> HIDE DEF tcb2, k1, k3
      <4> QED
        BY <1>1, <3>4, <3>7, <3>8 DEF Kernels
    <3>10. k2 = [k3 EXCEPT !.sched[c].SleepingQueue = t]
      BY <3>2
    <3> HIDE DEF k3
    <3>11. k2 = [k3 EXCEPT !.sched = sched2]
      BY <3>3, <3>9, <3>10
    <3> HIDE DEF tcb2, sched2
    <3> QED
      BY <1>1, <3>9, <3>11 DEF Kernels
  <2> QED
    BY <2>1, <2>2
<1>4. b \in Blocks /\ b.Next = head /\ b.Life = a.Life /\ b.LastCpu = a.LastCpu
  <2>1. state \in {"ready", "running", "blocked", "sleeping"}
    OBVIOUS
  <2> HIDE DEF a, head, state
  <2> QED
    BY <1>1, <1>2, <2>1 DEF Blocks
<1>5. /\ e2 \in Scheds /\ e2.ReadyQueue = e.ReadyQueue /\ e2.ReadyCount = e.ReadyCount
      /\ e2.CurrentThread = e.CurrentThread
      /\ e2.WaitingQueue = (IF kind = "waiting" THEN t ELSE e.WaitingQueue)
      /\ e2.SleepingQueue = (IF kind = "sleeping" THEN t ELSE e.SleepingQueue)
  <2> HIDE DEF e
  <2>1. CASE kind = "waiting"
    BY <1>1, <1>2, <2>1 DEF Scheds
  <2>2. CASE kind = "sleeping"
    BY <1>1, <1>2, <2>2 DEF Scheds
  <2> QED
    BY <2>1, <2>2
<1> HIDE DEF b, e2, head
<1>6. /\ tcb2 \in [Threads -> Blocks] /\ tcb2[t] = b /\ \A u \in Threads : u # t => tcb2[u] = k.tcb[u]
      /\ sched2 \in [Cpus -> Scheds] /\ sched2[c] = e2 /\ \A d \in Cpus : d # c => sched2[d] = k.sched[d]
  BY <1>1, <1>4, <1>5
<1> HIDE DEF tcb2, sched2
<1>7. k2 \in Kernels /\ k2.tcb = tcb2 /\ k2.sched = sched2 /\ k2.list = k.list
  <2>1. k2 = With(k, tcb2, sched2)
    BY <1>3, Zenon DEF With
  <2> QED
    BY <1>1, <1>6, <2>1, StateIs
<1>8. Kept(k, k2)
  BY <1>4, <1>5, <1>6, <1>7 DEF Kept
<1>9. Nexts(k2) = [Nexts(k) EXCEPT ![t] = head]
  <2>1. k2.tcb[t].Next = head /\ \A u \in Threads : u # t => k2.tcb[u].Next = k.tcb[u].Next
    BY <1>4, <1>6, <1>7
  <2> QED
    BY <2>1 DEF Nexts
<1>10. Heads(k2) = [Heads(k) EXCEPT ![x] = t]
  <2>1. HeadWritten(k, k2, c, kind, t)
    BY <1>5, <1>6, <1>7 DEF HeadWritten
  <2>2. kind \in Kinds
    BY DEF Kinds
  <2>3. Heads(k2) = HeadSet(Heads(k), <<c, kind>>, t)
    BY <2>1, <2>2, NewHeads
  <2> QED
    BY <2>3, Zenon DEF HeadSet
<1>11. Spells(Nexts(k2), Heads(k2), [q EXCEPT ![x] = Pushed(@, t)])
  <2>1. Spells([Nexts(k) EXCEPT ![t] = Heads(k)[x]], [Heads(k) EXCEPT ![x] = t],
               [q EXCEPT ![x] = Pushed(@, t)])
    BY <1>1, PushIs, Zenon
  <2> QED
    BY <1>9, <1>10, <2>1, Zenon DEF head
<1>12. \A d \in Cpus : k2.sched[d].ReadyCount = Len([q EXCEPT ![x] = Pushed(@, t)][<<d, "ready">>])
  <2> SUFFICES ASSUME NEW d \in Cpus
               PROVE  k2.sched[d].ReadyCount = Len([q EXCEPT ![x] = Pushed(@, t)][<<d, "ready">>])
    OBVIOUS
  <2>1. <<d, "ready">> # x /\ <<d, "ready">> \in Queues
    BY HeadIs
  <2>2. [q EXCEPT ![x] = Pushed(@, t)][<<d, "ready">>] = q[<<d, "ready">>]
    BY <1>1, <2>1 DEF Spells
  <2>3. k2.sched[d].ReadyCount = k.sched[d].ReadyCount
    BY <1>5, <1>6, <1>7
  <2> QED
    BY <2>2, <2>3 DEF HasQueues
<1> QED
  BY <1>7, <1>8, <1>11, <1>12 DEF HasQueues, PushOn

\* Writing the links of one thread.
SetNext(f, t, v) == [f EXCEPT ![t].Next = v]
SetPrev(f, t, v) == [f EXCEPT ![t].Prev = v]

SameThreads(f, g) ==
  \A t \in Threads : /\ g[t].Life = f[t].Life /\ g[t].LastCpu = f[t].LastCpu
                     /\ g[t].WakeupTime = f[t].WakeupTime /\ g[t].Cooldown = f[t].Cooldown

\* Writing the Next of one thread leaves the rest of every block alone.
LEMMA SetNextIs ==
    ASSUME NEW f \in [Threads -> Blocks], NEW t \in Threads, NEW v \in Links
    PROVE  /\ SetNext(f, t, v) \in [Threads -> Blocks] /\ SameThreads(f, SetNext(f, t, v))
           /\ \A u \in Threads : SetNext(f, t, v)[u].Next = IF u = t THEN v ELSE f[u].Next
<1> DEFINE a == f[t]
           b == [a EXCEPT !.Next = v]
           g == SetNext(f, t, v)
<1>1. a \in Blocks /\ g = [f EXCEPT ![t] = b]
  BY DEF SetNext
<1> HIDE DEF a, g
<1>2. /\ b \in Blocks /\ b.Next = v /\ b.Life = a.Life /\ b.LastCpu = a.LastCpu
      /\ b.WakeupTime = a.WakeupTime /\ b.Cooldown = a.Cooldown
  BY <1>1 DEF Blocks
<1> HIDE DEF b
<1>3. g \in [Threads -> Blocks] /\ g[t] = b /\ \A u \in Threads : u # t => g[u] = f[u]
  BY <1>1, <1>2
<1>4. g \in [Threads -> Blocks] /\ SameThreads(f, g)
      /\ \A u \in Threads : g[u].Next = IF u = t THEN v ELSE f[u].Next
  BY <1>2, <1>3 DEF SameThreads, a
<1> QED
  BY <1>4 DEF g

\* Writing the Prev of one thread leaves the rest of every block alone.
LEMMA SetPrevIs ==
    ASSUME NEW f \in [Threads -> Blocks], NEW t \in Threads, NEW v \in Links
    PROVE  /\ SetPrev(f, t, v) \in [Threads -> Blocks] /\ SameThreads(f, SetPrev(f, t, v))
           /\ \A u \in Threads : SetPrev(f, t, v)[u].Next = f[u].Next
<1> DEFINE a == f[t]
           b == [a EXCEPT !.Prev = v]
           g == SetPrev(f, t, v)
<1>1. a \in Blocks /\ g = [f EXCEPT ![t] = b]
  BY DEF SetPrev
<1> HIDE DEF a, g
<1>2. /\ b \in Blocks /\ b.Next = a.Next /\ b.Life = a.Life /\ b.LastCpu = a.LastCpu
      /\ b.WakeupTime = a.WakeupTime /\ b.Cooldown = a.Cooldown
  BY <1>1 DEF Blocks
<1> HIDE DEF b
<1>3. g \in [Threads -> Blocks] /\ g[t] = b /\ \A u \in Threads : u # t => g[u] = f[u]
  BY <1>1, <1>2
<1>4. g \in [Threads -> Blocks] /\ SameThreads(f, g) /\ \A u \in Threads : g[u].Next = f[u].Next
  BY <1>2, <1>3 DEF SameThreads, a
<1> QED
  BY <1>4 DEF g

\* RemoveThreadFromReadyQueue takes the first thread off the queue.
LEMMA RemoveIs ==
    ASSUME NEW k, NEW q, HasQueues(k, q), NEW c \in Cpus, k.sched[c].ReadyQueue # NULL
    PROVE  /\ q[<<c, "ready">>] # << >> /\ k.sched[c].ReadyQueue = q[<<c, "ready">>][1]
           /\ k.sched[c].ReadyQueue \in Threads
           /\ HasQueues(RemoveThreadFromReadyQueue(k, c), TakeFrom(q, <<c, "ready">>, 1))
           /\ Free(k.sched[c].ReadyQueue, TakeFrom(q, <<c, "ready">>, 1))
           /\ Kept(k, RemoveThreadFromReadyQueue(k, c))
           /\ RemoveThreadFromReadyQueue(k, c).list = k.list
           /\ SameThreads(k.tcb, RemoveThreadFromReadyQueue(k, c).tcb)
<1> DEFINE x == <<c, "ready">>
           t == k.sched[c].ReadyQueue
           next == k.tcb[t].Next
           rest == IF next = NULL THEN k.tcb ELSE SetPrev(k.tcb, next, NULL)
           tcb1 == SetNext(rest, t, NULL)
           tcb2 == SetPrev(tcb1, t, NULL)
           e == k.sched[c]
           e1 == [e EXCEPT !.ReadyQueue = next]
           e2 == [e1 EXCEPT !.ReadyCount = IF @ > 0 THEN @ - 1 ELSE @]
           sched2 == [k.sched EXCEPT ![c] = e2]
           k2 == RemoveThreadFromReadyQueue(k, c)
           q2 == TakeFrom(q, x, 1)
<1>1. /\ k \in Kernels /\ k.tcb \in [Threads -> Blocks] /\ e \in Scheds /\ k.sched \in [Cpus -> Scheds]
      /\ Spells(Nexts(k), Heads(k), q) /\ x \in Queues /\ Heads(k)[x] = t
      /\ e.ReadyCount = Len(q[x])
  BY KernelIs, HeadIs DEF HasQueues
<1>2. /\ q[x] # << >> /\ t = q[x][1] /\ t \in Threads /\ Len(q[x]) \in Nat /\ Len(q[x]) > 0
      /\ q[x] \in Seq(Threads) /\ 1 \in 1 .. Len(q[x])
  <2>1. /\ q[x] \in Seq(Threads) /\ Heads(k)[x] = IF q[x] = << >> THEN NULL ELSE q[x][1]
        /\ \A i \in 1 .. Len(q[x]) : q[x][i] \in Threads
    BY <1>1, QueueIs
  <2>2. q[x] # << >> /\ t = q[x][1]
    BY <1>1, <2>1
  <2>3. Len(q[x]) \in Nat /\ Len(q[x]) > 0
    BY <2>1, <2>2
  <2> HIDE DEF t
  <2> QED
    BY <2>1, <2>2, <2>3
<1>3. next \in Links /\ NULL \in Links /\ Nexts(k)[t] = next
  <2>1. k.tcb[t] \in Blocks
    BY <1>1, <1>2
  <2> HIDE DEF t
  <2> QED
    BY <1>2, <2>1 DEF Blocks, Links, Nexts
<1>4. k2 = With(k, tcb2, sched2)
  <2> DEFINE ka == [k EXCEPT !.sched[c].ReadyQueue = next]
             kb == [ka EXCEPT !.sched[c].ReadyCount = IF @ > 0 THEN @ - 1 ELSE @]
  <2>1. k2 = [kb EXCEPT !.tcb = [rest EXCEPT ![t].Next = NULL, ![t].Prev = NULL]]
    BY DEF RemoveThreadFromReadyQueue, SetPrev
  <2>2. [rest EXCEPT ![t].Next = NULL, ![t].Prev = NULL] = tcb2
    BY Zenon DEF SetNext, SetPrev
  <2> HIDE DEF tcb2, t, next
  <2>3. ka.sched = [k.sched EXCEPT ![c] = e1] /\ ka = [k EXCEPT !.sched = [k.sched EXCEPT ![c] = e1]]
    BY <1>1 DEF Kernels
  <2> HIDE DEF ka
  <2>4. ka.sched[c] = e1
    BY <1>1, <2>3
  <2>5. kb = [ka EXCEPT !.sched = [ka.sched EXCEPT ![c] = e2]]
    BY <2>4
  <2>6. [ka.sched EXCEPT ![c] = e2] = sched2
    BY <1>1, <2>3
  <2> HIDE DEF kb, sched2
  <2>7. k2 = [kb EXCEPT !.tcb = tcb2] /\ kb = [ka EXCEPT !.sched = sched2]
    BY <2>1, <2>2, <2>5, <2>6, Zenon
  <2> HIDE DEF k2
  <2> QED
    BY <1>1, <2>3, <2>7 DEF With, Kernels
<1> HIDE DEF t, next
<1>5. /\ tcb2 \in [Threads -> Blocks] /\ SameThreads(k.tcb, tcb2)
      /\ \A u \in Threads : tcb2[u].Next = IF u = t THEN NULL ELSE k.tcb[u].Next
  <2>1. /\ rest \in [Threads -> Blocks] /\ SameThreads(k.tcb, rest)
        /\ \A u \in Threads : rest[u].Next = k.tcb[u].Next
    <3>1. CASE next = NULL
      BY <1>1, <3>1 DEF SameThreads
    <3>2. CASE next # NULL
      <4>1. next \in Threads
        BY <1>3, <3>2 DEF Links
      <4>2. /\ SetPrev(k.tcb, next, NULL) \in [Threads -> Blocks]
            /\ SameThreads(k.tcb, SetPrev(k.tcb, next, NULL))
            /\ \A u \in Threads : SetPrev(k.tcb, next, NULL)[u].Next = k.tcb[u].Next
        BY <1>1, <1>3, <4>1, SetPrevIs
      <4> QED
        BY <3>2, <4>2
    <3> QED
      BY <3>1, <3>2
  <2> HIDE DEF rest
  <2>2. /\ tcb1 \in [Threads -> Blocks] /\ SameThreads(rest, tcb1)
        /\ \A u \in Threads : tcb1[u].Next = IF u = t THEN NULL ELSE rest[u].Next
    <3>1. t \in Threads /\ NULL \in Links /\ rest \in [Threads -> Blocks]
      BY <1>2, <1>3, <2>1
    <3> QED
      BY <3>1, SetNextIs
  <2> HIDE DEF tcb1
  <2>3. /\ tcb2 \in [Threads -> Blocks] /\ SameThreads(tcb1, tcb2)
        /\ \A u \in Threads : tcb2[u].Next = tcb1[u].Next
    BY <1>2, <1>3, <2>2, SetPrevIs, ZenonT(40)
  <2> HIDE DEF tcb2
  <2> QED
    BY <2>1, <2>2, <2>3 DEF SameThreads
<1>6. /\ e2 \in Scheds /\ e2.ReadyQueue = next /\ e2.ReadyCount = Len(q[x]) - 1
      /\ e2.WaitingQueue = e.WaitingQueue /\ e2.SleepingQueue = e.SleepingQueue
      /\ e2.CurrentThread = e.CurrentThread
  <2> HIDE DEF e
  <2>1. /\ e1 \in Scheds /\ e1.ReadyQueue = next /\ e1.ReadyCount = Len(q[x])
        /\ e1.WaitingQueue = e.WaitingQueue /\ e1.SleepingQueue = e.SleepingQueue
        /\ e1.CurrentThread = e.CurrentThread
    BY <1>1, <1>3 DEF Scheds
  <2> HIDE DEF e1
  <2>2. Len(q[x]) - 1 \in Nat /\ (IF e1.ReadyCount > 0 THEN e1.ReadyCount - 1 ELSE e1.ReadyCount) = Len(q[x]) - 1
    BY <1>2, <2>1
  <2>3. e2 = [e1 EXCEPT !.ReadyCount = Len(q[x]) - 1]
    BY <2>2
  <2> HIDE DEF e2
  <2> QED
    BY <2>1, <2>2, <2>3 DEF Scheds
<1> HIDE DEF tcb2, e2
<1>7. sched2 \in [Cpus -> Scheds] /\ sched2[c] = e2 /\ \A d \in Cpus : d # c => sched2[d] = k.sched[d]
  BY <1>1, <1>6
<1> HIDE DEF sched2
<1>8. k2 \in Kernels /\ k2.tcb = tcb2 /\ k2.sched = sched2 /\ k2.list = k.list
  <2>1. LET k3 == With(k, tcb2, sched2)
        IN  k3 \in Kernels /\ k3.tcb = tcb2 /\ k3.sched = sched2 /\ k3.list = k.list
    BY <1>1, <1>5, <1>7, StateIs
  <2> QED
    BY <1>4, <2>1, Zenon
<1> HIDE DEF k2
<1>9. Kept(k, k2)
  BY <1>5, <1>6, <1>7, <1>8 DEF Kept, SameThreads
<1>10. Nexts(k2) = [Nexts(k) EXCEPT ![t] = NULL]
  BY <1>5, <1>8 DEF Nexts
<1>11. Heads(k2) = HeadSet(Heads(k), x, next)
  <2>1. HeadWritten(k, k2, c, "ready", next)
    BY <1>6, <1>7, <1>8 DEF HeadWritten
  <2>2. "ready" \in Kinds
    BY DEF Kinds
  <2> QED
    BY <2>1, <2>2, NewHeads
<1>12. Spells(Nexts(k), HeadSet(Heads(k), x, next), q2) /\ Free(t, q2)
  <2>1. /\ Spells(IF 1 = 1 THEN Nexts(k) ELSE [Nexts(k) EXCEPT ![q[x][1 - 1]] = Nexts(k)[q[x][1]]],
                  IF 1 = 1 THEN [Heads(k) EXCEPT ![x] = Nexts(k)[q[x][1]]] ELSE Heads(k),
                  [q EXCEPT ![x] = Without(@, 1)])
        /\ Free(q[x][1], [q EXCEPT ![x] = Without(@, 1)])
    BY <1>1, <1>2, UnlinkIs, Zenon
  <2>2. /\ Spells(Nexts(k), [Heads(k) EXCEPT ![x] = Nexts(k)[q[x][1]]], q2) /\ Free(q[x][1], q2)
    BY <2>1, Zenon DEF TakeFrom
  <2> QED
    BY <1>2, <1>3, <2>2, Zenon DEF HeadSet
<1>13. Spells(Nexts(k2), Heads(k2), q2)
  <2>1. Spells([Nexts(k) EXCEPT ![t] = NULL], HeadSet(Heads(k), x, next), q2)
    BY <1>2, <1>3, <1>12, FreeLink, Zenon
  <2> QED
    BY <1>10, <1>11, <2>1, Zenon
<1>14. \A d \in Cpus : k2.sched[d].ReadyCount = Len(q2[<<d, "ready">>])
  <2>1. ASSUME NEW d \in Cpus, d # c PROVE k2.sched[d].ReadyCount = Len(q2[<<d, "ready">>])
    <3>1. <<d, "ready">> # x /\ <<d, "ready">> \in Queues
      BY <2>1, HeadIs
    <3>2. q2[<<d, "ready">>] = q[<<d, "ready">>]
      BY <1>1, <3>1 DEF Spells, TakeFrom
    <3> QED
      BY <1>7, <1>8, <2>1, <3>2 DEF HasQueues
  <2>2. Len(q2[x]) = Len(q[x]) - 1
    <3>1. q2[x] = Without(q[x], 1)
      BY <1>1 DEF TakeFrom, Spells
    <3>2. Without(q[x], 1) = [i \in 1 .. Len(q[x]) - 1 |-> IF i < 1 THEN q[x][i] ELSE q[x][i + 1]]
      BY DEF Without
    <3>3. Len(q[x]) - 1 \in Nat
      BY <1>2
    <3> QED
      BY <3>1, <3>2, <3>3
  <2> QED
    BY <1>6, <1>7, <1>8, <2>1, <2>2
<1>15. HasQueues(k2, q2)
  BY <1>8, <1>13, <1>14 DEF HasQueues
<1>16. SameThreads(k.tcb, k2.tcb)
  BY <1>5, <1>8
<1> QED
  BY <1>2, <1>8, <1>9, <1>12, <1>15, <1>16 DEF k2, t

\* The thread before position i of the sleeping queue of c, or NULL.
Before(q, c, i) == IF i = 1 THEN NULL ELSE q[<<c, "sleeping">>][i - 1]

\* Unlink takes the thread at position i off the sleeping queue.
LEMMA UnlinkedIs ==
    ASSUME NEW k, NEW q, HasQueues(k, q), NEW c \in Cpus, NEW i \in 1 .. Len(q[<<c, "sleeping">>])
    PROVE  LET t == q[<<c, "sleeping">>][i]
               k2 == Unlink(k, c, Before(q, c, i), t)
           IN  /\ HasQueues(k2, TakeFrom(q, <<c, "sleeping">>, i)) /\ Kept(k, k2)
               /\ Free(t, TakeFrom(q, <<c, "sleeping">>, i)) /\ t \in Threads
               /\ k2.list = k.list /\ SameThreads(k.tcb, k2.tcb)
<1> DEFINE x == <<c, "sleeping">>
           t == q[x][i]
           prev == Before(q, c, i)
           next == k.tcb[t].Next
           e == k.sched[c]
           e2 == IF i = 1 THEN [e EXCEPT !.SleepingQueue = next] ELSE e
           sched2 == [k.sched EXCEPT ![c] = e2]
           tcb2 == IF i = 1 THEN k.tcb ELSE SetNext(k.tcb, prev, next)
           k2 == Unlink(k, c, prev, t)
           q2 == TakeFrom(q, x, i)
           nx2 == IF i = 1 THEN Nexts(k) ELSE [Nexts(k) EXCEPT ![q[x][i - 1]] = Nexts(k)[q[x][i]]]
           heads2 == IF i = 1 THEN [Heads(k) EXCEPT ![x] = Nexts(k)[q[x][1]]] ELSE Heads(k)
<1>1. /\ k \in Kernels /\ k.tcb \in [Threads -> Blocks] /\ e \in Scheds /\ k.sched \in [Cpus -> Scheds]
      /\ Spells(Nexts(k), Heads(k), q) /\ x \in Queues
  BY KernelIs, HeadIs DEF HasQueues
<1>2. /\ \A j \in 1 .. Len(q[x]) : q[x][j] \in Threads /\ q[x][j] # NULL
      /\ q[x] \in Seq(Threads) /\ Len(q[x]) \in Nat
  BY <1>1, QueueIs, SMTT(30)
<1>3. t \in Threads /\ (i # 1 => prev \in Threads /\ prev # NULL /\ prev = q[x][i - 1]) /\ (i = 1 => prev = NULL)
  <2>1. i # 1 => i - 1 \in 1 .. Len(q[x])
    BY <1>2
  <2> QED
    BY <1>2, <2>1 DEF Before
<1> HIDE DEF t, prev
<1>4. next \in Links /\ Nexts(k)[t] = next
  <2>1. k.tcb[t] \in Blocks
    BY <1>1, <1>3
  <2> QED
    BY <1>3, <2>1 DEF Blocks, Nexts
<1> HIDE DEF next
<1>5. e2 \in Scheds /\ e2.ReadyQueue = e.ReadyQueue /\ e2.WaitingQueue = e.WaitingQueue
      /\ e2.SleepingQueue = (IF i = 1 THEN next ELSE e.SleepingQueue)
      /\ e2.CurrentThread = e.CurrentThread /\ e2.ReadyCount = e.ReadyCount
  <2> HIDE DEF e
  <2> QED
    BY <1>1, <1>4 DEF Scheds
<1>6. k2 = With(k, tcb2, sched2)
  <2>1. CASE i = 1
    <3>1. k2 = [k EXCEPT !.sched[c].SleepingQueue = next]
      BY <1>3, <2>1, Zenon DEF Unlink, next
    <3>2. k2 = [k EXCEPT !.sched = sched2]
      BY <2>1, <3>1
    <3>3. tcb2 = k.tcb
      BY <2>1
    <3> HIDE DEF sched2, tcb2, k2
    <3> QED
      BY <1>1, <3>2, <3>3 DEF With, Kernels
  <2>2. CASE i # 1
    <3>1. k2 = [k EXCEPT !.tcb[prev].Next = next]
      BY <1>3, <2>2, Zenon DEF Unlink, next
    <3>2. k2 = [k EXCEPT !.tcb = tcb2]
      BY <2>2, <3>1 DEF SetNext
    <3>3. sched2 = k.sched
      BY <1>1, <2>2
    <3> HIDE DEF sched2, tcb2, k2
    <3> QED
      BY <1>1, <3>2, <3>3 DEF With, Kernels
  <2> QED
    BY <2>1, <2>2
<1>7. /\ tcb2 \in [Threads -> Blocks] /\ SameThreads(k.tcb, tcb2)
      /\ \A u \in Threads : tcb2[u].Next = IF i # 1 /\ u = prev THEN next ELSE k.tcb[u].Next
  <2>1. CASE i = 1
    BY <1>1, <2>1 DEF SameThreads
  <2>2. CASE i # 1
    <3>1. /\ SetNext(k.tcb, prev, next) \in [Threads -> Blocks]
          /\ SameThreads(k.tcb, SetNext(k.tcb, prev, next))
          /\ \A u \in Threads : SetNext(k.tcb, prev, next)[u].Next = IF u = prev THEN next ELSE k.tcb[u].Next
      BY <1>1, <1>3, <1>4, <2>2, SetNextIs
    <3> QED
      BY <2>2, <3>1
  <2> QED
    BY <2>1, <2>2
<1> HIDE DEF tcb2, e2
<1>8. sched2 \in [Cpus -> Scheds] /\ sched2[c] = e2 /\ \A d \in Cpus : d # c => sched2[d] = k.sched[d]
  BY <1>1, <1>5
<1> HIDE DEF sched2
<1>9. k2 \in Kernels /\ k2.tcb = tcb2 /\ k2.sched = sched2 /\ k2.list = k.list
  <2>1. LET k3 == With(k, tcb2, sched2)
        IN  k3 \in Kernels /\ k3.tcb = tcb2 /\ k3.sched = sched2 /\ k3.list = k.list
    BY <1>1, <1>7, <1>8, StateIs
  <2> QED
    BY <1>6, <2>1, Zenon
<1> HIDE DEF k2
<1>10. Kept(k, k2)
  BY <1>5, <1>7, <1>8, <1>9 DEF Kept, SameThreads
<1>11. Nexts(k2) = nx2
  <2>1. CASE i = 1
    BY <1>7, <1>9, <2>1 DEF Nexts
  <2>2. CASE i # 1
    <3>1. nx2 = [Nexts(k) EXCEPT ![prev] = next]
      BY <1>3, <1>4, <2>2, Zenon DEF t
    <3> HIDE DEF nx2
    <3>2. \A u \in Threads : k2.tcb[u].Next = IF u = prev THEN next ELSE k.tcb[u].Next
      BY <1>7, <1>9, <2>2
    <3> QED
      BY <3>1, <3>2 DEF Nexts
  <2> QED
    BY <2>1, <2>2
<1>12. Heads(k2) = heads2
  <2>1. CASE i = 1
    <3>1. HeadWritten(k, k2, c, "sleeping", next)
      BY <1>5, <1>8, <1>9, <2>1 DEF HeadWritten
    <3>2. "sleeping" \in Kinds
      BY DEF Kinds
    <3>3. Heads(k2) = HeadSet(Heads(k), <<c, "sleeping">>, next)
      BY <3>1, <3>2, NewHeads
    <3>4. Nexts(k)[q[x][1]] = next
      BY <1>4, <2>1 DEF t
    <3> QED
      BY <2>1, <3>3, <3>4, Zenon DEF HeadSet
  <2>2. CASE i # 1
    <3>1. k2.sched = k.sched
      BY <1>1, <1>9, <2>2 DEF sched2, e2
    <3> QED
      BY <2>2, <3>1 DEF Heads
  <2> QED
    BY <2>1, <2>2
<1>13. Spells(nx2, heads2, q2) /\ Free(t, q2)
  <2>1. /\ Spells(nx2, heads2, [q EXCEPT ![x] = Without(@, i)])
        /\ Free(q[x][i], [q EXCEPT ![x] = Without(@, i)])
    BY <1>1, UnlinkIs, Zenon
  <2> QED
    BY <2>1, Zenon DEF TakeFrom, t
<1> HIDE DEF nx2, heads2
<1>14. Spells(Nexts(k2), Heads(k2), q2)
  BY <1>11, <1>12, <1>13, Zenon
<1>15. \A d \in Cpus : k2.sched[d].ReadyCount = Len(q2[<<d, "ready">>])
  <2> SUFFICES ASSUME NEW d \in Cpus PROVE k2.sched[d].ReadyCount = Len(q2[<<d, "ready">>])
    OBVIOUS
  <2>1. <<d, "ready">> # x /\ <<d, "ready">> \in Queues
    BY HeadIs
  <2>2. q2[<<d, "ready">>] = q[<<d, "ready">>]
    BY <1>1, <2>1 DEF Spells, TakeFrom
  <2>3. k2.sched[d].ReadyCount = k.sched[d].ReadyCount
    BY <1>5, <1>8, <1>9
  <2> QED
    BY <2>2, <2>3 DEF HasQueues
<1>16. HasQueues(k2, q2)
  BY <1>9, <1>14, <1>15 DEF HasQueues
<1> QED
  BY <1>3, <1>7, <1>9, <1>10, <1>13, <1>16, Zenon DEF k2, t, prev

\* WakeOne moves the thread at position i of the sleeping queue to the end of
\* the ready queue.
LEMMA WakeOneIs ==
    ASSUME NEW k, NEW q, HasQueues(k, q), NEW c \in Cpus, NEW i \in 1 .. Len(q[<<c, "sleeping">>])
    PROVE  LET t == q[<<c, "sleeping">>][i]
               k2 == WakeOne(k, c, Before(q, c, i), t)
           IN  /\ HasQueues(k2, AppendTo(TakeFrom(q, <<c, "sleeping">>, i), <<c, "ready">>, t))
               /\ Kept(k, k2) /\ k2.list = k.list
<1> DEFINE t == q[<<c, "sleeping">>][i]
           k1 == Unlink(k, c, Before(q, c, i), t)
           q1 == TakeFrom(q, <<c, "sleeping">>, i)
           a == k1.tcb[t]
           b == [a EXCEPT !.State = "ready", !.WaitReason = "none", !.WakeupTime = 0,
                          !.Next = NULL, !.Prev = NULL]
           k3 == Put(k1, t, b)
           k2 == WakeOne(k, c, Before(q, c, i), t)
<1>1. /\ HasQueues(k1, q1) /\ Kept(k, k1) /\ Free(t, q1) /\ t \in Threads /\ k1.list = k.list
  BY UnlinkedIs, Zenon
<1>2. k2 = Tailed(k3, c, t)
  BY Zenon DEF WakeOne, Put, Tailed
<1> HIDE DEF k1, q1, k2, t
<1>3. b \in Blocks /\ b.Next = NULL /\ b.Life = a.Life /\ b.LastCpu = a.LastCpu
  <2>1. a \in Blocks
    BY <1>1, KernelIs DEF HasQueues
  <2> HIDE DEF a
  <2> QED
    BY <2>1 DEF Blocks, Links
<1> HIDE DEF b
<1>4. HasQueues(k3, q1) /\ Replaced(k1, k3, t, b)
  BY <1>1, <1>3, BlockIs, Zenon
<1> HIDE DEF k3
<1>5. k3.tcb[t].Next = NULL /\ Kept(k1, k3) /\ k3.list = k1.list
  BY <1>3, <1>4 DEF Replaced, Kept
<1>6. /\ HasQueues(Tailed(k3, c, t), AppendTo(q1, <<c, "ready">>, t)) /\ Kept(k3, Tailed(k3, c, t))
      /\ Tailed(k3, c, t).list = k3.list
  BY <1>1, <1>4, <1>5, TailIs
<1>7. Kept(k, k2)
  <2>1. Kept(k3, k2)
    BY <1>2, <1>6, Zenon
  <2> QED
    BY <1>1, <1>5, <2>1 DEF Kept
<1> QED
  BY <1>1, <1>2, <1>5, <1>6, <1>7, Zenon DEF k2, q1, t

-----------------------------------------------------------------------------
(* The threads that are queued on a CPU *)

Members(s) == {s[i] : i \in 1 .. Len(s)}

\* The queues of c have one thread more, those of the other CPUs the same.
Gains(q, q2, c, t) ==
  \A d \in Cpus : On(q2, d) = IF d = c THEN On(q, d) \cup {t} ELSE On(q, d)

\* A queue that gains a member gains it for its CPU.
LEMMA OnGains ==
    ASSUME NEW q, NEW q2, NEW c \in Cpus, NEW kind \in Kinds, NEW t \in Threads,
           \A y \in Queues : y # <<c, kind>> => q2[y] = q[y],
           Members(q2[<<c, kind>>]) = Members(q[<<c, kind>>]) \cup {t}
    PROVE  Gains(q, q2, c, t)
<1> DEFINE x == <<c, kind>>
<1>1. x \in Queues /\ x[1] = c
  BY DEF Queues
<1>2. \A d \in Cpus, u \in Threads :
        u \in On(q, d) <=> \E y \in Queues : y[1] = d /\ u \in Members(q[y])
  BY DEF On, Members
<1>3. \A d \in Cpus, u \in Threads :
        u \in On(q2, d) <=> \E y \in Queues : y[1] = d /\ u \in Members(q2[y])
  BY DEF On, Members
<1>4. ASSUME NEW d \in Cpus, NEW u \in Threads
      PROVE  (\E y \in Queues : y[1] = d /\ u \in Members(q2[y]))
               <=> (\E y \in Queues : y[1] = d /\ u \in Members(q[y])) \/ (d = c /\ u = t)
  <2> HIDE DEF x
  <2>1. \A y \in Queues : y # x => q2[y] = q[y]
    BY DEF x
  <2>2. Members(q2[x]) = Members(q[x]) \cup {t}
    BY DEF x
  <2>3. ASSUME NEW y \in Queues, y[1] = d, u \in Members(q2[y])
        PROVE  (\E z \in Queues : z[1] = d /\ u \in Members(q[z])) \/ (d = c /\ u = t)
    BY <1>1, <2>1, <2>2, <2>3
  <2>4. ASSUME NEW y \in Queues, y[1] = d, u \in Members(q[y])
        PROVE  \E z \in Queues : z[1] = d /\ u \in Members(q2[z])
    BY <1>1, <2>1, <2>2, <2>4
  <2>5. ASSUME d = c, u = t
        PROVE  \E z \in Queues : z[1] = d /\ u \in Members(q2[z])
    BY <1>1, <2>2, <2>5
  <2> QED
    BY <2>3, <2>4, <2>5
<1> HIDE DEF x
<1>5. ASSUME NEW d \in Cpus
      PROVE  On(q2, d) = IF d = c THEN On(q, d) \cup {t} ELSE On(q, d)
  <2>1. \A u \in Threads : u \in On(q2, d) <=> u \in On(q, d) \/ (d = c /\ u = t)
    BY <1>2, <1>3, <1>4
  <2>2. On(q, d) \subseteq Threads /\ On(q2, d) \subseteq Threads
    BY Zenon DEF On
  <2> QED
    BY <2>1, <2>2
<1> QED
  BY <1>5 DEF Gains

\* A CPU gains the thread that is appended to one of its queues.
LEMMA AppendGains ==
    ASSUME NEW q \in [Queues -> Seq(Threads)], NEW c \in Cpus, NEW kind \in Kinds, NEW t \in Threads
    PROVE  Gains(q, AppendTo(q, <<c, kind>>, t), c, t)
<1> DEFINE x == <<c, kind>>
           q2 == AppendTo(q, x, t)
           s == q[x]
<1>1. x \in Queues
  BY DEF Queues
<1>2. q2[x] = Append(s, t) /\ \A y \in Queues : y # x => q2[y] = q[y]
  BY <1>1 DEF AppendTo
<1>3. s \in Seq(Threads) /\ Len(s) \in Nat
  BY <1>1
<1> HIDE DEF s, q2
<1>4. Members(Append(s, t)) = Members(s) \cup {t}
  <2> DEFINE s2 == Append(s, t)
  <2>1. Len(s2) = Len(s) + 1 /\ s2[Len(s) + 1] = t /\ \A i \in 1 .. Len(s) : s2[i] = s[i]
    BY <1>3
  <2> HIDE DEF s2
  <2>2. \A i \in 1 .. Len(s2) : i \in 1 .. Len(s) \/ i = Len(s) + 1
    BY <1>3, <2>1
  <2>3. \A i \in 1 .. Len(s) : i \in 1 .. Len(s2)
    BY <1>3, <2>1
  <2>4. Len(s) + 1 \in 1 .. Len(s2)
    BY <1>3, <2>1
  <2>5. Members(s2) = Members(s) \cup {t}
    BY <2>1, <2>2, <2>3, <2>4 DEF Members
  <2> QED
    BY <2>5 DEF s2
<1>5. Members(q2[x]) = Members(q[x]) \cup {t}
  BY <1>2, <1>4 DEF s
<1>6. Gains(q, q2, c, t)
  BY <1>2, <1>5, OnGains
<1> QED
  BY <1>6 DEF q2

\* A CPU gains the thread that is pushed on one of its queues.
LEMMA PushGains ==
    ASSUME NEW q \in [Queues -> Seq(Threads)], NEW c \in Cpus, NEW kind \in Kinds, NEW t \in Threads
    PROVE  Gains(q, PushOn(q, <<c, kind>>, t), c, t)
<1> DEFINE x == <<c, kind>>
           q2 == PushOn(q, x, t)
           s == q[x]
<1>1. x \in Queues
  BY DEF Queues
<1>2. q2[x] = Pushed(s, t) /\ \A y \in Queues : y # x => q2[y] = q[y]
  BY <1>1 DEF PushOn
<1>3. s \in Seq(Threads) /\ Len(s) \in Nat
  BY <1>1
<1> HIDE DEF s, q2
<1>4. Members(Pushed(s, t)) = Members(s) \cup {t}
  <2> DEFINE s2 == Pushed(s, t)
  <2>1. s2 = [i \in 1 .. Len(s) + 1 |-> IF i = 1 THEN t ELSE s[i - 1]]
    BY DEF Pushed
  <2> HIDE DEF s2
  <2>2. Len(s2) = Len(s) + 1
    BY <1>3, <2>1
  <2>3. \A i \in 1 .. Len(s2) : s2[i] = IF i = 1 THEN t ELSE s[i - 1]
    BY <2>1, <2>2
  <2>4. \A i \in 1 .. Len(s2) : i # 1 => i - 1 \in 1 .. Len(s)
    BY <1>3, <2>2
  <2>5. \A i \in 1 .. Len(s) : i + 1 \in 1 .. Len(s2) /\ i + 1 # 1 /\ (i + 1) - 1 = i
    BY <1>3, <2>2
  <2>6. 1 \in 1 .. Len(s2)
    BY <1>3, <2>2
  <2>7. \A u \in Members(s2) : u \in Members(s) \cup {t}
    BY <2>3, <2>4 DEF Members
  <2>8. \A u \in Members(s) : u \in Members(s2)
    <3> SUFFICES ASSUME NEW i \in 1 .. Len(s) PROVE s[i] \in Members(s2)
      BY DEF Members
    <3>1. s2[i + 1] = s[i] /\ i + 1 \in 1 .. Len(s2)
      BY <2>3, <2>5
    <3> QED
      BY <3>1 DEF Members
  <2>9. t \in Members(s2)
    BY <2>3, <2>6 DEF Members
  <2>10. Members(s2) = Members(s) \cup {t}
    BY <2>7, <2>8, <2>9
  <2> QED
    BY <2>10 DEF s2
<1>5. Members(q2[x]) = Members(q[x]) \cup {t}
  BY <1>2, <1>4 DEF s
<1>6. Gains(q, q2, c, t)
  BY <1>2, <1>5, OnGains
<1> QED
  BY <1>6 DEF q2

\* A CPU has the queued threads it had, with the one taken off put back.
LEMMA TakeGains ==
    ASSUME NEW q \in [Queues -> Seq(Threads)], NEW c \in Cpus, NEW kind \in Kinds,
           NEW n \in 1 .. Len(q[<<c, kind>>])
    PROVE  Gains(TakeFrom(q, <<c, kind>>, n), q, c, q[<<c, kind>>][n])
<1> DEFINE x == <<c, kind>>
           q2 == TakeFrom(q, x, n)
           s == q[x]
           t == s[n]
<1>1. x \in Queues
  BY DEF Queues
<1>2. q2[x] = Without(s, n) /\ \A y \in Queues : y # x => q2[y] = q[y]
  BY <1>1 DEF TakeFrom
<1>3. s \in Seq(Threads) /\ Len(s) \in Nat /\ n \in 1 .. Len(s) /\ t \in Threads
  BY <1>1
<1> HIDE DEF s, q2
<1>4. Members(s) = Members(Without(s, n)) \cup {t}
  <2> DEFINE s2 == Without(s, n)
  <2>1. s2 = [i \in 1 .. Len(s) - 1 |-> IF i < n THEN s[i] ELSE s[i + 1]]
    BY DEF Without
  <2> HIDE DEF s2
  <2>2. Len(s2) = Len(s) - 1
    BY <1>3, <2>1
  <2>3. \A i \in 1 .. Len(s2) : s2[i] = IF i < n THEN s[i] ELSE s[i + 1]
    BY <2>1, <2>2
  <2>4. \A i \in 1 .. Len(s2) : i \in 1 .. Len(s) /\ i + 1 \in 1 .. Len(s)
    BY <1>3, <2>2
  <2>5. ASSUME NEW i \in 1 .. Len(s), i # n PROVE s[i] \in Members(s2)
    <3>1. CASE i < n
      <4>1. i \in 1 .. Len(s2) /\ s2[i] = s[i]
        BY <1>3, <2>2, <2>3, <3>1
      <4> QED
        BY <4>1 DEF Members
    <3>2. CASE i > n
      <4>1. i - 1 \in 1 .. Len(s2) /\ ~(i - 1 < n) /\ (i - 1) + 1 = i
        BY <1>3, <2>2, <3>2
      <4>2. s2[i - 1] = s[i]
        BY <2>3, <4>1
      <4> QED
        BY <4>1, <4>2 DEF Members
    <3> QED
      BY <1>3, <2>5, <3>1, <3>2
  <2>6. \A u \in Members(s2) : u \in Members(s)
    BY <2>3, <2>4 DEF Members
  <2>7. t \in Members(s)
    BY <1>3 DEF Members
  <2>8. \A u \in Members(s) : u \in Members(s2) \cup {t}
    <3> SUFFICES ASSUME NEW i \in 1 .. Len(s) PROVE s[i] \in Members(s2) \cup {t}
      BY DEF Members
    <3> QED
      BY <2>5
  <2>9. Members(s) = Members(s2) \cup {t}
    BY <2>6, <2>7, <2>8
  <2> QED
    BY <2>9 DEF s2
<1> HIDE DEF t
<1>5. Members(q[x]) = Members(q2[x]) \cup {t}
  BY <1>2, <1>4 DEF s
<1>6. Gains(q2, q, c, t)
  BY <1>2, <1>3, <1>5, OnGains
<1> QED
  BY <1>6 DEF q2, t, s

-----------------------------------------------------------------------------
(* Waking the sleepers *)

SameHomes(q, q2) == \A d \in Cpus : On(q2, d) = On(q, d)

Accs == [k : Kernels, prev : Links]

\* One turn of the loop over the sleeping queue.
WakeTurn(c, acc, t) ==
  IF acc.k.tcb[t].WakeupTime = 0 THEN [acc EXCEPT !.k = WakeOne(acc.k, c, acc.prev, t)]
  ELSE [acc EXCEPT !.prev = t]

\* The queues q2 after m turns of the loop that started in k, with the queues
\* q: the sleepers still to be looked at begin at position j, prev is the one
\* before it.
LoopQueues(k, q, c, m, acc, q2, j) ==
  LET s  == q[<<c, "sleeping">>]
      s2 == q2[<<c, "sleeping">>]
  IN  /\ HasQueues(acc.k, q2) /\ Kept(k, acc.k) /\ acc.k.list = k.list /\ SameHomes(q, q2)
      /\ acc.prev = Before(q2, c, j)
      /\ Len(s2) = (j - 1) + (Len(s) - m)
      /\ \A i \in 1 .. Len(s) - m : s2[(j - 1) + i] = s[m + i]

WakeLoop(k, q, c, m, acc) ==
  acc \in Accs /\ \E q2, j : j \in Nat \ {0} /\ LoopQueues(k, q, c, m, acc, q2, j)

\* One turn of the loop of WakeupSleepingThreads: the sleeper is moved or
\* stays, and the queues stay correctly linked.
LEMMA WakeStep ==
    ASSUME NEW k, NEW q, HasQueues(k, q), NEW c \in Cpus, NEW m \in Nat,
           m < Len(q[<<c, "sleeping">>]), NEW acc, WakeLoop(k, q, c, m, acc)
    PROVE  WakeLoop(k, q, c, m + 1, WakeTurn(c, acc, q[<<c, "sleeping">>][m + 1]))
<1> DEFINE x == <<c, "sleeping">>
           r == <<c, "ready">>
           s == q[x]
           t == s[m + 1]
           acc2 == WakeTurn(c, acc, t)
<1>1. PICK q2, j : j \in Nat \ {0} /\ LoopQueues(k, q, c, m, acc, q2, j)
  BY Zenon DEF WakeLoop
<1> DEFINE s2 == q2[x]
<1>2. /\ HasQueues(acc.k, q2) /\ Kept(k, acc.k) /\ acc.k.list = k.list /\ SameHomes(q, q2)
      /\ acc.prev = Before(q2, c, j)
      /\ Len(s2) = (j - 1) + (Len(s) - m)
      /\ \A i \in 1 .. Len(s) - m : s2[(j - 1) + i] = s[m + i]
  BY <1>1, Zenon DEF LoopQueues
<1>3. /\ x \in Queues /\ r \in Queues /\ x # r /\ "sleeping" \in Kinds /\ "ready" \in Kinds
      /\ q2 \in [Queues -> Seq(Threads)] /\ acc.k \in Kernels
      /\ Spells(Nexts(acc.k), Heads(acc.k), q2)
  BY <1>2, HeadIs DEF HasQueues, Spells, Kinds
<1>4. /\ s \in Seq(Threads) /\ Len(s) \in Nat
      /\ s2 \in Seq(Threads) /\ Len(s2) \in Nat /\ \A i \in 1 .. Len(s2) : s2[i] \in Threads
  <2>1. Spells(Nexts(k), Heads(k), q)
    BY DEF HasQueues
  <2> QED
    BY <1>3, <2>1, QueueIs
<1>5. j \in 1 .. Len(s2) /\ s2[j] = t /\ t \in Threads /\ t \in Links /\ j \in Nat /\ j >= 1
  <2>1. m < Len(s) /\ j \in Nat /\ j >= 1
    BY <1>1
  <2>2. 1 \in 1 .. Len(s) - m /\ (j - 1) + 1 = j
    BY <1>4, <2>1
  <2>3. s2[(j - 1) + 1] = t
    BY <1>2, <2>2
  <2> HIDE DEF s2, s
  <2>4. j \in 1 .. Len(s2) /\ s2[j] = t
    BY <1>2, <1>4, <2>1, <2>2, <2>3
  <2> HIDE DEF t
  <2>5. t \in Threads
    BY <1>4, <2>4
  <2> QED
    BY <2>1, <2>4, <2>5 DEF Links
<1>6. acc \in Accs
  BY DEF WakeLoop
<1> HIDE DEF s, s2, t
<1>7. CASE acc.k.tcb[t].WakeupTime = 0
  <2> DEFINE k2 == WakeOne(acc.k, c, Before(q2, c, j), t)
             q1 == TakeFrom(q2, x, j)
             q3 == AppendTo(q1, r, t)
             s3 == q3[x]
  <2>1. acc2 = [acc EXCEPT !.k = k2]
    BY <1>2, <1>7, Zenon DEF WakeTurn
  <2>2. HasQueues(k2, q3) /\ Kept(acc.k, k2) /\ k2.list = acc.k.list
    <3>1. LET u == q2[x][j]
              k3 == WakeOne(acc.k, c, Before(q2, c, j), u)
          IN  /\ HasQueues(k3, AppendTo(TakeFrom(q2, x, j), r, u))
              /\ Kept(acc.k, k3) /\ k3.list = acc.k.list
      BY <1>2, <1>5, WakeOneIs DEF s2
    <3> QED
      BY <1>5, <3>1, Zenon DEF s2
  <2>3. SameHomes(q, q3)
    <3>1. Gains(q1, q2, c, t)
      <4>1. Gains(TakeFrom(q2, <<c, "sleeping">>, j), q2, c, q2[<<c, "sleeping">>][j])
        BY <1>3, <1>5, TakeGains DEF s2
      <4> QED
        BY <1>5, <4>1, Zenon DEF s2
    <3>2. Gains(q1, q3, c, t)
      <4>1. q1 \in [Queues -> Seq(Threads)]
        <5>1. LET u == q2[x][j]
                  k3 == Unlink(acc.k, c, Before(q2, c, j), u)
              IN  HasQueues(k3, TakeFrom(q2, x, j))
          BY <1>2, <1>5, UnlinkedIs DEF s2
        <5> QED
          BY <5>1, Zenon DEF HasQueues, Spells
      <4> HIDE DEF q1
      <4> QED
        BY <1>3, <1>5, <4>1, AppendGains
    <3> QED
      BY <1>2, <3>1, <3>2 DEF Gains, SameHomes
  <2>4. s3 = Without(s2, j)
    BY <1>3 DEF AppendTo, TakeFrom, s2
  <2>5. /\ Len(s3) = Len(s2) - 1
        /\ \A i \in 1 .. Len(s2) - 1 : s3[i] = IF i < j THEN s2[i] ELSE s2[i + 1]
    <3> HIDE DEF s3
    <3>1. s3 = [i \in 1 .. Len(s2) - 1 |-> IF i < j THEN s2[i] ELSE s2[i + 1]]
      BY <2>4 DEF Without
    <3>2. Len(s2) - 1 \in Nat
      BY <1>4, <1>5
    <3> QED
      BY <3>1, <3>2
  <2>6. Before(q3, c, j) = Before(q2, c, j)
    <3>1. Before(q3, c, j) = IF j = 1 THEN NULL ELSE s3[j - 1]
      BY DEF Before
    <3>2. Before(q2, c, j) = IF j = 1 THEN NULL ELSE s2[j - 1]
      BY DEF Before, s2
    <3> HIDE DEF s3, q3
    <3>3. j # 1 => s3[j - 1] = s2[j - 1]
      <4>1. j # 1 => j - 1 \in 1 .. Len(s2) - 1 /\ j - 1 < j
        BY <1>4, <1>5
      <4> QED
        BY <2>5, <4>1
    <3> QED
      BY <3>1, <3>2, <3>3
  <2> HIDE DEF s3
  <2>7. Len(s3) = (j - 1) + (Len(s) - (m + 1))
    BY <1>2, <1>4, <1>5, <2>5
  <2>8. ASSUME NEW i \in 1 .. Len(s) - (m + 1) PROVE s3[(j - 1) + i] = s[(m + 1) + i]
    <3>1. /\ (j - 1) + i \in 1 .. Len(s2) - 1 /\ ~((j - 1) + i < j)
          /\ ((j - 1) + i) + 1 = (j - 1) + (i + 1)
      BY <1>2, <1>4, <1>5
    <3>2. i + 1 \in 1 .. Len(s) - m /\ m + (i + 1) = (m + 1) + i
      BY <1>4
    <3>3. s3[(j - 1) + i] = s2[(j - 1) + (i + 1)]
      BY <2>5, <3>1
    <3>4. s2[(j - 1) + (i + 1)] = s[m + (i + 1)]
      BY <1>2, <3>2
    <3> QED
      BY <3>2, <3>3, <3>4
  <2>9. Kept(k, k2) /\ k2.list = k.list
    BY <1>2, <2>2 DEF Kept
  <2>10. k2 \in Kernels
    BY <2>2 DEF HasQueues
  <2> HIDE DEF k2
  <2>11. acc2 \in Accs /\ acc2.k = k2 /\ acc2.prev = acc.prev
    <3> HIDE DEF acc2
    <3> QED
      BY <1>6, <2>1, <2>10 DEF Accs
  <2> HIDE DEF acc2, q3
  <2>12. LoopQueues(k, q, c, m + 1, acc2, q3, j)
    BY <1>2, <2>2, <2>3, <2>6, <2>7, <2>8, <2>9, <2>11, Zenon DEF LoopQueues, s, s3
  <2>13. WakeLoop(k, q, c, m + 1, acc2)
    BY <1>1, <2>11, <2>12, Zenon DEF WakeLoop
  <2> QED
    BY <2>13 DEF acc2, t, s
<1>8. CASE acc.k.tcb[t].WakeupTime # 0
  <2>1. acc2 = [acc EXCEPT !.prev = t]
    BY <1>8, Zenon DEF WakeTurn
  <2>2. acc2 \in Accs /\ acc2.k = acc.k /\ acc2.prev = t
    <3> HIDE DEF acc2
    <3> QED
      BY <1>5, <1>6, <2>1 DEF Accs
  <2> HIDE DEF acc2
  <2>3. Before(q2, c, j + 1) = t
    BY <1>5 DEF Before, s2
  <2>4. Len(s2) = ((j + 1) - 1) + (Len(s) - (m + 1))
    BY <1>2, <1>4, <1>5
  <2>5. ASSUME NEW i \in 1 .. Len(s) - (m + 1) PROVE s2[((j + 1) - 1) + i] = s[(m + 1) + i]
    <3>1. /\ i + 1 \in 1 .. Len(s) - m /\ m + (i + 1) = (m + 1) + i
          /\ (j - 1) + (i + 1) = ((j + 1) - 1) + i
      BY <1>4, <1>5
    <3>2. s2[(j - 1) + (i + 1)] = s[m + (i + 1)]
      BY <1>2, <3>1
    <3> QED
      BY <3>1, <3>2
  <2>6. LoopQueues(k, q, c, m + 1, acc2, q2, j + 1)
    BY <1>2, <2>2, <2>3, <2>4, <2>5, Zenon DEF LoopQueues, s, s2
  <2>7. j + 1 \in Nat \ {0}
    BY <1>5
  <2>8. WakeLoop(k, q, c, m + 1, acc2)
    BY <2>2, <2>6, <2>7, Zenon DEF WakeLoop
  <2> QED
    BY <2>8 DEF acc2, t, s
<1> QED
  BY <1>7, <1>8

\* WakeupSleepingThreads moves threads from the sleeping to the ready queue of
\* their CPU, and nothing else.
LEMMA WakeupIs ==
    ASSUME NEW k, NEW q, HasQueues(k, q), NEW c \in Cpus
    PROVE  \E q2 : /\ HasQueues(WakeupSleepingThreads(k, c), q2)
                   /\ Kept(k, WakeupSleepingThreads(k, c))
                   /\ WakeupSleepingThreads(k, c).list = k.list /\ SameHomes(q, q2)
<1> DEFINE x == <<c, "sleeping">>
           s == q[x]
           head == k.sched[c].SleepingQueue
           queue == Chain(k.tcb, head)
           start == [k |-> [k EXCEPT !.hung = Loops(k.tcb, head)], prev |-> NULL]
           Turn(acc, t) ==
             IF acc.k.tcb[t].WakeupTime = 0 THEN [acc EXCEPT !.k = WakeOne(acc.k, c, acc.prev, t)]
             ELSE [acc EXCEPT !.prev = t]
           P(f) == f = [n \in 0 .. Len(queue) |->
                          IF n = 0 THEN start ELSE Turn(f[n - 1], queue[n])]
           turn == CHOOSE f : P(f)
           W == WakeupSleepingThreads(k, c)
           Ok(m, acc) == WakeLoop(k, q, c, m, acc)
           n == Len(s)
<1>1. W = turn[Len(queue)].k
  BY Zenon DEF WakeupSleepingThreads
<1>2. /\ k \in Kernels /\ Spells(Nexts(k), Heads(k), q) /\ x \in Queues /\ Heads(k)[x] = head
      /\ k.hung = FALSE
  BY HeadIs, KernelIs DEF HasQueues
<1>3. s \in Seq(Threads) /\ n \in Nat /\ Different(s) /\ Linked(Nexts(k), head, s)
  BY <1>2, QueueIs DEF Spells
<1> HIDE DEF head
<1>4. queue = s /\ ~Loops(k.tcb, head)
  <2>1. \A u \in Threads : Nexts(k)[u] = k.tcb[u].Next
    BY DEF Nexts
  <2>2. \A i, j \in 1 .. Len(s) : s[i] = s[j] => i = j
    BY <1>3 DEF Different
  <2> HIDE DEF s
  <2> QED
    BY <1>3, <2>1, <2>2, ChainIs
<1>5. start = [k |-> k, prev |-> NULL]
  <2>1. [k EXCEPT !.hung = FALSE] = k
    BY <1>2 DEF Kernels
  <2>2. Loops(k.tcb, head) = FALSE
    BY <1>4 DEF Loops
  <2> QED
    BY <2>1, <2>2, Zenon
<1> HIDE DEF queue, start
<1>6. Ok(0, start)
  <2>1. start \in Accs /\ start.k = k /\ start.prev = NULL
    BY <1>2, <1>5 DEF Accs, Links
  <2>2. Kept(k, k) /\ SameHomes(q, q)
    BY DEF Kept, SameHomes
  <2>3. Before(q, c, 1) = NULL
    BY DEF Before
  <2>4. n = (1 - 1) + (n - 0) /\ \A i \in 1 .. n - 0 : (1 - 1) + i = 0 + i
    BY <1>3
  <2>5. LoopQueues(k, q, c, 0, start, q, 1)
    <3>1. n = (1 - 1) + (n - 0) /\ \A i \in 1 .. n - 0 : s[(1 - 1) + i] = s[0 + i]
      BY <2>4
    <3> QED
      BY <2>1, <2>2, <2>3, <3>1, Zenon DEF LoopQueues
  <2> QED
    BY <2>1, <2>5 DEF WakeLoop
<1>7. ASSUME NEW m \in Nat, m < n, NEW acc, Ok(m, acc) PROVE Ok(m + 1, WakeTurn(c, acc, s[m + 1]))
  BY <1>7, WakeStep
<1>8. \A acc, t : Turn(acc, t) = WakeTurn(c, acc, t)
  BY Zenon DEF WakeTurn
<1> HIDE DEF Turn
<1>9. ASSUME NEW f, f[0] = start,
             \A m \in 1 .. n : f[m - 1] \in Accs => f[m] = WakeTurn(c, f[m - 1], s[m])
      PROVE  \A m \in 0 .. n : Ok(m, f[m])
  <2> DEFINE T == {m \in Nat : m <= n => Ok(m, f[m])}
  <2> HIDE DEF Ok, s, n
  <2>1. 0 \in T
    BY <1>6, <1>9
  <2>2. ASSUME NEW m \in Nat, m \in T PROVE m + 1 \in T
    <3> SUFFICES ASSUME m + 1 <= n PROVE Ok(m + 1, f[m + 1])
      OBVIOUS
    <3>1. m < n /\ m + 1 \in 1 .. n /\ (m + 1) - 1 = m /\ m <= n
      BY <1>3
    <3>2. Ok(m, f[m])
      BY <2>2, <3>1
    <3>3. f[m] \in Accs
      BY <3>2 DEF WakeLoop, Ok
    <3>4. f[m + 1] = WakeTurn(c, f[m], s[m + 1])
      BY <1>9, <3>1, <3>3
    <3> QED
      BY <1>7, <3>1, <3>2, <3>4
  <2> HIDE DEF T
  <2>3. \A m \in Nat : m \in T
    BY <2>1, <2>2, Induction
  <2> QED
    BY <1>3, <2>3 DEF T
<1>10. \E f : P(f)
  <2> DEFINE step == [p \in Nat \X Accs |->
                       IF WakeTurn(c, p[2], s[p[1]]) \in Accs THEN WakeTurn(c, p[2], s[p[1]]) ELSE start]
  <2>1. start \in Accs
    BY <1>6 DEF WakeLoop
  <2>2. step \in [Nat \X Accs -> Accs]
    BY <2>1
  <2>3. \A m \in Nat, acc \in Accs : WakeTurn(c, acc, s[m]) \in Accs => step[<<m, acc>>] = WakeTurn(c, acc, s[m])
    OBVIOUS
  <2> HIDE DEF step
  <2>4. PICK f \in Iterations(n, Accs, start, step) : TRUE
    BY <1>3, <2>1, <2>2, Recursion
  <2>5. f \in [0 .. n -> Accs] /\ f[0] = start /\ \A m \in 1 .. n : f[m] = step[<<m, f[m - 1]>>]
    BY <2>4 DEF Iterations, Iterates
  <2> DEFINE T == {m \in Nat : m <= n => Ok(m, f[m])}
  <2> HIDE DEF Ok, s, n
  <2>6. 0 \in T
    BY <1>6, <2>5
  <2>7. ASSUME NEW m \in Nat, m + 1 <= n, Ok(m, f[m])
        PROVE  f[m + 1] = WakeTurn(c, f[m], s[m + 1]) /\ Ok(m + 1, f[m + 1])
    <3>1. m < n /\ m + 1 \in 1 .. n /\ (m + 1) - 1 = m /\ m + 1 \in Nat
      BY <1>3, <2>7
    <3>2. f[m] \in Accs
      BY <2>7 DEF WakeLoop, Ok
    <3>3. Ok(m + 1, WakeTurn(c, f[m], s[m + 1]))
      BY <1>7, <2>7, <3>1
    <3>4. WakeTurn(c, f[m], s[m + 1]) \in Accs
      BY <3>3 DEF WakeLoop, Ok
    <3>5. f[m + 1] = step[<<m + 1, f[m]>>]
      BY <2>5, <3>1
    <3>6. f[m + 1] = WakeTurn(c, f[m], s[m + 1])
      BY <2>3, <3>1, <3>2, <3>4, <3>5
    <3> QED
      BY <3>3, <3>6
  <2>8. ASSUME NEW m \in Nat, m \in T PROVE m + 1 \in T
    BY <2>7, <2>8, <1>3
  <2> HIDE DEF T
  <2>9. \A m \in Nat : m \in T
    BY <2>6, <2>8, Induction
  <2>10. ASSUME NEW m \in 0 .. n PROVE f[m] = IF m = 0 THEN start ELSE Turn(f[m - 1], queue[m])
    <3>1. CASE m = 0
      BY <2>5, <3>1
    <3>2. CASE m # 0
      <4>1. m - 1 \in Nat /\ (m - 1) + 1 = m /\ m - 1 <= n /\ (m - 1) + 1 <= n
        BY <1>3, <3>2
      <4>2. Ok(m - 1, f[m - 1])
        BY <2>9, <4>1 DEF T
      <4>3. f[(m - 1) + 1] = WakeTurn(c, f[m - 1], s[(m - 1) + 1])
        BY <2>7, <4>1, <4>2
      <4> QED
        BY <1>4, <1>8, <3>2, <4>1, <4>3
    <3> QED
      BY <3>1, <3>2
  <2>11. f = [m \in 0 .. n |-> IF m = 0 THEN start ELSE Turn(f[m - 1], queue[m])]
    BY <2>5, <2>10
  <2> QED
    BY <1>4, <2>11, Zenon DEF n
<1>11. P(turn)
  <2> HIDE DEF P
  <2> QED
    BY <1>10, Zenon
<1> HIDE DEF turn
<1>12. \A m \in 0 .. n : turn[m] = IF m = 0 THEN start ELSE Turn(turn[m - 1], queue[m])
  BY <1>4, <1>11
<1> HIDE DEF P
<1>13. turn[0] = start /\ \A m \in 1 .. n : turn[m] = WakeTurn(c, turn[m - 1], s[m])
  <2>1. 0 \in 0 .. n /\ \A m \in 1 .. n : m \in 0 .. n /\ m # 0
    BY <1>3
  <2> HIDE DEF n
  <2>2. turn[0] = start
    BY <1>12, <2>1
  <2> QED
    BY <1>4, <1>8, <1>12, <2>1, <2>2
<1>14. Ok(n, turn[n])
  <2>1. n \in 0 .. n
    BY <1>3
  <2> HIDE DEF n, Ok, s
  <2> QED
    BY <1>9, <1>13, <2>1
<1>15. W = turn[n].k
  BY <1>1, <1>4
<1>16. PICK q2, j : LoopQueues(k, q, c, n, turn[n], q2, j)
  BY <1>14, Zenon DEF WakeLoop
<1>17. HasQueues(W, q2) /\ Kept(k, W) /\ W.list = k.list /\ SameHomes(q, q2)
  BY <1>15, <1>16, Zenon DEF LoopQueues
<1> QED
  BY <1>17, Zenon

-----------------------------------------------------------------------------
(* The rest of the kernel's operations *)

\* The queues of a state are what walking its lists gives.
LEMMA ListsAre ==
    ASSUME NEW k, NEW q, HasQueues(k, q)
    PROVE  Lists(k) = q
<1>1. Spells(Nexts(k), Heads(k), q)
  BY DEF HasQueues
<1>2. \A u \in Threads : Nexts(k)[u] = k.tcb[u].Next
  BY DEF Nexts
<1>3. ASSUME NEW x \in Queues PROVE Chain(k.tcb, Heads(k)[x]) = q[x]
  <2> DEFINE s == q[x]
             head == Heads(k)[x]
  <2>1. s \in Seq(Threads) /\ Different(s) /\ Linked(Nexts(k), head, s)
    BY <1>1, QueueIs DEF Spells
  <2> HIDE DEF s, head
  <2>2. \A i, j \in 1 .. Len(s) : s[i] = s[j] => i = j
    BY <2>1 DEF Different
  <2>3. Chain(k.tcb, head) = s
    BY <1>2, <2>1, <2>2, ChainIs
  <2> QED
    BY <2>3 DEF s, head
<1>4. q = [x \in Queues |-> q[x]]
  BY <1>1 DEF Spells
<1> QED
  BY <1>3, <1>4 DEF Lists

\* No thread is on the zombie queue, so none is destroyed.
LEMMA CleanupIs ==
    ASSUME NEW k, NEW q, HasQueues(k, q), NEW c \in Cpus
    PROVE  CleanupZombieThreads(k, c) = k
<1> DEFINE head == k.sched[c].ZombieQueue
           queue == Chain(k.tcb, head)
           detached == [k EXCEPT !.sched[c].ZombieQueue = NULL, !.hung = @ \/ Loops(k.tcb, head)]
           P(f) == f = [n \in 0 .. Len(queue) |->
                          IF n = 0 THEN detached ELSE DestroyThread(f[n - 1], queue[n])]
           destroyed == CHOOSE f : P(f)
<1>1. /\ k \in Kernels /\ k.sched \in [Cpus -> Scheds] /\ k.sched[c] \in Scheds
      /\ Spells(Nexts(k), Heads(k), q) /\ k.hung = FALSE
  BY KernelIs DEF HasQueues
<1>2. head = NULL
  BY <1>1 DEF Scheds
<1>3. queue = << >> /\ ~Loops(k.tcb, head)
  <2> DEFINE s == << >>
  <2>1. s \in Seq(Threads) /\ Linked(Nexts(k), head, s) /\ \A i, j \in 1 .. Len(s) : s[i] = s[j] => i = j
    BY <1>2 DEF Linked
  <2>2. \A u \in Threads : Nexts(k)[u] = k.tcb[u].Next
    BY DEF Nexts
  <2> HIDE DEF s, head
  <2>3. Chain(k.tcb, head) = s /\ ~Loops(k.tcb, head)
    BY <2>1, <2>2, ChainIs
  <2> QED
    BY <2>3 DEF s
<1>4. detached = k
  <2> DEFINE e == k.sched[c]
             k1 == [k EXCEPT !.sched[c].ZombieQueue = NULL]
  <2>1. [e EXCEPT !.ZombieQueue = NULL] = e
    <3> HIDE DEF e
    <3>1. e \in Scheds
      BY <1>1 DEF e
    <3> QED
      BY <3>1 DEF Scheds
  <2>2. k1 = [k EXCEPT !.sched = [k.sched EXCEPT ![c] = e]]
    BY <2>1
  <2>3. [k.sched EXCEPT ![c] = e] = k.sched
    BY <1>1
  <2>4. k1 = k
    BY <1>1, <2>2, <2>3 DEF Kernels
  <2>5. (k.hung \/ Loops(k.tcb, head)) = k.hung
    BY <1>1, <1>3, Zenon
  <2>6. detached = [k1 EXCEPT !.hung = k.hung]
    BY <2>5, Zenon
  <2> HIDE DEF k1, detached
  <2> QED
    BY <1>1, <2>4, <2>6 DEF Kernels
<1> HIDE DEF detached
<1>5. CleanupZombieThreads(k, c) = destroyed[Len(queue)]
  BY Zenon DEF CleanupZombieThreads, detached
<1>6. Len(queue) = 0
  BY <1>3
<1> HIDE DEF queue
<1>7. P([n \in 0 .. 0 |-> k])
  BY <1>4, <1>6
<1>8. P(destroyed)
  <2> HIDE DEF P
  <2> QED
    BY <1>7, Zenon
<1> HIDE DEF destroyed
<1>9. destroyed[0] = k
  BY <1>4, <1>6, <1>8
<1> QED
  BY <1>5, <1>6, <1>9

\* The threads change, but no link to a next one.
LEMMA ThreadsAre ==
    ASSUME NEW k, NEW q, HasQueues(k, q), NEW tcb2 \in [Threads -> Blocks],
           \A t \in Threads : tcb2[t].Next = k.tcb[t].Next
    PROVE  HasQueues(With(k, tcb2, k.sched), q)
<1> DEFINE k2 == With(k, tcb2, k.sched)
<1>1. k \in Kernels /\ k.sched \in [Cpus -> Scheds]
  BY KernelIs DEF HasQueues
<1>2. k2 \in Kernels /\ k2.tcb = tcb2 /\ k2.sched = k.sched
  <2> PICK sched2 : sched2 = k.sched
    OBVIOUS
  <2>1. LET k3 == With(k, tcb2, sched2)
        IN  k3 \in Kernels /\ k3.tcb = tcb2 /\ k3.sched = sched2 /\ k3.list = k.list
    BY <1>1, StateIs
  <2> QED
    BY <2>1
<1> HIDE DEF k2
<1>3. Nexts(k2) = Nexts(k) /\ Heads(k2) = Heads(k)
  BY <1>2 DEF Nexts, Heads
<1>4. HasQueues(k2, q)
  BY <1>2, <1>3 DEF HasQueues
<1> QED
  BY <1>4 DEF k2

\* The current thread of a CPU changes.
SetCurrent(k, c, t) == [k EXCEPT !.sched[c].CurrentThread = t]

\* Setting CurrentThread disturbs no queue.
LEMMA CurrentIs ==
    ASSUME NEW k, NEW q, HasQueues(k, q), NEW c \in Cpus, NEW t \in Links
    PROVE  LET k2 == SetCurrent(k, c, t)
           IN  /\ HasQueues(k2, q) /\ k2.tcb = k.tcb /\ k2.list = k.list
               /\ k2.sched[c].CurrentThread = t
               /\ \A d \in Cpus : d # c => k2.sched[d] = k.sched[d]
<1> DEFINE k2 == SetCurrent(k, c, t)
           e == k.sched[c]
           e2 == [e EXCEPT !.CurrentThread = t]
           sched2 == [k.sched EXCEPT ![c] = e2]
<1>1. k \in Kernels /\ k.sched \in [Cpus -> Scheds] /\ e \in Scheds /\ k.tcb \in [Threads -> Blocks]
  BY KernelIs DEF HasQueues
<1>2. /\ e2 \in Scheds /\ e2.ReadyQueue = e.ReadyQueue /\ e2.WaitingQueue = e.WaitingQueue
      /\ e2.SleepingQueue = e.SleepingQueue /\ e2.ReadyCount = e.ReadyCount
      /\ e2.CurrentThread = t
  <2> HIDE DEF e
  <2> QED
    BY <1>1 DEF Scheds
<1>3. k2 = [k EXCEPT !.sched = sched2]
  BY DEF SetCurrent
<1> HIDE DEF e2
<1>4. sched2 \in [Cpus -> Scheds] /\ sched2[c] = e2 /\ \A d \in Cpus : d # c => sched2[d] = k.sched[d]
  BY <1>1, <1>2
<1> HIDE DEF sched2, k2
<1>5. k2 \in Kernels /\ k2.tcb = k.tcb /\ k2.sched = sched2 /\ k2.list = k.list
  BY <1>1, <1>3, <1>4 DEF Kernels
<1>6. Nexts(k2) = Nexts(k)
  BY <1>5 DEF Nexts
<1>7. Heads(k2) = Heads(k)
  <2>1. \A d \in Cpus : HeadsOf(k2.sched[d]) = HeadsOf(k.sched[d])
    BY <1>2, <1>4, <1>5 DEF HeadsOf
  <2>2. \A x \in Queues : x[1] \in Cpus
    BY DEF Queues
  <2> QED
    BY <2>1, <2>2 DEF Heads
<1>8. \A d \in Cpus : k2.sched[d].ReadyCount = k.sched[d].ReadyCount
  BY <1>2, <1>4, <1>5
<1>9. HasQueues(k2, q)
  BY <1>5, <1>6, <1>7, <1>8 DEF HasQueues
<1> QED
  BY <1>2, <1>4, <1>5, <1>9 DEF k2

-----------------------------------------------------------------------------
(* The homes of the threads *)

SameLives(k, k2) ==
  \A t \in Threads : k2.tcb[t].Life = k.tcb[t].Life /\ k2.tcb[t].LastCpu = k.tcb[t].LastCpu

\* All but t, which is not live before or after.
SameOthers(k, k2, t) ==
  /\ \A u \in Threads : u # t => k2.tcb[u].Life = k.tcb[u].Life /\ k2.tcb[u].LastCpu = k.tcb[u].LastCpu
  /\ k.tcb[t].Life # "live"

SameHeld(held, held2) == \A c \in Cpus : held2[c] = held[c]

HeldBut(held, held2, c, t) == held2[c] = t /\ \A d \in Cpus : d # c => held2[d] = held[d]

\* A thread that is on no CPU's queues is in no queue.
LEMMA FreeIs ==
    ASSUME NEW q, NEW t \in Threads, \A c \in Cpus : t \notin On(q, c)
    PROVE  Free(t, q)
<1> SUFFICES ASSUME NEW x \in Queues, NEW i \in 1 .. Len(q[x]), q[x][i] = t PROVE FALSE
  BY DEF Free
<1>1. x[1] \in Cpus
  BY DEF Queues
<1> QED
  BY <1>1 DEF On

\* A thread in no queue is on no CPU's queues.
LEMMA FreeIsOff ==
    ASSUME NEW q, NEW t \in Threads, Free(t, q), NEW c \in Cpus
    PROVE  t \notin On(q, c)
BY DEF Free, On

\* A thread that is not live is in no queue; the held thread of a CPU neither.
LEMMA NotLiveIsFree ==
    ASSUME NEW k, NEW held, NEW q, Homes(k, held, q), NEW t \in Threads, k.tcb[t].Life # "live"
    PROVE  Free(t, q)
<1>1. \A c \in Cpus : t \notin On(q, c)
  BY DEF Homes, LivesOn
<1> QED
  BY <1>1, FreeIs

\* The thread that a CPU holds is in no queue and at home on that CPU.
LEMMA HeldIsFree ==
    ASSUME NEW k, NEW held, NEW q, Homes(k, held, q), NEW c \in Cpus, held[c] # NULL
    PROVE  Free(held[c], q) /\ LivesOn(k, held[c], c)
<1>2. LivesOn(k, held[c], c) /\ held[c] \notin On(q, c)
  BY DEF Homes
<1>3. \A d \in Cpus : held[c] \notin On(q, d)
  BY <1>2 DEF Homes, LivesOn
<1>4. held[c] \in Threads
  BY <1>2 DEF LivesOn
<1> QED
  BY <1>2, <1>3, <1>4, FreeIs

\* No thread changes its CPU.
LEMMA HomesStay ==
    ASSUME NEW k, NEW k2, NEW held, NEW held2, NEW q, NEW q2, Homes(k, held, q),
           SameLives(k, k2), SameHomes(q, q2), SameHeld(held, held2)
    PROVE  Homes(k2, held2, q2)
<1>1. \A c \in Cpus : \A t \in On(q2, c) : t \in Threads
  BY Zenon DEF On
<1>2. \A c \in Cpus : On(q2, c) = On(q, c) /\ held2[c] = held[c]
  BY DEF SameHomes, SameHeld
<1>3. \A c \in Cpus : \A t \in On(q2, c) : LivesOn(k2, t, c)
  BY <1>1, <1>2 DEF Homes, SameLives, LivesOn
<1>4. \A c \in Cpus : held2[c] # NULL => LivesOn(k2, held2[c], c) /\ held2[c] \notin On(q2, c)
  BY <1>2 DEF Homes, SameLives, LivesOn
<1> QED
  BY <1>2, <1>3, <1>4 DEF Homes, SameLives

\* A CPU queues the thread that it holds.
LEMMA HomesQueued ==
    ASSUME NEW k, NEW k2, NEW held, NEW held2, NEW q, NEW q2, Homes(k, held, q),
           SameLives(k, k2), NEW c \in Cpus, held[c] # NULL, Gains(q, q2, c, held[c]),
           HeldBut(held, held2, c, NULL)
    PROVE  Homes(k2, held2, q2)
<1>1. LivesOn(k, held[c], c) /\ held[c] \notin On(q, c) /\ held[c] \in Threads
  BY DEF Homes, LivesOn
<1>2. /\ On(q2, c) = On(q, c) \cup {held[c]} /\ \A d \in Cpus : d # c => On(q2, d) = On(q, d)
      /\ held2[c] = NULL /\ \A d \in Cpus : d # c => held2[d] = held[d]
  BY DEF Gains, HeldBut
<1>3. \A d \in Cpus : \A t \in On(q2, d) : LivesOn(k, t, d)
  BY <1>1, <1>2 DEF Homes
<1>4. \A d \in Cpus : \A t \in On(q2, d) : LivesOn(k2, t, d)
  BY <1>3 DEF SameLives, LivesOn
<1>5. \A d \in Cpus : held2[d] # NULL => LivesOn(k2, held2[d], d) /\ held2[d] \notin On(q2, d)
  BY <1>2 DEF Homes, LivesOn, SameLives
<1>6. ASSUME NEW t \in Threads, k2.tcb[t].Life = "live"
      PROVE  \E d \in Cpus : t \in On(q2, d) \/ t = held2[d]
  <2>1. PICK d \in Cpus : t \in On(q, d) \/ t = held[d]
    BY <1>6 DEF Homes, SameLives
  <2>2. CASE d = c
    BY <1>2, <2>1, <2>2
  <2>3. CASE d # c
    BY <1>2, <2>1, <2>3
  <2> QED
    BY <2>2, <2>3
<1> QED
  BY <1>4, <1>5, <1>6 DEF Homes, SameLives

\* A CPU takes a thread off its queues and holds it.
LEMMA HomesTaken ==
    ASSUME NEW k, NEW k2, NEW held, NEW held2, NEW q, NEW q2, Homes(k, held, q),
           SameLives(k, k2), NEW c \in Cpus, NEW t \in Threads, held[c] = NULL, Gains(q2, q, c, t),
           Free(t, q2), HeldBut(held, held2, c, t)
    PROVE  Homes(k2, held2, q2)
<1>1. t \notin On(q2, c)
  BY FreeIsOff
<1>2. /\ On(q, c) = On(q2, c) \cup {t} /\ \A d \in Cpus : d # c => On(q2, d) = On(q, d)
      /\ held2[c] = t /\ \A d \in Cpus : d # c => held2[d] = held[d]
  BY DEF Gains, HeldBut
<1>3. \A d \in Cpus : \A u \in On(q2, d) : LivesOn(k, u, d)
  BY <1>2 DEF Homes
<1>4. \A d \in Cpus : \A u \in On(q2, d) : LivesOn(k2, u, d)
  BY <1>3 DEF SameLives, LivesOn
<1>5. LivesOn(k2, t, c)
  BY <1>2 DEF Homes, LivesOn, SameLives
<1>6. \A d \in Cpus : held2[d] # NULL => LivesOn(k2, held2[d], d) /\ held2[d] \notin On(q2, d)
  BY <1>1, <1>2, <1>5 DEF Homes, LivesOn, SameLives
<1>7. ASSUME NEW u \in Threads, k2.tcb[u].Life = "live"
      PROVE  \E d \in Cpus : u \in On(q2, d) \/ u = held2[d]
  <2>1. PICK d \in Cpus : u \in On(q, d) \/ u = held[d]
    BY <1>7 DEF Homes, SameLives
  <2>2. CASE d = c
    <3>1. u # NULL
      BY SchedulerAssumption
    <3> QED
      BY <1>2, <2>1, <2>2, <3>1
  <2>3. CASE d # c
    BY <1>2, <2>1, <2>3
  <2> QED
    BY <2>2, <2>3
<1> QED
  BY <1>4, <1>6, <1>7 DEF Homes, SameLives

\* A thread becomes live on the queues of a CPU.
LEMMA HomesStarted ==
    ASSUME NEW k, NEW k2, NEW held, NEW held2, NEW q, NEW q2, Homes(k, held, q),
           NEW c \in Cpus, NEW t \in Threads, SameOthers(k, k2, t), LivesOn(k2, t, c),
           Gains(q, q2, c, t), SameHeld(held, held2)
    PROVE  Homes(k2, held2, q2)
<1>1. /\ On(q2, c) = On(q, c) \cup {t} /\ \A d \in Cpus : d # c => On(q2, d) = On(q, d)
      /\ \A d \in Cpus : held2[d] = held[d]
  BY DEF Gains, SameHeld
<1>2. \A u \in Threads : LivesOn(k, u, c) => u # t
  BY DEF SameOthers, LivesOn
<1>3. \A d \in Cpus : \A u \in On(q, d) : LivesOn(k2, u, d) /\ u # t
  BY DEF Homes, SameOthers, LivesOn
<1>4. \A d \in Cpus : \A u \in On(q2, d) : LivesOn(k2, u, d)
  BY <1>1, <1>3
<1>5. \A d \in Cpus : held[d] # NULL => LivesOn(k2, held[d], d) /\ held[d] \notin On(q, d) /\ held[d] # t
  BY DEF Homes, SameOthers, LivesOn
<1>6. \A d \in Cpus : held2[d] # NULL => LivesOn(k2, held2[d], d) /\ held2[d] \notin On(q2, d)
  BY <1>1, <1>5
<1>7. ASSUME NEW u \in Threads, k2.tcb[u].Life = "live"
      PROVE  \E d \in Cpus : u \in On(q2, d) \/ u = held2[d]
  <2>1. CASE u = t
    BY <1>1, <2>1
  <2>2. CASE u # t
    <3>1. PICK d \in Cpus : u \in On(q, d) \/ u = held[d]
      BY <1>7, <2>2 DEF Homes, SameOthers
    <3> QED
      BY <1>1, <3>1
  <2> QED
    BY <2>1, <2>2
<1>8. \A u \in Threads : k2.tcb[u].Life = "placed" => k2.tcb[u].LastCpu \in Cpus
  <2> SUFFICES ASSUME NEW u \in Threads, k2.tcb[u].Life = "placed" PROVE k2.tcb[u].LastCpu \in Cpus
    OBVIOUS
  <2>1. CASE u = t
    BY <2>1 DEF LivesOn
  <2>2. CASE u # t
    BY <2>2 DEF Homes, SameOthers
  <2> QED
    BY <2>1, <2>2
<1> QED
  BY <1>4, <1>6, <1>7, <1>8 DEF Homes

\* A thread that is not live changes and does not become live.
LEMMA HomesFresh ==
    ASSUME NEW k, NEW k2, NEW held, NEW held2, NEW q, Homes(k, held, q),
           NEW t \in Threads, SameOthers(k, k2, t), k2.tcb[t].Life # "live",
           k2.tcb[t].Life = "placed" => k2.tcb[t].LastCpu \in Cpus,
           SameHeld(held, held2)
    PROVE  Homes(k2, held2, q)
<1>1. \A d \in Cpus : held2[d] = held[d]
  BY DEF SameHeld
<1>2. \A d \in Cpus : \A u \in On(q, d) : LivesOn(k2, u, d)
  BY DEF Homes, SameOthers, LivesOn
<1>3. \A d \in Cpus : held2[d] # NULL => LivesOn(k2, held2[d], d) /\ held2[d] \notin On(q, d)
  BY <1>1 DEF Homes, SameOthers, LivesOn
<1>4. \A u \in Threads : k2.tcb[u].Life = "live" => \E d \in Cpus : u \in On(q, d) \/ u = held2[d]
  <2> SUFFICES ASSUME NEW u \in Threads, k2.tcb[u].Life = "live"
               PROVE  \E d \in Cpus : u \in On(q, d) \/ u = held2[d]
    OBVIOUS
  <2>1. k.tcb[u].Life = "live"
    BY DEF SameOthers
  <2> QED
    BY <1>1, <2>1 DEF Homes
<1>5. \A u \in Threads : k2.tcb[u].Life = "placed" => k2.tcb[u].LastCpu \in Cpus
  <2> SUFFICES ASSUME NEW u \in Threads, k2.tcb[u].Life = "placed" PROVE k2.tcb[u].LastCpu \in Cpus
    OBVIOUS
  <2>1. CASE u = t
    BY <2>1
  <2>2. CASE u # t
    BY <2>2 DEF Homes, SameOthers
  <2> QED
    BY <2>1, <2>2
<1> QED
  BY <1>2, <1>3, <1>4, <1>5 DEF Homes

\* Who owns the code that the CPUs execute.
LEMMA OwnedStays ==
    ASSUME NEW k, NEW k2, NEW threads, Owned(k, threads),
           SameLives(k, k2) \/ \E t \in Threads : SameOthers(k, k2, t)
    PROVE  Owned(k2, threads)
<1>1. CASE SameLives(k, k2)
  BY <1>1 DEF Owned, LivesOn, SameLives
<1>2. CASE \E t \in Threads : SameOthers(k, k2, t)
  BY <1>2 DEF Owned, LivesOn, SameOthers
<1> QED
  BY <1>1, <1>2

-----------------------------------------------------------------------------
(* The steps *)

Steps == HeldSteps \cup {"again", "cleanup", "select"}

\* The state that a step becomes is the next one.
LEMMA BecomesIs ==
    ASSUME NEW k2 \in Kernels, Becomes(k2)
    PROVE  Kernel' = k2
BY DEF Becomes, Kernel, Kernels

\* The invariant holds in the state k2 with the queues q2.
LEMMA InvIs ==
    ASSUME NEW k2, NEW q2, HasQueues(k2, q2), Kernel' = k2, FrameInv', CpuTypes',
           Homes(k2, Held', q2), Owned(k2, CurrentThreads')
    PROVE  QueueInv'
<1>1. Lists(Kernel') = q2
  BY ListsAre
<1> QED
  BY <1>1 DEF QueueInv

\* The state that the invariant describes.
LEMMA InvGives ==
    ASSUME QueueInv
    PROVE  /\ HasQueues(Kernel, Lists(Kernel)) /\ Homes(Kernel, Held, Lists(Kernel))
           /\ Owned(Kernel, CurrentThreads) /\ CpuTypes
           /\ Kernel.tcb = tcb /\ Kernel.sched = sched /\ Kernel.list = ThreadList
           /\ tcb \in [Threads -> Blocks] /\ sched \in [Cpus -> Scheds] /\ ThreadList \in Links
           /\ Kernel \in Kernels
<1>1. Kernel.tcb = tcb /\ Kernel.sched = sched /\ Kernel.list = ThreadList
  BY DEF Kernel
<1>2. Kernel \in Kernels
  BY DEF QueueInv, HasQueues
<1>3. tcb \in [Threads -> Blocks] /\ sched \in [Cpus -> Scheds] /\ ThreadList \in Links
  BY <1>1, <1>2, KernelIs
<1> QED
  BY <1>1, <1>2, <1>3 DEF QueueInv

\* CPU c goes to another step and threads stay on their CPUs.
LEMMA MovesKeepQueues ==
    ASSUME QueueInv, FrameInv', NEW k2, NEW q2, HasQueues(k2, q2), Kernel' = k2, Kept(Kernel, k2),
           SameHomes(Lists(Kernel), q2), UNCHANGED CurrentThreads,
           \A d \in Cpus : frame'[d].at \in Positions,
           NEW c \in Cpus, NEW step \in Steps, pc' = [pc EXCEPT ![c] = step],
           pc[c] \in HeldSteps <=> step \in HeldSteps
    PROVE  QueueInv'
<1>1. CpuTypes /\ CpuTypes'
  BY DEF QueueInv, CpuTypes, Steps
<1>2. SameLives(Kernel, k2)
  BY DEF Kept, SameLives
<1>3. SameHeld(Held, Held')
  <2>1. sched' = k2.sched /\ sched = Kernel.sched
    BY DEF Kernel
  <2>2. \A d \in Cpus : sched'[d].CurrentThread = sched[d].CurrentThread
    BY <2>1 DEF Kept
  <2>3. \A d \in Cpus : pc'[d] \in HeldSteps <=> pc[d] \in HeldSteps
    BY <1>1 DEF CpuTypes
  <2> QED
    BY <2>2, <2>3 DEF SameHeld, Held
<1>4. Homes(k2, Held', q2)
  <2> PICK held2 : held2 = Held'
    OBVIOUS
  <2>1. Homes(Kernel, Held, Lists(Kernel)) /\ SameHeld(Held, held2)
    BY <1>3 DEF QueueInv
  <2>2. Homes(k2, held2, q2)
    BY <1>2, <2>1, HomesStay, Zenon
  <2> QED
    BY <2>2
<1>5. Owned(k2, CurrentThreads')
  <2>1. Owned(Kernel, CurrentThreads)
    BY DEF QueueInv
  <2>2. Owned(k2, CurrentThreads)
    BY <1>2, <2>1, OwnedStays, Zenon
  <2> QED
    BY <2>2
<1> QED
  BY <1>1, <1>4, <1>5, InvIs, Zenon

\* TimerHandler wakes the sleepers.
LEMMA TimerHandlerKeepsQueues ==
    ASSUME QueueInv, FrameInv', NEW c \in Cpus, TimerHandler(c)
    PROVE  QueueInv'
<1>1. PICK q2 : /\ HasQueues(WakeupSleepingThreads(Kernel, c), q2)
                /\ Kept(Kernel, WakeupSleepingThreads(Kernel, c))
                /\ SameHomes(Lists(Kernel), q2)
  BY InvGives, WakeupIs
<1>2. /\ Becomes(WakeupSleepingThreads(Kernel, c)) /\ pc[c] = "wake"
      /\ pc' = [pc EXCEPT ![c] = "save"] /\ UNCHANGED <<CurrentThreads, frame>>
  BY DEF TimerHandler, Goto
<1>3. Kernel' = WakeupSleepingThreads(Kernel, c)
  BY <1>1, <1>2, BecomesIs DEF HasQueues
<1>4. \A d \in Cpus : frame'[d].at \in Positions
  BY <1>2 DEF QueueInv, CpuTypes
<1>5. "save" \in Steps /\ pc[c] \in HeldSteps /\ "save" \in HeldSteps
  BY <1>2 DEF Steps, HeldSteps
<1> QED
  BY <1>1, <1>2, <1>3, <1>4, <1>5, MovesKeepQueues

\* SelectAgain wakes them again.
LEMMA SelectAgainKeepsQueues ==
    ASSUME QueueInv, FrameInv', NEW c \in Cpus, SelectAgain(c)
    PROVE  QueueInv'
<1>1. PICK q2 : /\ HasQueues(WakeupSleepingThreads(Kernel, c), q2)
                /\ Kept(Kernel, WakeupSleepingThreads(Kernel, c))
                /\ SameHomes(Lists(Kernel), q2)
  BY InvGives, WakeupIs
<1>2. /\ Becomes(WakeupSleepingThreads(Kernel, c)) /\ pc[c] = "again"
      /\ pc' = [pc EXCEPT ![c] = "cleanup"] /\ UNCHANGED <<CurrentThreads, frame>>
  BY DEF SelectAgain, Goto
<1>3. Kernel' = WakeupSleepingThreads(Kernel, c)
  BY <1>1, <1>2, BecomesIs DEF HasQueues
<1>4. \A d \in Cpus : frame'[d].at \in Positions
  BY <1>2 DEF QueueInv, CpuTypes
<1>5. "cleanup" \in Steps /\ pc[c] \notin HeldSteps /\ "cleanup" \notin HeldSteps
  BY <1>2 DEF Steps, HeldSteps
<1> QED
  BY <1>1, <1>2, <1>3, <1>4, <1>5, MovesKeepQueues

\* The clean-up finds no zombie and destroys nothing.
LEMMA CleanUpKeepsQueues ==
    ASSUME QueueInv, FrameInv', NEW c \in Cpus, CleanUp(c)
    PROVE  QueueInv'
<1>1. HasQueues(Kernel, Lists(Kernel)) /\ Kept(Kernel, Kernel) /\ SameHomes(Lists(Kernel), Lists(Kernel))
  BY InvGives DEF Kept, SameHomes
<1>2. CleanupZombieThreads(Kernel, c) = Kernel
  BY <1>1, CleanupIs
<1>3. /\ Becomes(Kernel) /\ pc[c] = "cleanup"
      /\ pc' = [pc EXCEPT ![c] = "select"] /\ UNCHANGED <<CurrentThreads, frame>>
  BY <1>2 DEF CleanUp, Goto
<1>4. Kernel' = Kernel
  BY <1>1, <1>3, BecomesIs DEF HasQueues
<1>5. \A d \in Cpus : frame'[d].at \in Positions
  BY <1>3 DEF QueueInv, CpuTypes
<1>6. "select" \in Steps /\ pc[c] \notin HeldSteps /\ "select" \notin HeldSteps
  BY <1>3 DEF Steps, HeldSteps
<1> QED
  BY <1>1, <1>3, <1>4, <1>5, <1>6, MovesKeepQueues

\* The code of a CPU goes from one position to another.
LEMMA PositionsMove ==
    ASSUME FrameInv, CpuTypes, NEW c \in Cpus, NEW at \in Positions,
           frame' = [frame EXCEPT ![c].at = at]
    PROVE  \A d \in Cpus : frame'[d].at \in Positions
<1> SUFFICES ASSUME NEW d \in Cpus PROVE frame'[d].at \in Positions
  OBVIOUS
<1>1. CASE d = c
  <2>1. frame[c] = [thread |-> CurrentThreads[c], at |-> frame[c].at]
    BY DEF FrameInv
  <2>2. frame'[c] = [frame[c] EXCEPT !.at = at]
    BY DEF FrameInv
  <2>3. [[thread |-> CurrentThreads[c], at |-> frame[c].at] EXCEPT !.at = at].at = at
    OBVIOUS
  <2> QED
    BY <1>1, <2>1, <2>2, <2>3
<1>2. CASE d # c
  <2>1. frame'[d] = frame[d]
    BY <1>2 DEF FrameInv
  <2> QED
    BY <2>1 DEF CpuTypes
<1> QED
  BY <1>1, <1>2

\* The timer fires: the times to wake up come nearer.
LEMMA TimerInterruptKeepsQueues ==
    ASSUME QueueInv, FrameInv', NEW c \in Cpus, TimerInterrupt(c)
    PROVE  QueueInv'
<1>1. /\ pc[c] = "thread" /\ tcb' = Tick /\ pc' = [pc EXCEPT ![c] = "wake"]
      /\ UNCHANGED <<sched, ThreadList, CurrentThreads>>
      /\ \E at \in Resumes(frame[c].at) : frame' = [frame EXCEPT ![c].at = at]
  BY DEF TimerInterrupt, Goto
<1>2. /\ HasQueues(Kernel, Lists(Kernel)) /\ Kernel.tcb = tcb /\ Kernel.sched = sched
      /\ tcb \in [Threads -> Blocks] /\ Kernel \in Kernels /\ CpuTypes
  BY InvGives
<1> PICK f : f = Tick
  OBVIOUS
<1>3. /\ f \in [Threads -> Blocks]
      /\ \A t \in Threads : /\ f[t].Next = tcb[t].Next /\ f[t].Life = tcb[t].Life
                            /\ f[t].LastCpu = tcb[t].LastCpu
  <2>1. \A b \in Blocks : /\ [b EXCEPT !.WakeupTime = IF @ > 0 THEN @ - 1 ELSE 0] \in Blocks
                          /\ [b EXCEPT !.WakeupTime = IF @ > 0 THEN @ - 1 ELSE 0].Next = b.Next
                          /\ [b EXCEPT !.WakeupTime = IF @ > 0 THEN @ - 1 ELSE 0].Life = b.Life
                          /\ [b EXCEPT !.WakeupTime = IF @ > 0 THEN @ - 1 ELSE 0].LastCpu = b.LastCpu
    BY DEF Blocks
  <2> DEFINE Ticked(b) == [b EXCEPT !.WakeupTime = IF @ > 0 THEN @ - 1 ELSE 0]
  <2>2. \A b \in Blocks : /\ Ticked(b) \in Blocks /\ Ticked(b).Next = b.Next
                          /\ Ticked(b).Life = b.Life /\ Ticked(b).LastCpu = b.LastCpu
    BY <2>1, Zenon
  <2>3. f = [t \in Threads |-> Ticked(tcb[t])]
    BY Zenon DEF Tick
  <2> HIDE DEF Ticked
  <2> QED
    BY <1>2, <2>2, <2>3
<1> DEFINE k2 == With(Kernel, f, Kernel.sched)
<1>4. HasQueues(k2, Lists(Kernel))
  BY <1>2, <1>3, ThreadsAre
<1>5. k2.tcb = f /\ k2.sched = Kernel.sched /\ k2.list = Kernel.list
  BY <1>2 DEF With, Kernels
<1> HIDE DEF k2
<1>6. Kernel' = k2
  <2>1. k2 \in Kernels /\ k2.hung = FALSE
    BY <1>4, KernelIs DEF HasQueues
  <2>2. Becomes(k2)
    BY <1>1, <1>2, <1>5, <2>1, InvGives DEF Becomes
  <2> QED
    BY <2>1, <2>2, BecomesIs
<1>7. Kept(Kernel, k2) /\ SameHomes(Lists(Kernel), Lists(Kernel))
  BY <1>2, <1>3, <1>5 DEF Kept, SameHomes
<1>8. \A d \in Cpus : frame'[d].at \in Positions
  <2>1. PICK at \in Resumes(frame[c].at) : frame' = [frame EXCEPT ![c].at = at]
    BY <1>1
  <2>2. frame[c].at \in Positions
    BY <1>2 DEF CpuTypes
  <2>3. at \in Positions
    BY <2>1, <2>2 DEF Resumes, Positions
  <2> QED
    BY <1>2, <2>1, <2>3, PositionsMove DEF QueueInv
<1>9. "wake" \in Steps /\ pc[c] \in HeldSteps /\ "wake" \in HeldSteps
  BY <1>1 DEF Steps, HeldSteps
<1> QED
  BY <1>1, <1>4, <1>6, <1>7, <1>8, <1>9, MovesKeepQueues

\* Schedule queues the thread it has interrupted by its state.
LEMMA RequeueIs ==
    ASSUME NEW k, NEW q, HasQueues(k, q), NEW c \in Cpus, NEW t \in Threads, Free(t, q),
           k.tcb[t].LastCpu = c
    PROVE  \E q2 : /\ HasQueues(Requeue(k, c, t), q2) /\ Kept(k, Requeue(k, c, t))
                   /\ Gains(q, q2, c, t)
<1>1. q \in [Queues -> Seq(Threads)] /\ k.tcb[t] \in Blocks
  BY KernelIs DEF HasQueues, Spells
<1>2. k.tcb[t].State \in {"ready", "running", "blocked", "sleeping"}
  BY <1>1 DEF Blocks
<1>3. CASE k.tcb[t].State = "blocked"
  <2>1. Requeue(k, c, t) = Queueing(k, c, t, "waiting")
    BY <1>3 DEF Requeue, Queueing
  <2>2. "waiting" \in {"waiting", "sleeping"} /\ "waiting" \in Kinds
    BY DEF Kinds
  <2>3. HasQueues(Queueing(k, c, t, "waiting"), PushOn(q, <<c, "waiting">>, t))
        /\ Kept(k, Queueing(k, c, t, "waiting"))
    BY <2>2, QueueingIs
  <2>4. Gains(q, PushOn(q, <<c, "waiting">>, t), c, t)
    BY <1>1, <2>2, PushGains
  <2> QED
    BY <2>1, <2>3, <2>4, Zenon
<1>4. CASE k.tcb[t].State = "sleeping"
  <2>1. Requeue(k, c, t) = Queueing(k, c, t, "sleeping")
    BY <1>4 DEF Requeue, Queueing
  <2>2. "sleeping" \in {"waiting", "sleeping"} /\ "sleeping" \in Kinds
    BY DEF Kinds
  <2>3. HasQueues(Queueing(k, c, t, "sleeping"), PushOn(q, <<c, "sleeping">>, t))
        /\ Kept(k, Queueing(k, c, t, "sleeping"))
    BY <2>2, QueueingIs
  <2>4. Gains(q, PushOn(q, <<c, "sleeping">>, t), c, t)
    BY <1>1, <2>2, PushGains
  <2> QED
    BY <2>1, <2>3, <2>4, Zenon
<1>5. CASE k.tcb[t].State \in {"ready", "running"}
  <2>1. Requeue(k, c, t) = AddThreadToReadyQueue(k, c, t)
    BY <1>5 DEF Requeue
  <2>2. HasQueues(AddThreadToReadyQueue(k, c, t), AppendTo(q, <<c, "ready">>, t))
        /\ Kept(k, AddThreadToReadyQueue(k, c, t))
    BY ReadyIs
  <2>3. Gains(q, AppendTo(q, <<c, "ready">>, t), c, t)
    BY <1>1, AppendGains DEF Kinds
  <2> QED
    BY <2>1, <2>2, <2>3, Zenon
<1> QED
  BY <1>2, <1>3, <1>4, <1>5

\* Another block for a thread that stays where it is.
LEMMA PutKeeps ==
    ASSUME NEW k, NEW q, HasQueues(k, q), NEW t \in Threads, NEW b \in Blocks,
           b.Next = k.tcb[t].Next \/ Free(t, q),
           b.Life = k.tcb[t].Life, b.LastCpu = k.tcb[t].LastCpu
    PROVE  HasQueues(Put(k, t, b), q) /\ Kept(k, Put(k, t, b)) /\ Put(k, t, b).tcb[t] = b
<1>1. HasQueues(Put(k, t, b), q) /\ Replaced(k, Put(k, t, b), t, b)
  BY BlockIs
<1> QED
  BY <1>1 DEF Replaced, Kept

\* The thread that CPU c holds, when it holds one.
LEMMA HeldIs ==
    ASSUME NEW c \in Cpus
    PROVE  Held[c] = IF pc[c] \in HeldSteps THEN sched[c].CurrentThread ELSE NULL
BY DEF Held

\* CPU c is done with the thread it holds, whether or not there was one.
LEMMA QueuedKeepsQueues ==
    ASSUME QueueInv, FrameInv', NEW c \in Cpus, NEW k2, NEW q2, HasQueues(k2, q2), Kernel' = k2,
           Kept(Kernel, k2), Held[c] = NULL => SameHomes(Lists(Kernel), q2),
           Held[c] # NULL => Gains(Lists(Kernel), q2, c, Held[c]),
           UNCHANGED <<CurrentThreads, frame>>, pc' = [pc EXCEPT ![c] = "again"]
    PROVE  QueueInv'
<1>1. CpuTypes /\ CpuTypes'
  BY DEF QueueInv, CpuTypes
<1>2. SameLives(Kernel, k2)
  BY DEF Kept, SameLives
<1>3. HeldBut(Held, Held', c, NULL)
  <2>1. sched' = k2.sched /\ sched = Kernel.sched
    BY DEF Kernel
  <2>2. \A d \in Cpus : sched'[d].CurrentThread = sched[d].CurrentThread
    BY <2>1 DEF Kept
  <2>3. pc'[c] = "again" /\ \A d \in Cpus : d # c => pc'[d] = pc[d]
    BY <1>1 DEF CpuTypes
  <2>4. Held'[c] = NULL
    BY <2>3 DEF Held, HeldSteps
  <2>5. \A d \in Cpus : d # c => Held'[d] = Held[d]
    BY <2>2, <2>3 DEF Held
  <2> QED
    BY <2>4, <2>5 DEF HeldBut
<1>4. Homes(k2, Held', q2)
  <2> PICK held2 : held2 = Held'
    OBVIOUS
  <2>1. Homes(Kernel, Held, Lists(Kernel)) /\ HeldBut(Held, held2, c, NULL)
    BY <1>3 DEF QueueInv
  <2>2. CASE Held[c] = NULL
    <3>1. SameHeld(Held, held2)
      BY <2>1, <2>2 DEF SameHeld, HeldBut
    <3>2. Homes(k2, held2, q2)
      BY <1>2, <2>1, <2>2, <3>1, HomesStay, Zenon
    <3> QED
      BY <3>2
  <2>3. CASE Held[c] # NULL
    <3>1. Homes(k2, held2, q2)
      BY <1>2, <2>1, <2>3, HomesQueued, Zenon
    <3> QED
      BY <3>1
  <2> QED
    BY <2>2, <2>3
<1>5. Owned(k2, CurrentThreads')
  <2>1. Owned(Kernel, CurrentThreads)
    BY DEF QueueInv
  <2>2. Owned(k2, CurrentThreads)
    BY <1>2, <2>1, OwnedStays, Zenon
  <2> QED
    BY <2>2
<1> QED
  BY <1>1, <1>4, <1>5, InvIs, Zenon

\* Schedule saves the context of the thread it has interrupted and queues it.
LEMMA SaveCurrentKeepsQueues ==
    ASSUME QueueInv, FrameInv', NEW c \in Cpus, SaveCurrent(c)
    PROVE  QueueInv'
<1> DEFINE t == sched[c].CurrentThread
           q == Lists(Kernel)
           a == Kernel.tcb[t]
           b == [a EXCEPT !.Context = frame[c].at]
           saved == Put(Kernel, t, b)
<1>1. /\ pc[c] = "save" /\ Becomes(IF t = NULL THEN Kernel ELSE Requeue(saved, c, t))
      /\ pc' = [pc EXCEPT ![c] = "again"] /\ UNCHANGED <<CurrentThreads, frame>>
  BY Zenon DEF SaveCurrent, Goto, Put
<1>2. /\ HasQueues(Kernel, q) /\ Homes(Kernel, Held, q) /\ Kernel \in Kernels
      /\ Kernel.tcb = tcb /\ tcb \in [Threads -> Blocks] /\ CpuTypes
  BY InvGives
<1>3. Held[c] = t
  BY <1>1, HeldIs DEF HeldSteps
<1> HIDE DEF t
<1>4. CASE t = NULL
  <2>1. Kernel' = Kernel
    BY <1>1, <1>2, <1>4, BecomesIs
  <2>2. Kept(Kernel, Kernel) /\ SameHomes(q, q)
    BY DEF Kept, SameHomes
  <2> HIDE DEF q
  <2> PICK k2 : k2 = Kernel
    OBVIOUS
  <2>3. /\ HasQueues(k2, Lists(Kernel)) /\ Kernel' = k2 /\ Kept(Kernel, k2)
        /\ SameHomes(Lists(Kernel), Lists(Kernel))
    BY <1>2, <2>1, <2>2 DEF q
  <2> QED
    BY <1>1, <1>3, <1>4, <2>3, QueuedKeepsQueues
<1>5. CASE t # NULL
  <2>1. Free(t, q) /\ LivesOn(Kernel, t, c) /\ t \in Threads
    <3>1. Free(Held[c], q) /\ LivesOn(Kernel, Held[c], c)
      BY <1>2, <1>3, <1>5, HeldIsFree
    <3> QED
      BY <1>3, <3>1 DEF LivesOn
  <2>2. b \in Blocks /\ b.Life = a.Life /\ b.LastCpu = a.LastCpu /\ a.LastCpu = c
    <3>1. frame[c].at \in Positions /\ a \in Blocks /\ a.LastCpu = c
      BY <1>2, <2>1 DEF CpuTypes, LivesOn
    <3> HIDE DEF a
    <3> QED
      BY <3>1 DEF Blocks
  <2> HIDE DEF b
  <2>3. HasQueues(saved, q) /\ Kept(Kernel, saved) /\ saved.tcb[t] = b
    <3> HIDE DEF q
    <3> QED
      BY <1>2, <2>1, <2>2, PutKeeps
  <2> HIDE DEF saved
  <2>4. PICK q2 : /\ HasQueues(Requeue(saved, c, t), q2) /\ Kept(saved, Requeue(saved, c, t))
                  /\ Gains(q, q2, c, t)
    BY <2>1, <2>2, <2>3, RequeueIs
  <2>5. Kept(Kernel, Requeue(saved, c, t))
    BY <2>3, <2>4 DEF Kept
  <2>6. Kernel' = Requeue(saved, c, t)
    BY <1>1, <1>5, <2>4, BecomesIs DEF HasQueues
  <2> QED
    BY <1>1, <1>3, <1>5, <2>4, <2>5, <2>6, QueuedKeepsQueues
<1> QED
  BY <1>4, <1>5

\* No thread is ready: no queue changes.
LEMMA IdleKeepsQueues ==
    ASSUME QueueInv, FrameInv', NEW c \in Cpus, Idle(c)
    PROVE  QueueInv'
<1> DEFINE k2 == SetCurrent(Kernel, c, NULL)
           q == Lists(Kernel)
<1>1. /\ pc[c] = "select" /\ sched' = [sched EXCEPT ![c].CurrentThread = NULL]
      /\ pc' = [pc EXCEPT ![c] = "thread"] /\ UNCHANGED <<tcb, ThreadList, CurrentThreads, frame>>
  BY DEF Idle, Goto
<1>2. /\ HasQueues(Kernel, q) /\ Homes(Kernel, Held, q) /\ Kernel \in Kernels /\ Owned(Kernel, CurrentThreads)
      /\ Kernel.tcb = tcb /\ Kernel.sched = sched /\ Kernel.list = ThreadList /\ CpuTypes
  BY InvGives
<1>3. /\ HasQueues(k2, q) /\ k2.tcb = Kernel.tcb /\ k2.list = Kernel.list
      /\ k2.sched[c].CurrentThread = NULL
      /\ \A d \in Cpus : d # c => k2.sched[d] = Kernel.sched[d]
  <2>1. NULL \in Links
    BY DEF Links
  <2> HIDE DEF q
  <2> QED
    BY <1>2, <2>1, CurrentIs
<1>4. k2.sched = sched'
  <2>1. k2.sched = [Kernel.sched EXCEPT ![c].CurrentThread = NULL]
    BY <1>2 DEF SetCurrent, Kernels
  <2> QED
    BY <1>1, <1>2, <2>1
<1> HIDE DEF k2
<1>5. Kernel' = k2
  <2>1. k2 \in Kernels /\ k2.hung = FALSE
    BY <1>3, KernelIs DEF HasQueues
  <2>2. Becomes(k2)
    BY <1>1, <1>2, <1>3, <1>4, <2>1 DEF Becomes
  <2> QED
    BY <2>1, <2>2, BecomesIs
<1>6. SameHeld(Held, Held')
  <2>1. pc'[c] = "thread" /\ \A d \in Cpus : d # c => pc'[d] = pc[d]
    BY <1>1, <1>2 DEF CpuTypes
  <2>2. Held[c] = NULL /\ Held'[c] = NULL
    BY <1>1, <1>3, <1>4, <2>1 DEF Held, HeldSteps
  <2>3. \A d \in Cpus : d # c => Held'[d] = Held[d]
    BY <1>2, <1>3, <1>4, <2>1 DEF Held
  <2> QED
    BY <2>2, <2>3 DEF SameHeld
<1>7. CpuTypes'
  BY <1>1, <1>2 DEF CpuTypes, HeldSteps
<1>8. SameLives(Kernel, k2) /\ SameHomes(q, q)
  BY <1>3 DEF SameLives, SameHomes
<1>9. Homes(k2, Held', q)
  <2> PICK held2 : held2 = Held'
    OBVIOUS
  <2>1. SameHeld(Held, held2)
    BY <1>6
  <2>2. Homes(k2, held2, q)
    BY <1>2, <1>8, <2>1, HomesStay, Zenon
  <2> QED
    BY <2>2
<1>10. Owned(k2, CurrentThreads')
  <2>1. Owned(k2, CurrentThreads)
    BY <1>2, <1>8, OwnedStays, Zenon
  <2> QED
    BY <1>1, <2>1
<1> QED
  BY <1>3, <1>5, <1>7, <1>9, <1>10, InvIs, Zenon

\* The first ready thread of CPU c.
LEMMA FirstIs ==
    ASSUME QueueInv, NEW c \in Cpus, sched[c].ReadyQueue # NULL
    PROVE  LET t  == sched[c].ReadyQueue
               q  == Lists(Kernel)
               q1 == TakeFrom(q, <<c, "ready">>, 1)
               k1 == RemoveThreadFromReadyQueue(Kernel, c)
           IN  /\ t \in Threads /\ LivesOn(Kernel, t, c)
               /\ HasQueues(k1, q1) /\ Kept(Kernel, k1) /\ SameThreads(tcb, k1.tcb)
               /\ Free(t, q1) /\ Gains(q1, q, c, t)
<1> DEFINE t  == sched[c].ReadyQueue
           q  == Lists(Kernel)
           q1 == TakeFrom(q, <<c, "ready">>, 1)
           k1 == RemoveThreadFromReadyQueue(Kernel, c)
<1>1. /\ HasQueues(Kernel, q) /\ Homes(Kernel, Held, q) /\ Kernel.sched = sched /\ Kernel.tcb = tcb
  BY InvGives
<1>2. /\ q[<<c, "ready">>] # << >> /\ t = q[<<c, "ready">>][1] /\ t \in Threads
      /\ HasQueues(k1, q1) /\ Free(t, q1) /\ Kept(Kernel, k1) /\ SameThreads(tcb, k1.tcb)
  <2> HIDE DEF q
  <2>1. Kernel.sched[c].ReadyQueue # NULL
    BY <1>1
  <2> QED
    BY <1>1, <2>1, RemoveIs
<1>3. q \in [Queues -> Seq(Threads)] /\ <<c, "ready">> \in Queues /\ "ready" \in Kinds
  BY <1>1, HeadIs DEF HasQueues, Spells, Kinds
<1> HIDE DEF q, k1
<1>4. 1 \in 1 .. Len(q[<<c, "ready">>])
  BY <1>2, <1>3
<1>5. Gains(q1, q, c, t)
  <2>1. Gains(TakeFrom(q, <<c, "ready">>, 1), q, c, q[<<c, "ready">>][1])
    BY <1>3, <1>4, TakeGains
  <2> QED
    BY <1>2, <2>1, Zenon
<1>6. t \in On(q, c)
  BY <1>5 DEF Gains
<1>7. LivesOn(Kernel, t, c)
  BY <1>1, <1>6 DEF Homes
<1> QED
  BY <1>2, <1>5, <1>7, Zenon DEF q, k1

\* A thread that is cooling down goes to the end of its queue.
LEMMA CoolDownKeepsQueues ==
    ASSUME QueueInv, FrameInv', NEW c \in Cpus, CoolDown(c)
    PROVE  QueueInv'
<1> DEFINE t  == sched[c].ReadyQueue
           q  == Lists(Kernel)
           q1 == TakeFrom(q, <<c, "ready">>, 1)
           k1 == RemoveThreadFromReadyQueue(Kernel, c)
           a  == k1.tcb[t]
           b  == [a EXCEPT !.Cooldown = @ - 1]
           cooled == Put(k1, t, b)
           k2 == AddThreadToReadyQueue(cooled, c, t)
           q2 == AppendTo(q1, <<c, "ready">>, t)
<1>1. /\ pc[c] = "select" /\ t # NULL /\ tcb[t].Cooldown > 0 /\ Becomes(k2)
      /\ pc' = [pc EXCEPT ![c] = "again"] /\ UNCHANGED <<CurrentThreads, frame>>
  BY Zenon DEF CoolDown, Goto, Put
<1>2. /\ t \in Threads /\ LivesOn(Kernel, t, c)
      /\ HasQueues(k1, q1) /\ Kept(Kernel, k1) /\ SameThreads(tcb, k1.tcb)
      /\ Free(t, q1) /\ Gains(q1, q, c, t)
  BY <1>1, FirstIs, Zenon
<1>3. CpuTypes /\ Kernel.tcb = tcb /\ tcb \in [Threads -> Blocks]
  BY InvGives
<1> HIDE DEF t, k1, q1, q
<1>4. b \in Blocks /\ b.Life = a.Life /\ b.LastCpu = a.LastCpu /\ b.Next = a.Next /\ a.LastCpu = c
  <2>1. a \in Blocks /\ a.Cooldown = tcb[t].Cooldown /\ a.LastCpu = c
    BY <1>2, <1>3, KernelIs DEF HasQueues, SameThreads, LivesOn
  <2>2. a.Cooldown - 1 \in Nat
    BY <1>1, <2>1 DEF Blocks
  <2> HIDE DEF a
  <2> QED
    BY <2>1, <2>2 DEF Blocks
<1> HIDE DEF b
<1>5. HasQueues(cooled, q1) /\ Kept(k1, cooled) /\ cooled.tcb[t] = b
  BY <1>2, <1>4, PutKeeps
<1> HIDE DEF cooled
<1>6. HasQueues(k2, q2) /\ Kept(cooled, k2)
  <2>1. cooled.tcb[t].LastCpu = c
    BY <1>4, <1>5
  <2> QED
    BY <1>2, <1>5, <2>1, ReadyIs
<1>7. Gains(q1, q2, c, t)
  <2>1. q1 \in [Queues -> Seq(Threads)] /\ "ready" \in Kinds
    BY <1>2 DEF HasQueues, Spells, Kinds
  <2> QED
    BY <1>2, <2>1, AppendGains
<1> HIDE DEF q2, k2
<1>8. SameHomes(q, q2)
  BY <1>2, <1>7 DEF Gains, SameHomes
<1>9. Kept(Kernel, k2)
  BY <1>2, <1>5, <1>6 DEF Kept
<1>10. Kernel' = k2
  BY <1>1, <1>6, BecomesIs DEF HasQueues
<1>11. \A d \in Cpus : frame'[d].at \in Positions
  BY <1>1, <1>3 DEF CpuTypes
<1>12. "again" \in Steps /\ pc[c] \notin HeldSteps /\ "again" \notin HeldSteps
  BY <1>1 DEF Steps, HeldSteps
<1> QED
  BY <1>1, <1>6, <1>8, <1>9, <1>10, <1>11, <1>12, MovesKeepQueues DEF q

\* The first ready thread runs.
LEMMA RunKeepsQueues ==
    ASSUME QueueInv, FrameInv', NEW c \in Cpus, Run(c)
    PROVE  QueueInv'
<1> DEFINE t  == sched[c].ReadyQueue
           q  == Lists(Kernel)
           q1 == TakeFrom(q, <<c, "ready">>, 1)
           k1 == RemoveThreadFromReadyQueue(Kernel, c)
           a  == k1.tcb[t]
           b  == [a EXCEPT !.Cooldown = Stride(a.Priority) - 1, !.State = "running", !.LastCpu = c]
           running == Put(k1, t, b)
           k2 == SetCurrent(running, c, t)
<1>1. /\ pc[c] = "select" /\ t # NULL /\ Becomes(Started(k1, c, t))
      /\ pc' = [pc EXCEPT ![c] = "thread"] /\ CurrentThreads' = [CurrentThreads EXCEPT ![c] = t]
      /\ frame' = [frame EXCEPT ![c] = [thread |-> t, at |-> tcb[t].Context]]
  BY DEF Run, Goto, SetCurrentThread, LoadContext
<1>2. /\ t \in Threads /\ LivesOn(Kernel, t, c)
      /\ HasQueues(k1, q1) /\ Kept(Kernel, k1) /\ SameThreads(tcb, k1.tcb)
      /\ Free(t, q1) /\ Gains(q1, q, c, t)
  BY <1>1, FirstIs, Zenon
<1>3. /\ CpuTypes /\ Kernel.tcb = tcb /\ tcb \in [Threads -> Blocks] /\ Kernel.sched = sched
      /\ Homes(Kernel, Held, q) /\ Owned(Kernel, CurrentThreads)
  BY InvGives
<1> HIDE DEF t, k1, q1, q
<1>4. Started(k1, c, t) = k2
  BY DEF Started, Put, SetCurrent
<1>5. b \in Blocks /\ b.Life = a.Life /\ b.LastCpu = a.LastCpu /\ b.Next = a.Next
  <2>1. a \in Blocks /\ a.LastCpu = c
    BY <1>2, <1>3, KernelIs DEF HasQueues, SameThreads, LivesOn
  <2>2. Stride(a.Priority) - 1 \in Nat
    BY DEF Stride
  <2> HIDE DEF a
  <2> PICK n \in Nat : n = Stride(a.Priority) - 1
    BY <2>2
  <2>3. b = [a EXCEPT !.Cooldown = n, !.State = "running", !.LastCpu = c]
    OBVIOUS
  <2> HIDE DEF b
  <2> QED
    BY <2>1, <2>3 DEF Blocks
<1> HIDE DEF b
<1>6. HasQueues(running, q1) /\ Kept(k1, running) /\ running.tcb[t] = b
  BY <1>2, <1>5, PutKeeps
<1> HIDE DEF running
<1>7. /\ HasQueues(k2, q1) /\ k2.tcb = running.tcb /\ k2.sched[c].CurrentThread = t
      /\ \A d \in Cpus : d # c => k2.sched[d] = running.sched[d]
  <2>1. t \in Links
    BY <1>2 DEF Links
  <2> QED
    BY <1>6, <2>1, CurrentIs
<1> HIDE DEF k2
<1>8. Kernel' = k2
  BY <1>1, <1>4, <1>7, BecomesIs DEF HasQueues
<1>9. SameLives(Kernel, k2)
  BY <1>2, <1>6, <1>7 DEF Kept, SameLives
<1>10. Held[c] = NULL /\ HeldBut(Held, Held', c, t)
  <2>1. sched' = k2.sched
    BY <1>8 DEF Kernel
  <2>2. \A d \in Cpus : d # c => sched'[d].CurrentThread = sched[d].CurrentThread
    BY <1>2, <1>3, <1>6, <1>7, <2>1 DEF Kept
  <2>3. pc'[c] = "thread" /\ \A d \in Cpus : d # c => pc'[d] = pc[d]
    BY <1>1, <1>3 DEF CpuTypes
  <2>4. Held[c] = NULL /\ Held'[c] = t
    BY <1>1, <1>7, <2>1, <2>3 DEF Held, HeldSteps
  <2>5. \A d \in Cpus : d # c => Held'[d] = Held[d]
    BY <2>2, <2>3 DEF Held
  <2> QED
    BY <2>4, <2>5 DEF HeldBut
<1>11. Homes(k2, Held', q1)
  <2> PICK held2 : held2 = Held'
    OBVIOUS
  <2>1. HeldBut(Held, held2, c, t)
    BY <1>10
  <2>2. Homes(k2, held2, q1)
    BY <1>2, <1>3, <1>9, <1>10, <2>1, HomesTaken, Zenon
  <2> QED
    BY <2>2
<1>12. Owned(k2, CurrentThreads')
  <2>1. LivesOn(k2, t, c)
    BY <1>2, <1>9 DEF SameLives, LivesOn
  <2>2. Owned(k2, CurrentThreads)
    BY <1>3, <1>9, OwnedStays, Zenon
  <2>3. \A d \in Cpus : CurrentThreads'[d] = IF d = c THEN t ELSE CurrentThreads[d]
    BY <1>1, <1>3 DEF CpuTypes
  <2> QED
    BY <2>1, <2>2, <2>3 DEF Owned
<1>13. CpuTypes'
  <2>1. \A d \in Cpus : frame'[d].at \in Positions
    <3>1. FrameInv
      BY DEF QueueInv
    <3>2. tcb[t].Context \in Positions
      BY <1>2, <1>3 DEF Blocks
    <3> SUFFICES ASSUME NEW d \in Cpus PROVE frame'[d].at \in Positions
      OBVIOUS
    <3>3. CASE d = c
      <4>1. frame'[d] = [thread |-> t, at |-> tcb[t].Context]
        BY <1>1, <3>1, <3>3 DEF FrameInv
      <4> QED
        BY <3>2, <4>1
    <3>4. CASE d # c
      <4>1. frame'[d] = frame[d]
        BY <1>1, <3>1, <3>4 DEF FrameInv
      <4> QED
        BY <1>3, <4>1 DEF CpuTypes
    <3> QED
      BY <3>3, <3>4
  <2>2. CurrentThreads' \in [Cpus -> Links]
    BY <1>1, <1>2, <1>3 DEF CpuTypes, Links
  <2>3. pc' \in [Cpus -> HeldSteps \cup {"again", "cleanup", "select"}]
    BY <1>1, <1>3 DEF CpuTypes, HeldSteps
  <2> QED
    BY <2>1, <2>2, <2>3 DEF CpuTypes
<1> QED
  BY <1>7, <1>8, <1>11, <1>12, <1>13, InvIs, Zenon

-----------------------------------------------------------------------------
(* The calls *)

\* A call writes other fields of a thread than its links, its CPU and its life.
LEMMA PutKeepsQueues ==
    ASSUME QueueInv, FrameInv', NEW t \in Threads, NEW b \in Blocks,
           b.Next = tcb[t].Next, b.Life = tcb[t].Life, b.LastCpu = tcb[t].LastCpu,
           Kernel' = Put(Kernel, t, b), UNCHANGED <<CurrentThreads, pc>>,
           \A d \in Cpus : frame'[d].at \in Positions
    PROVE  QueueInv'
<1> PICK k2 : k2 = Put(Kernel, t, b)
  OBVIOUS
<1>1. HasQueues(k2, Lists(Kernel)) /\ Kept(Kernel, k2)
  <2> DEFINE q == Lists(Kernel)
  <2>1. HasQueues(Kernel, q) /\ Kernel.tcb = tcb
    BY InvGives
  <2> HIDE DEF q
  <2>2. HasQueues(Put(Kernel, t, b), q) /\ Kept(Kernel, Put(Kernel, t, b))
    BY <2>1, PutKeeps
  <2> QED
    BY <2>2 DEF q
<1>2. SameHomes(Lists(Kernel), Lists(Kernel))
  BY DEF SameHomes
<1>3. PICK c \in Cpus : TRUE
  BY SchedulerAssumption DEF Cpus
<1>4. pc \in [Cpus -> HeldSteps \cup {"again", "cleanup", "select"}]
  BY InvGives DEF CpuTypes
<1> PICK step : step = pc[c]
  OBVIOUS
<1>5. step \in Steps /\ pc' = [pc EXCEPT ![c] = step] /\ (pc[c] \in HeldSteps <=> step \in HeldSteps)
  BY <1>4 DEF Steps
<1> QED
  BY <1>1, <1>2, <1>5, MovesKeepQueues

\* A thread that is not live changes and does not become live.
LEMMA FreshKeepsQueues ==
    ASSUME QueueInv, FrameInv', NEW t \in Threads, NEW k2, HasQueues(k2, Lists(Kernel)), Kernel' = k2,
           SameOthers(Kernel, k2, t), k2.tcb[t].Life # "live",
           k2.tcb[t].Life = "placed" => k2.tcb[t].LastCpu \in Cpus,
           UNCHANGED <<sched, CurrentThreads, frame, pc>>
    PROVE  QueueInv'
<1>1. Homes(Kernel, Held, Lists(Kernel)) /\ Owned(Kernel, CurrentThreads) /\ CpuTypes
  BY InvGives
<1>2. SameHeld(Held, Held')
  BY DEF SameHeld, Held
<1>3. Homes(k2, Held', Lists(Kernel))
  <2> PICK held2 : held2 = Held'
    OBVIOUS
  <2>1. SameHeld(Held, held2)
    BY <1>2
  <2>2. Homes(k2, held2, Lists(Kernel))
    BY <1>1, <2>1, HomesFresh, Zenon
  <2> QED
    BY <2>2
<1>4. Owned(k2, CurrentThreads')
  <2>1. Owned(k2, CurrentThreads)
    BY <1>1, OwnedStays, Zenon
  <2> QED
    BY <2>1
<1>5. CpuTypes'
  BY <1>1 DEF CpuTypes
<1> QED
  BY <1>3, <1>4, <1>5, InvIs, Zenon

\* SetThread writes one block.
LEMMA SetThreadIs ==
    ASSUME QueueInv, NEW t \in Threads, NEW b \in Blocks,
           b.Next = tcb[t].Next \/ Free(t, Lists(Kernel)), SetThread(t, b)
    PROVE  /\ Kernel' = Put(Kernel, t, b) /\ HasQueues(Put(Kernel, t, b), Lists(Kernel))
           /\ Replaced(Kernel, Put(Kernel, t, b), t, b)
<1> DEFINE q == Lists(Kernel)
<1>1. /\ HasQueues(Kernel, q) /\ Kernel.tcb = tcb /\ Kernel.sched = sched /\ Kernel.list = ThreadList
      /\ tcb \in [Threads -> Blocks] /\ Kernel \in Kernels
  BY InvGives
<1>2. Free(t, Lists(Kernel)) = Free(t, q)
  OBVIOUS
<1> HIDE DEF q
<1>3. HasQueues(Put(Kernel, t, b), q) /\ Replaced(Kernel, Put(Kernel, t, b), t, b)
  BY <1>1, <1>2, BlockIs
<1> PICK k2 : k2 = Put(Kernel, t, b)
  OBVIOUS
<1>4. k2.tcb = [tcb EXCEPT ![t] = b]
  BY <1>1 DEF Put, Kernels
<1>5. k2 \in Kernels /\ k2.hung = FALSE /\ k2.sched = sched /\ k2.list = ThreadList
  BY <1>1, <1>3, KernelIs DEF HasQueues, Replaced
<1>6. Becomes(k2)
  BY <1>4, <1>5 DEF Becomes, SetThread
<1>7. Kernel' = k2
  BY <1>5, <1>6, BecomesIs
<1> QED
  BY <1>3, <1>7 DEF q

\* A call that writes one block with SetThread.
LEMMA SetThreadKeepsQueues ==
    ASSUME QueueInv, FrameInv', NEW t \in Threads, NEW b \in Blocks,
           b.Next = tcb[t].Next, b.Life = tcb[t].Life, b.LastCpu = tcb[t].LastCpu, SetThread(t, b)
    PROVE  QueueInv'
<1>1. Kernel' = Put(Kernel, t, b)
  BY SetThreadIs
<1>2. \A d \in Cpus : frame'[d].at \in Positions
  BY InvGives DEF SetThread, CpuTypes
<1>3. UNCHANGED <<CurrentThreads, pc>>
  BY DEF SetThread
<1> QED
  BY <1>1, <1>2, <1>3, PutKeepsQueues

\* SuspendThread, ResumeThread, SetThreadPriority and SetThreadAffinity.
LEMMA ControlKeepsQueues ==
    ASSUME QueueInv, FrameInv', NEW c \in Cpus, NEW t \in Threads,
           \/ SuspendThread(c, t) \/ ResumeThread(c, t)
           \/ SetThreadPriority(c, t) \/ SetThreadAffinity(c, t)
    PROVE  QueueInv'
<1> DEFINE a == tcb[t]
<1>1. a \in Blocks
  BY InvGives
<1>2. PICK b \in Blocks : SetThread(t, b) /\ b.Next = a.Next /\ b.Life = a.Life /\ b.LastCpu = a.LastCpu
  <2>1. CASE SuspendThread(c, t)
    <3> DEFINE b == [a EXCEPT !.State = "blocked", !.WaitReason = "none"]
    <3>1. SetThread(t, b)
      BY <2>1 DEF SuspendThread
    <3> HIDE DEF a
    <3>2. b \in Blocks /\ b.Next = a.Next /\ b.Life = a.Life /\ b.LastCpu = a.LastCpu
      BY <1>1 DEF Blocks
    <3> QED
      BY <3>1, <3>2
  <2>2. CASE ResumeThread(c, t)
    <3> DEFINE b == [a EXCEPT !.State = "ready"]
    <3>1. SetThread(t, b)
      BY <2>2 DEF ResumeThread
    <3> HIDE DEF a
    <3>2. b \in Blocks /\ b.Next = a.Next /\ b.Life = a.Life /\ b.LastCpu = a.LastCpu
      BY <1>1 DEF Blocks
    <3> QED
      BY <3>1, <3>2
  <2>3. CASE SetThreadPriority(c, t)
    <3>1. PICK p \in Priorities : SetThread(t, [a EXCEPT !.Priority = p])
      BY <2>3 DEF SetThreadPriority
    <3> DEFINE b == [a EXCEPT !.Priority = p]
    <3>2. p \in AllPriorities
      BY SchedulerAssumption
    <3> HIDE DEF a
    <3>3. b \in Blocks /\ b.Next = a.Next /\ b.Life = a.Life /\ b.LastCpu = a.LastCpu
      BY <1>1, <3>2 DEF Blocks
    <3> QED
      BY <3>1, <3>3
  <2>4. CASE SetThreadAffinity(c, t)
    <3>1. PICK mask \in SUBSET Cpus : SetThread(t, [a EXCEPT !.Affinity = mask])
      BY <2>4 DEF SetThreadAffinity
    <3> DEFINE b == [a EXCEPT !.Affinity = mask]
    <3> HIDE DEF a
    <3>2. b \in Blocks /\ b.Next = a.Next /\ b.Life = a.Life /\ b.LastCpu = a.LastCpu
      BY <1>1, <3>1 DEF Blocks
    <3> QED
      BY <3>1, <3>2
  <2> QED
    BY <2>1, <2>2, <2>3, <2>4
<1> QED
  BY <1>2, SetThreadKeepsQueues

\* ThreadSleep and the store of the time to wake up.
LEMMA SleepKeepsQueues ==
    ASSUME QueueInv, FrameInv', NEW c \in Cpus, ThreadSleep(c) \/ SetWakeupTime(c)
    PROVE  QueueInv'
<1> DEFINE t == CurrentThreads[c]
           a == Kernel.tcb[t]
<1>1. /\ HasQueues(Kernel, Lists(Kernel)) /\ Kernel.tcb = tcb /\ tcb \in [Threads -> Blocks] /\ CpuTypes
      /\ Kernel \in Kernels
  BY InvGives
<1>2. PICK b, to : /\ CodeStep(c, frame[c].at, to, Put(Kernel, t, b)) /\ to \in Positions
                   /\ t \in Threads => /\ b \in Blocks /\ b.Next = a.Next /\ b.Life = a.Life
                                       /\ b.LastCpu = a.LastCpu
  <2>1. CASE ThreadSleep(c)
    <3> DEFINE b == [a EXCEPT !.State = "sleeping"]
    <3>1. CodeStep(c, frame[c].at, "sleep", Put(Kernel, t, b)) /\ "sleep" \in Positions
      BY <2>1, Zenon DEF ThreadSleep, CodeStep, Put, Positions
    <3>2. t \in Threads => a \in Blocks
      BY <1>1
    <3> HIDE DEF a
    <3>3. t \in Threads => b \in Blocks /\ b.Next = a.Next /\ b.Life = a.Life /\ b.LastCpu = a.LastCpu
      BY <3>2 DEF Blocks
    <3> HIDE DEF b, t
    <3> QED
      BY <3>1, <3>3, Zenon
  <2>2. CASE SetWakeupTime(c)
    <3>1. PICK ticks \in SleepTimes :
            CodeStep(c, "sleep", "slept",
              [Kernel EXCEPT !.tcb[t] = [@ EXCEPT !.WaitReason = "sleep", !.WakeupTime = ticks]])
      BY <2>2, Zenon DEF SetWakeupTime
    <3> DEFINE b == [a EXCEPT !.WaitReason = "sleep", !.WakeupTime = ticks]
    <3>2. CodeStep(c, frame[c].at, "slept", Put(Kernel, t, b)) /\ "slept" \in Positions
      BY <3>1, Zenon DEF CodeStep, Put, Positions
    <3>3. (t \in Threads => a \in Blocks) /\ ticks \in Nat
      BY <1>1, SchedulerAssumption
    <3> HIDE DEF a
    <3>4. t \in Threads => b \in Blocks /\ b.Next = a.Next /\ b.Life = a.Life /\ b.LastCpu = a.LastCpu
      BY <3>3 DEF Blocks
    <3> HIDE DEF b, t
    <3> QED
      BY <3>2, <3>4, Zenon
  <2> QED
    BY <2>1, <2>2
<1>3. /\ t # NULL /\ frame' = [frame EXCEPT ![c].at = to] /\ Becomes(Put(Kernel, t, b))
      /\ UNCHANGED <<CurrentThreads, pc>>
  BY <1>2 DEF CodeStep
<1>4. t \in Threads
  BY <1>1, <1>3 DEF CpuTypes, Links
<1> HIDE DEF t
<1>5. HasQueues(Put(Kernel, t, b), Lists(Kernel))
  BY <1>1, <1>2, <1>4, PutKeeps
<1>6. Kernel' = Put(Kernel, t, b)
  BY <1>3, <1>5, BecomesIs DEF HasQueues
<1>7. \A d \in Cpus : frame'[d].at \in Positions
  BY <1>1, <1>2, <1>3, PositionsMove DEF QueueInv
<1> QED
  BY <1>1, <1>2, <1>3, <1>4, <1>6, <1>7, PutKeepsQueues


\* A thread is created and linked into ThreadList, whose links the queues use.
LEMMA CreateThreadKeepsQueues ==
    ASSUME QueueInv, FrameInv', NEW c \in Cpus, NEW t \in Threads, NEW p \in Priorities,
           CreateThread(c, t, p)
    PROVE  QueueInv'
<1> DEFINE q == Lists(Kernel)
           b == [NoBlock EXCEPT !.Life = "linking", !.Priority = p, !.Next = ThreadList]
           k1 == Put(Kernel, t, b)
           tcb2 == IF ThreadList = NULL THEN k1.tcb ELSE SetPrev(k1.tcb, ThreadList, t)
           k2 == With(k1, tcb2, k1.sched)
<1>1. /\ HasQueues(Kernel, q) /\ Homes(Kernel, Held, q) /\ Kernel.tcb = tcb /\ Kernel \in Kernels
      /\ Kernel.sched = sched /\ Kernel.list = ThreadList /\ ThreadList \in Links
      /\ tcb \in [Threads -> Blocks]
  BY InvGives
<1>2. b \in Blocks /\ b.Life = "linking" /\ b.LastCpu = NULL
  <2>1. p \in AllPriorities
    BY SchedulerAssumption
  <2>2. "normal" \in AllPriorities
    BY DEF AllPriorities
  <2> QED
    BY <1>1, <2>1, <2>2 DEF NoBlock, Blocks, Links, Positions
<1>3. tcb[t].Life = "none" /\ UNCHANGED <<sched, ThreadList, CurrentThreads, frame, pc>>
  BY DEF CreateThread
<1>4. tcb' = IF ThreadList = NULL THEN [tcb EXCEPT ![t] = b] ELSE SetPrev([tcb EXCEPT ![t] = b], ThreadList, t)
  BY Zenon DEF CreateThread, SetPrev
<1> HIDE DEF b, q
<1>5. Free(t, q)
  BY <1>1, <1>3, NotLiveIsFree
<1>6. HasQueues(k1, q) /\ Replaced(Kernel, k1, t, b)
  BY <1>1, <1>2, <1>5, BlockIs
<1>7. k1.tcb = [tcb EXCEPT ![t] = b]
  BY <1>1 DEF Put, Kernels
<1> HIDE DEF k1
<1>8. tcb' = tcb2
  BY <1>4, <1>7
<1>9. /\ tcb2 \in [Threads -> Blocks]
      /\ \A u \in Threads : /\ tcb2[u].Next = k1.tcb[u].Next /\ tcb2[u].Life = k1.tcb[u].Life
                            /\ tcb2[u].LastCpu = k1.tcb[u].LastCpu
  <2>1. k1.tcb \in [Threads -> Blocks]
    BY <1>6, KernelIs DEF HasQueues
  <2>2. CASE ThreadList = NULL
    BY <2>1, <2>2
  <2>3. CASE ThreadList # NULL
    <3>1. ThreadList \in Threads
      BY <1>1, <2>3 DEF Links
    <3>2. SameThreads(k1.tcb, SetPrev(k1.tcb, ThreadList, t)) /\ t \in Links
      BY <2>1, <3>1, SetPrevIs DEF Links
    <3>3. /\ SetPrev(k1.tcb, ThreadList, t) \in [Threads -> Blocks]
          /\ \A u \in Threads : SetPrev(k1.tcb, ThreadList, t)[u].Next = k1.tcb[u].Next
      BY <2>1, <3>1, <3>2, SetPrevIs
    <3> QED
      BY <2>3, <3>2, <3>3 DEF SameThreads
  <2> QED
    BY <2>2, <2>3
<1> HIDE DEF tcb2
<1>10. HasQueues(k2, q)
  BY <1>6, <1>9, ThreadsAre
<1>11. k2 \in Kernels /\ k2.tcb = tcb2 /\ k2.sched = sched /\ k2.list = ThreadList /\ k2.hung = FALSE
  <2>1. k1 \in Kernels /\ k1.sched = sched /\ k1.list = ThreadList
    BY <1>1, <1>6 DEF HasQueues, Replaced
  <2> QED
    BY <1>9, <1>10, <2>1, KernelIs DEF HasQueues, With, Kernels
<1> HIDE DEF k2
<1>12. Kernel' = k2
  BY <1>3, <1>8, <1>11, BecomesIs DEF Becomes
<1>13. SameOthers(Kernel, k2, t) /\ k2.tcb[t].Life = "linking"
  BY <1>1, <1>2, <1>3, <1>6, <1>9, <1>11 DEF SameOthers, Replaced
<1>14. k2.tcb[t].Life # "live" /\ k2.tcb[t].Life # "placed"
  BY <1>13
<1> QED
  BY <1>3, <1>10, <1>12, <1>13, <1>14, FreshKeepsQueues DEF q

\* CreateThread stores the list head.
LEMMA LinkThreadKeepsQueues ==
    ASSUME QueueInv, FrameInv', NEW c \in Cpus, NEW t \in Threads, LinkThread(c, t)
    PROVE  QueueInv'
<1> DEFINE q == Lists(Kernel)
           a == Kernel.tcb[t]
           b == [a EXCEPT !.Life = "made"]
           k1 == Put(Kernel, t, b)
           k2 == [k1 EXCEPT !.list = t]
<1>1. /\ HasQueues(Kernel, q) /\ Homes(Kernel, Held, q) /\ Kernel.tcb = tcb /\ Kernel \in Kernels
      /\ Kernel.sched = sched /\ tcb \in [Threads -> Blocks]
  BY InvGives
<1>2. /\ tcb[t].Life = "linking" /\ tcb' = [tcb EXCEPT ![t] = b] /\ ThreadList' = t
      /\ UNCHANGED <<sched, CurrentThreads, frame, pc>>
  BY <1>1, Zenon DEF LinkThread
<1>3. b \in Blocks /\ b.Life = "made" /\ b.Next = a.Next
  <2>1. a \in Blocks
    BY <1>1
  <2> HIDE DEF a
  <2> QED
    BY <2>1 DEF Blocks
<1>4. k1.tcb = [tcb EXCEPT ![t] = b]
  BY <1>1 DEF Put, Kernels
<1> HIDE DEF b, q
<1>5. HasQueues(k1, q) /\ Replaced(Kernel, k1, t, b)
  BY <1>1, <1>3, BlockIs
<1> HIDE DEF k1
<1>6. /\ k2 \in Kernels /\ k2.tcb = k1.tcb /\ k2.sched = k1.sched /\ k2.list = t /\ k2.hung = FALSE
  <2>1. k1 \in Kernels
    BY <1>5 DEF HasQueues
  <2> QED
    BY <2>1 DEF Kernels, Links
<1> HIDE DEF k2
<1>7. HasQueues(k2, q)
  <2>1. Nexts(k2) = Nexts(k1) /\ Heads(k2) = Heads(k1)
    BY <1>6 DEF Nexts, Heads
  <2> QED
    BY <1>5, <1>6, <2>1 DEF HasQueues
<1>8. Kernel' = k2
  BY <1>1, <1>2, <1>4, <1>5, <1>6, BecomesIs DEF Becomes, Replaced
<1>9. SameOthers(Kernel, k2, t) /\ k2.tcb[t].Life = "made"
  BY <1>1, <1>2, <1>3, <1>5, <1>6 DEF SameOthers, Replaced
<1>10. k2.tcb[t].Life # "live" /\ k2.tcb[t].Life # "placed"
  BY <1>9
<1> QED
  BY <1>2, <1>7, <1>8, <1>9, <1>10, FreshKeepsQueues DEF q



\* CalculateOptimalCpu answers a CPU.
LEMMA OptimalIs ==
    ASSUME QueueInv, NEW t \in Threads
    PROVE  CalculateOptimalCpu(t) \in Cpus
<1> DEFINE allowed == tcb[t].Affinity
           Load(c) == sched[c].ReadyCount
           Best(c) == \A d \in allowed : Load(c) < Load(d) \/ (Load(c) = Load(d) /\ c <= d)
<1>1. allowed \subseteq Cpus /\ Cpus \subseteq Nat /\ 0 \in Cpus
  <2>1. tcb[t] \in Blocks
    BY InvGives
  <2>2. allowed \subseteq Cpus
    BY <2>1 DEF Blocks
  <2> QED
    BY <2>2, SchedulerAssumption DEF Cpus
<1>2. \A c \in Cpus : Load(c) \in Nat
  BY InvGives DEF Scheds
<1>3. CalculateOptimalCpu(t) = IF allowed = {} THEN 0 ELSE CHOOSE c \in allowed : Best(c)
  BY Zenon DEF CalculateOptimalCpu
<1> HIDE DEF allowed, Load
<1>4. ASSUME allowed # {} PROVE \E c \in allowed : Best(c)
  <2> DEFINE loads == {Load(c) : c \in allowed}
  <2>1. loads \in SUBSET Nat /\ loads # {}
    BY <1>1, <1>2, <1>4
  <2>2. PICK n \in loads : \A m \in loads : n <= m
    BY <2>1, LeastNat
  <2> DEFINE least == {c \in allowed : Load(c) = n}
  <2>3. least \in SUBSET Nat /\ least # {}
    BY <1>1, <2>2
  <2>4. PICK c \in least : \A d \in least : c <= d
    BY <2>3, LeastNat
  <2>5. Best(c)
    <3> SUFFICES ASSUME NEW d \in allowed PROVE Load(c) < Load(d) \/ (Load(c) = Load(d) /\ c <= d)
      OBVIOUS
    <3>1. Load(c) = n /\ n <= Load(d) /\ Load(d) \in Nat /\ n \in Nat
      BY <1>1, <1>2, <2>1, <2>2, <2>4
    <3>2. Load(d) = n => c <= d
      BY <2>4
    <3> QED
      BY <3>1, <3>2
  <2> QED
    BY <2>4, <2>5
<1> HIDE DEF Best
<1> QED
  BY <1>1, <1>3, <1>4

\* ThreadExecute chooses a CPU.
LEMMA PlaceThreadKeepsQueues ==
    ASSUME QueueInv, FrameInv', NEW c \in Cpus, NEW t \in Threads, PlaceThread(c, t)
    PROVE  QueueInv'
<1> DEFINE a == tcb[t]
           home == CalculateOptimalCpu(t)
           b == [a EXCEPT !.Life = "placed", !.LastCpu = home, !.State = "ready"]
           k2 == Put(Kernel, t, b)
<1>1. a \in Blocks /\ a.Life = "made" /\ SetThread(t, b) /\ Kernel.tcb = tcb
  BY InvGives DEF PlaceThread
<1>2. home \in Cpus
  BY OptimalIs
<1> HIDE DEF a, home
<1>3. b \in Blocks /\ b.Next = a.Next /\ b.Life = "placed" /\ b.LastCpu \in Cpus
  BY <1>1, <1>2 DEF Blocks
<1> HIDE DEF b
<1>4. Kernel' = k2 /\ HasQueues(k2, Lists(Kernel)) /\ Replaced(Kernel, k2, t, b)
  BY <1>1, <1>3, SetThreadIs DEF a
<1> HIDE DEF k2
<1>5. SameOthers(Kernel, k2, t) /\ k2.tcb[t] = b
  BY <1>1, <1>4 DEF SameOthers, Replaced, a
<1>6. UNCHANGED <<sched, CurrentThreads, frame, pc>>
  BY <1>1 DEF SetThread
<1>7. k2.tcb[t].Life # "live" /\ k2.tcb[t].LastCpu \in Cpus
  BY <1>3, <1>5
<1> QED
  BY <1>4, <1>5, <1>6, <1>7, FreshKeepsQueues

\* ThreadExecute enqueues the thread on the CPU it chose.
LEMMA ThreadExecuteKeepsQueues ==
    ASSUME QueueInv, FrameInv', NEW c \in Cpus, NEW t \in Threads, ThreadExecute(c, t)
    PROVE  QueueInv'
<1> DEFINE q == Lists(Kernel)
           home == tcb[t].LastCpu
           q2 == AppendTo(q, <<home, "ready">>, t)
           k1 == AddThreadToReadyQueue(Kernel, home, t)
           a == k1.tcb[t]
           b == [a EXCEPT !.Life = "live"]
           k2 == Put(k1, t, b)
<1>1. /\ HasQueues(Kernel, q) /\ Homes(Kernel, Held, q) /\ Kernel.tcb = tcb /\ Kernel \in Kernels
      /\ Owned(Kernel, CurrentThreads) /\ Kernel.sched = sched /\ CpuTypes
  BY InvGives
<1>2. tcb[t].Life = "placed" /\ Becomes(k2) /\ UNCHANGED <<CurrentThreads, frame, pc>>
  BY Zenon DEF ThreadExecute, Put
<1> HIDE DEF q
<1>3. home \in Cpus /\ Free(t, q)
  BY <1>1, <1>2, NotLiveIsFree DEF Homes
<1> HIDE DEF home
<1>4. HasQueues(k1, q2) /\ Kept(Kernel, k1)
  BY <1>1, <1>3, ReadyIs DEF home
<1> HIDE DEF k1
<1>5. b \in Blocks /\ b.Life = "live" /\ b.Next = a.Next /\ b.LastCpu = home
  <2>1. a \in Blocks /\ a.LastCpu = home
    BY <1>1, <1>4, KernelIs DEF HasQueues, Kept, home
  <2> HIDE DEF a
  <2> QED
    BY <2>1 DEF Blocks
<1> HIDE DEF b
<1>6. HasQueues(k2, q2) /\ Replaced(k1, k2, t, b)
  <2> HIDE DEF q2
  <2> QED
    BY <1>4, <1>5, BlockIs
<1> HIDE DEF k2
<1>7. Kernel' = k2
  BY <1>2, <1>6, BecomesIs DEF HasQueues
<1>8. SameOthers(Kernel, k2, t) /\ LivesOn(k2, t, home)
  BY <1>1, <1>2, <1>4, <1>5, <1>6 DEF SameOthers, Replaced, Kept, LivesOn
<1>9. Gains(q, q2, home, t)
  <2>1. q \in [Queues -> Seq(Threads)]
    BY <1>1 DEF HasQueues, Spells
  <2>2. "ready" \in Kinds
    BY DEF Kinds
  <2> QED
    BY <1>3, <2>1, <2>2, AppendGains
<1>10. SameHeld(Held, Held')
  <2>1. sched' = k2.sched
    BY <1>7 DEF Kernel
  <2>2. \A d \in Cpus : sched'[d].CurrentThread = sched[d].CurrentThread
    BY <1>1, <1>4, <1>6, <2>1 DEF Kept, Replaced
  <2> QED
    BY <1>2, <2>2 DEF SameHeld, Held
<1> HIDE DEF q2
<1>11. Homes(k2, Held', q2)
  <2> PICK held2 : held2 = Held'
    OBVIOUS
  <2>1. SameHeld(Held, held2)
    BY <1>10
  <2>2. Homes(k2, held2, q2)
    BY <1>1, <1>3, <1>8, <1>9, <2>1, HomesStarted, Zenon
  <2> QED
    BY <2>2
<1>12. Owned(k2, CurrentThreads')
  <2>1. Owned(k2, CurrentThreads)
    BY <1>1, <1>8, OwnedStays, Zenon
  <2> QED
    BY <1>2, <2>1
<1>13. CpuTypes'
  BY <1>1, <1>2 DEF CpuTypes
<1> QED
  BY <1>6, <1>7, <1>11, <1>12, <1>13, InvIs, Zenon



-----------------------------------------------------------------------------
(* The invariant and what it says of the scheduler *)

Undisturbed == Calls \cap {"exit", "destroy"} = {}

\* At boot every queue is empty and no CPU has a thread.
LEMMA BootHasQueues ==
    ASSUME Init
    PROVE  QueueInv
<1> DEFINE q == [x \in Queues |-> <<>>]
<1>1. /\ tcb \in [Threads -> Blocks] /\ \A t \in Threads : tcb[t].Next = NULL /\ tcb[t].Life = "none"
      /\ sched \in [Cpus -> Scheds] /\ ThreadList = NULL
      /\ \A c \in Cpus : /\ sched[c].ReadyQueue = NULL /\ sched[c].WaitingQueue = NULL
                         /\ sched[c].SleepingQueue = NULL /\ sched[c].CurrentThread = NULL
                         /\ sched[c].ReadyCount = 0
  <2>1. NoBlock \in Blocks /\ NoBlock.Next = NULL /\ NoBlock.Life = "none"
    BY DEF NoBlock, Blocks, Links, Positions, AllPriorities
  <2>2. tcb = [t \in Threads |-> NoBlock]
    BY DEF Init
  <2>3. tcb \in [Threads -> Blocks] /\ \A t \in Threads : tcb[t].Next = NULL /\ tcb[t].Life = "none"
    BY <2>1, <2>2
  <2> QED
    BY <2>3 DEF Init, Scheds, Links
<1>2. Kernel \in Kernels
  BY <1>1 DEF Kernel, Kernels, Links
<1>3. HasQueues(Kernel, q)
  <2>1. Nexts(Kernel) \in [Threads -> Links] /\ Heads(Kernel) = [x \in Queues |-> NULL]
    <3>1. Kernel.tcb = tcb /\ Kernel.sched = sched
      BY DEF Kernel
    <3>2. Nexts(Kernel) \in [Threads -> Links]
      BY <1>1, <3>1 DEF Nexts, Links
    <3>3. ASSUME NEW x \in Queues PROVE HeadsOf(Kernel.sched[x[1]])[x[2]] = NULL
      BY <1>1, <3>1 DEF HeadsOf, Queues, Kinds
    <3> QED
      BY <3>2, <3>3 DEF Heads
  <2>2. q \in [Queues -> Seq(Threads)] /\ \A x \in Queues : Len(q[x]) = 0 /\ q[x] = <<>>
    OBVIOUS
  <2>3. \A x \in Queues : Linked(Nexts(Kernel), Heads(Kernel)[x], q[x])
    BY <2>1, <2>2 DEF Linked
  <2>4. Apart(q)
    BY <2>2 DEF Apart
  <2>5. Heads(Kernel) \in [Queues -> Links]
    BY <2>1 DEF Links
  <2>6. \A c \in Cpus : Kernel.sched[c].ReadyCount = Len(q[<<c, "ready">>])
    BY <1>1, <2>2, HeadIs DEF Kernel
  <2> HIDE DEF q
  <2> QED
    BY <1>2, <2>1, <2>2, <2>3, <2>4, <2>5, <2>6 DEF HasQueues, Spells
<1>4. Homes(Kernel, Held, q)
  <2>1. \A c \in Cpus : On(q, c) = {} /\ Held[c] = NULL
    BY <1>1 DEF On, Held
  <2> QED
    BY <1>1, <2>1 DEF Homes, Kernel
<1>5. Owned(Kernel, CurrentThreads) /\ CpuTypes /\ FrameInv
  BY DEF Init, Owned, CpuTypes, FrameInv, HeldSteps, Positions, Links
<1>6. Lists(Kernel) = q
  BY <1>3, ListsAre
<1> QED
  BY <1>3, <1>4, <1>5, <1>6, Zenon DEF QueueInv

\* Every step keeps the queues when no call exits or destroys a thread.
LEMMA StepKeepsQueues ==
    ASSUME Undisturbed, QueueInv, [Next]_vars
    PROVE  QueueInv'
<1>1. FrameInv'
  BY StepKeepsFrames DEF QueueInv
<1>2. CASE UNCHANGED vars
  <2>1. Kernel' = Kernel /\ Held' = Held /\ CurrentThreads' = CurrentThreads
    BY <1>2 DEF vars, Kernel, Held
  <2>2. CpuTypes'
    BY <1>2 DEF QueueInv, CpuTypes, vars
  <2>3. Lists(Kernel') = Lists(Kernel)
    BY <2>1
  <2> QED
    BY <1>1, <2>1, <2>2, <2>3 DEF QueueInv
<1>3. CASE Next
  <2>1. PICK c \in Cpus : TimerInterrupt(c) \/ Handler(c) \/ Code(c)
    BY <1>3 DEF Next
  <2>2. CASE TimerInterrupt(c)
    BY <1>1, <2>2, TimerInterruptKeepsQueues
  <2>3. CASE Handler(c)
    BY <1>1, <2>3, TimerHandlerKeepsQueues, SaveCurrentKeepsQueues, SelectAgainKeepsQueues,
       CleanUpKeepsQueues, IdleKeepsQueues, CoolDownKeepsQueues, RunKeepsQueues DEF Handler
  <2>4. CASE ThreadSleep(c) \/ SetWakeupTime(c)
    BY <1>1, <2>4, SleepKeepsQueues
  <2>5. CASE ThreadExit(c) \/ ExitEnqueues(c)
    <3>1. frame[c].at # "exit"
      BY DEF QueueInv, CpuTypes, Positions
    <3>2. "exit" \notin Calls
      BY DEF Undisturbed
    <3> QED
      BY <2>5, <3>1, <3>2 DEF ThreadExit, ExitEnqueues, CodeStep
  <2>6. ASSUME NEW t \in Threads,
               \/ \E p \in Priorities : CreateThread(c, t, p)
               \/ LinkThread(c, t) \/ PlaceThread(c, t) \/ ThreadExecute(c, t)
               \/ DestroyUnused(c, t) \/ SuspendThread(c, t) \/ ResumeThread(c, t)
               \/ SetThreadPriority(c, t) \/ SetThreadAffinity(c, t)
        PROVE  QueueInv'
    <3>1. ~DestroyUnused(c, t)
      BY DEF Undisturbed, DestroyUnused
    <3> QED
      BY <1>1, <2>6, <3>1, CreateThreadKeepsQueues, LinkThreadKeepsQueues, PlaceThreadKeepsQueues,
         ThreadExecuteKeepsQueues, ControlKeepsQueues
  <2> QED
    BY <2>1, <2>2, <2>3, <2>4, <2>5, <2>6 DEF Code
<1> QED
  BY <1>2, <1>3

\* While no call exits or destroys a thread, the queues of every CPU are
\* correctly linked and counted, and every thread has its place, in every
\* reachable state.
THEOREM SchedulerQueues ==
    ASSUME Undisturbed
    PROVE  Spec => []QueueInv
<1>1. Init => QueueInv
  BY BootHasQueues
<1>2. QueueInv /\ [Next]_vars => QueueInv'
  BY StepKeepsQueues
<1> QED
  BY <1>1, <1>2, PTL DEF Spec

\* The queues of a CPU, walked.
LEMMA WalkIs ==
    ASSUME NEW c \in Cpus
    PROVE  /\ Ready(c) = Lists(Kernel)[<<c, "ready">>]
           /\ Waiting(c) = Lists(Kernel)[<<c, "waiting">>]
           /\ Sleeping(c) = Lists(Kernel)[<<c, "sleeping">>]
<1>1. Kernel.tcb = tcb /\ Kernel.sched = sched
  BY DEF Kernel
<1> QED
  BY <1>1, HeadIs DEF Ready, Waiting, Sleeping, Lists

\* Whatever changed it, the timer interrupt, the wake-ups or ThreadExecute on
\* another CPU, ReadyCount is the length of the ready queue (Scheduler.c).
THEOREM SchedulerReadyCountIsLength ==
    ASSUME Undisturbed
    PROVE  Spec => []ReadyCountIsLength
<1>1. QueueInv => ReadyCountIsLength
  <2> SUFFICES ASSUME QueueInv, NEW c \in Cpus PROVE sched[c].ReadyCount = Len(Ready(c))
    BY DEF ReadyCountIsLength
  <2>1. Kernel.sched = sched
    BY DEF Kernel
  <2> QED
    BY <2>1, WalkIs DEF QueueInv, HasQueues
<1> QED
  BY <1>1, SchedulerQueues, PTL

\* No two CPUs execute one thread: a thread stays on the CPU that ThreadExecute
\* chose for it, and only the CPU that dequeues it runs it (Scheduler.c).
THEOREM SchedulerOneCpuPerThread ==
    ASSUME Undisturbed
    PROVE  Spec => []OneCpuPerThread
<1>1. QueueInv => OneCpuPerThread
  <2> SUFFICES ASSUME QueueInv, NEW c \in Cpus, NEW d \in Cpus, frame[c].thread = frame[d].thread,
                      frame[c].thread # NULL
               PROVE  c = d
    BY DEF OneCpuPerThread
  <2>1. frame[c].thread = CurrentThreads[c] /\ frame[d].thread = CurrentThreads[d]
    BY DEF QueueInv, FrameInv
  <2> QED
    BY <2>1 DEF QueueInv, Owned, LivesOn
<1> QED
  BY <1>1, SchedulerQueues, PTL

\* A place of the scheduler is a position of a queue or a CPU that holds the
\* thread.
LEMMA PlaceIs ==
    ASSUME QueueInv, NEW t \in Threads, NEW p
    PROVE  p \in Places(t) <=>
             \/ \E x \in Queues : \E i \in 1 .. Len(Lists(Kernel)[x]) :
                  Lists(Kernel)[x][i] = t /\ p = <<x[1], x[2], i>>
             \/ \E c \in Cpus : Held[c] = t /\ p = <<c, "current", 1>>
<1> DEFINE q == Lists(Kernel)
           Position(c, kind) == {i \in 1 .. Len(q[<<c, kind>>]) : q[<<c, kind>>][i] = t}
           Seats(c, kind) == {c} \X {kind} \X Position(c, kind)
           Hold(c) == IF sched[c].CurrentThread = t /\ pc[c] \in {"thread", "wake", "save"}
                      THEN {<<c, "current", 1>>} ELSE {}
<1>1. q \in [Queues -> Seq(Threads)]
  BY DEF QueueInv, HasQueues, Spells
<1>2. ASSUME NEW c \in Cpus
      PROVE  /\ {i \in DOMAIN Ready(c) : Ready(c)[i] = t} = Position(c, "ready")
             /\ {i \in DOMAIN Waiting(c) : Waiting(c)[i] = t} = Position(c, "waiting")
             /\ {i \in DOMAIN Sleeping(c) : Sleeping(c)[i] = t} = Position(c, "sleeping")
  <2>1. \A x \in Queues : DOMAIN q[x] = 1 .. Len(q[x])
    BY <1>1
  <2> HIDE DEF q
  <2> QED
    BY <2>1, WalkIs, HeadIs DEF q
<1> DEFINE At(c) == ({c} \X {"ready"} \X {i \in DOMAIN Ready(c) : Ready(c)[i] = t})
                     \cup ({c} \X {"waiting"} \X {i \in DOMAIN Waiting(c) : Waiting(c)[i] = t})
                     \cup ({c} \X {"sleeping"} \X {i \in DOMAIN Sleeping(c) : Sleeping(c)[i] = t})
                     \cup Hold(c)
<1>3. /\ Places(t) = UNION {At(c) : c \in Cpus}
      /\ \A c \in Cpus : At(c) = Seats(c, "ready") \cup Seats(c, "waiting") \cup Seats(c, "sleeping") \cup Hold(c)
  <2>1. Places(t) = UNION {At(c) : c \in Cpus}
    BY Zenon DEF Places
  <2> HIDE DEF Position, Hold
  <2> QED
    BY <1>2, <2>1, Zenon
<1>4. \A c \in Cpus : Held[c] = t <=> sched[c].CurrentThread = t /\ pc[c] \in {"thread", "wake", "save"}
  BY SchedulerAssumption DEF Held, HeldSteps
<1>5. \A c \in Cpus : p \in Hold(c) <=> Held[c] = t /\ p = <<c, "current", 1>>
  BY <1>4
<1>6. \A c \in Cpus, kind \in Kinds :
        p \in Seats(c, kind) <=> \E i \in Position(c, kind) : p = <<c, kind, i>>
  <2> HIDE DEF Position
  <2> QED
    OBVIOUS
<1>7. p \in Places(t) <=> \/ \E c \in Cpus, kind \in Kinds : p \in Seats(c, kind)
                          \/ \E c \in Cpus : p \in Hold(c)
  <2> HIDE DEF Seats, Hold, At
  <2> QED
    BY <1>3 DEF Kinds
<1>8. (\E c \in Cpus, kind \in Kinds : \E i \in Position(c, kind) : p = <<c, kind, i>>)
        <=> \E x \in Queues : \E i \in 1 .. Len(q[x]) : q[x][i] = t /\ p = <<x[1], x[2], i>>
  <2> HIDE DEF q
  <2>1. \A c \in Cpus, kind \in Kinds : <<c, kind>> \in Queues /\ <<c, kind>>[1] = c /\ <<c, kind>>[2] = kind
    BY DEF Queues
  <2>2. \A x \in Queues : x[1] \in Cpus /\ x[2] \in Kinds /\ x = <<x[1], x[2]>>
    BY DEF Queues
  <2>3. ASSUME NEW c \in Cpus, NEW kind \in Kinds, NEW i \in Position(c, kind), p = <<c, kind, i>>
        PROVE  \E x \in Queues : \E j \in 1 .. Len(q[x]) : q[x][j] = t /\ p = <<x[1], x[2], j>>
    BY <2>1, <2>3
  <2>4. ASSUME NEW x \in Queues, NEW i \in 1 .. Len(q[x]), q[x][i] = t, p = <<x[1], x[2], i>>
        PROVE  \E c \in Cpus, kind \in Kinds : \E j \in Position(c, kind) : p = <<c, kind, j>>
    <3>1. i \in Position(x[1], x[2])
      BY <2>2, <2>4
    <3> QED
      BY <2>2, <2>4, <3>1
  <2> QED
    BY <2>3, <2>4
<1> HIDE DEF Seats, Hold, Position, At
<1> QED
  BY <1>5, <1>6, <1>7, <1>8

\* A thread that has been executed is in exactly one place, in one queue of one
\* CPU or held by one: relinking the queues never drops it and never queues it
\* twice (AddThreadToReadyQueue, WakeupSleepingThreads and the others,
\* Scheduler.c).
THEOREM SchedulerOnePlacePerThread ==
    ASSUME Undisturbed
    PROVE  Spec => []OnePlacePerThread
<1>1. QueueInv => OnePlacePerThread
  <2> SUFFICES ASSUME QueueInv, NEW t \in Threads, tcb[t].Life = "live"
               PROVE  Cardinality(Places(t)) = 1
    BY DEF OnePlacePerThread
  <2> DEFINE q == Lists(Kernel)
             Queued(p, x, i) == q[x][i] = t /\ p = <<x[1], x[2], i>>
  <2>1. Homes(Kernel, Held, q) /\ Apart(q) /\ Kernel.tcb = tcb
    BY DEF QueueInv, HasQueues, Spells, Kernel
  <2>2. \A p : p \in Places(t) <=>
          \/ \E x \in Queues : \E i \in 1 .. Len(q[x]) : Queued(p, x, i)
          \/ \E c \in Cpus : Held[c] = t /\ p = <<c, "current", 1>>
    BY PlaceIs
  <2> HIDE DEF q
  <2>3. t # NULL
    BY SchedulerAssumption
  <2>4. \A x \in Queues : \A i \in 1 .. Len(q[x]) :
          q[x][i] = t => x[1] \in Cpus /\ t \in On(q, x[1]) /\ tcb[t].LastCpu = x[1]
    <3> SUFFICES ASSUME NEW x \in Queues, NEW i \in 1 .. Len(q[x]), q[x][i] = t
                 PROVE  x[1] \in Cpus /\ t \in On(q, x[1]) /\ tcb[t].LastCpu = x[1]
      OBVIOUS
    <3>1. x[1] \in Cpus
      BY DEF Queues
    <3>2. t \in On(q, x[1])
      BY DEF On
    <3> QED
      BY <2>1, <3>1, <3>2 DEF Homes, LivesOn
  <2>5. \A c \in Cpus : Held[c] = t => tcb[t].LastCpu = c /\ t \notin On(q, c)
    BY <2>1, <2>3 DEF Homes, LivesOn
  <2>6. \E p : p \in Places(t)
    <3>1. PICK c \in Cpus : t \in On(q, c) \/ t = Held[c]
      BY <2>1 DEF Homes
    <3>2. CASE t \in On(q, c)
      <4>1. PICK x \in Queues : \E i \in 1 .. Len(q[x]) : q[x][i] = t
        BY <3>2 DEF On
      <4>2. PICK i \in 1 .. Len(q[x]) : q[x][i] = t
        BY <4>1
      <4> QED
        BY <2>2, <4>2
    <3>3. CASE t = Held[c]
      BY <2>2, <3>3
    <3> QED
      BY <3>1, <3>2, <3>3
  <2>7. ASSUME NEW p \in Places(t), NEW r \in Places(t) PROVE p = r
    <3>1. CASE /\ \E x \in Queues : \E i \in 1 .. Len(q[x]) : Queued(p, x, i)
               /\ \E y \in Queues : \E j \in 1 .. Len(q[y]) : Queued(r, y, j)
      <4>1. PICK x \in Queues : \E i \in 1 .. Len(q[x]) : Queued(p, x, i)
        BY <3>1
      <4>2. PICK y \in Queues : \E j \in 1 .. Len(q[y]) : Queued(r, y, j)
        BY <3>1
      <4>3. PICK i \in 1 .. Len(q[x]) : Queued(p, x, i)
        BY <4>1
      <4>4. PICK j \in 1 .. Len(q[y]) : Queued(r, y, j)
        BY <4>2
      <4>5. x = y /\ i = j
        BY <2>1, <4>3, <4>4 DEF Apart
      <4> QED
        BY <4>3, <4>4, <4>5
    <3>2. CASE /\ \E x \in Queues : \E i \in 1 .. Len(q[x]) : q[x][i] = t
               /\ \E c \in Cpus : Held[c] = t
      BY <2>4, <2>5, <3>2
    <3>3. CASE /\ \E c \in Cpus : Held[c] = t /\ p = <<c, "current", 1>>
               /\ \E c \in Cpus : Held[c] = t /\ r = <<c, "current", 1>>
      BY <2>5, <3>3
    <3> QED
      BY <2>2, <3>1, <3>2, <3>3
  <2>8. PICK p : Places(t) = {p}
    BY <2>6, <2>7
  <2> QED
    BY <2>8, FS_Singleton
<1> QED
  BY <1>1, SchedulerQueues, PTL


=============================================================================
