--------------------------- MODULE ProcessProofs ---------------------------
(***************************************************************************)
(* Proofs about Process: the table lists exactly the structures that are   *)
(* not freed, a directory of /proc is of a process of the table, pids are  *)
(* unique, and wait4 reaps a child of the caller, for any number of        *)
(* processes, CPUs and signals and any size of the table and the cache.    *)
(***************************************************************************)
EXTENDS Process, SequenceTheorems, FiniteSetTheorems, WellFoundedInduction, TLAPS

Fields == {"st", "pid", "ppid", "zombie", "code", "pend", "mask", "hand", "th", "call", "died"}

Shaped(f) == f = [o \in Objs |-> f[o]] /\ \A o \in Objs : DOMAIN f[o] = Fields

Live(o) == obj[o].st = "live"

\* The variables have their types; structures are taken in order.
ShapeInv ==
    /\ Shaped(obj)
    /\ made \in Objs
    /\ items \in Seq(Objs)
    /\ nextPid \in Nat \ {0}
    /\ cache \in [Cached -> Objs \cup {0}]
    /\ raced \in BOOLEAN /\ orphaned \in BOOLEAN
    /\ \A o \in Objs : obj[o].st \in {"none", "live", "freed"} /\ (obj[o].st = "none" <=> o > made)
    /\ \A o \in Objs : Live(o) => obj[o].pid \in Nat \ {0}

\* What a call in progress holds on to has been allocated.
CallInv ==
    \A o \in Objs :
        /\ obj[o].st = "none" => obj[o].call.op = "user"
        /\ obj[o].call.op = "create" => obj[o].call.pid \in Nat \ {0}
        /\ obj[o].call.op \in {"copy", "reap"} => obj[o].call.child \in 1 .. made
        /\ obj[o].call.op = "exit" => obj[o].call.of \in 1 .. made

\* The items are distinct and are the live structures.
TableInv ==
    /\ Len(items) <= MaxProcs
    /\ \A i, j \in 1 .. Len(items) : items[i] = items[j] => i = j
    /\ \A o \in Objs : Live(o) <=> \E i \in 1 .. Len(items) : items[i] = o

\* A directory is of a live structure, and a structure that is being reaped
\* has lost its directory for good.
DirInv ==
    /\ \A pid \in Cached : cache[pid] # 0 => Live(cache[pid]) /\ obj[cache[pid]].pid = pid
    /\ \A o \in Objs : obj[o].call.op = "reap" =>
          LET c == obj[o].call.child
          IN  Live(c) /\ obj[c].pid \in Cached => cache[obj[c].pid] # c

\* Without a race the next pid is above every pid in use.
PidInv ==
    ~raced => /\ \A o \in Objs : Live(o) => obj[o].pid < nextPid
              /\ \A o, q \in Objs : Live(o) /\ Live(q) /\ obj[o].pid = obj[q].pid => o = q

\* A zombie's code is one that PosixExit gave it.
ExitInv == \A o \in Objs : Live(o) /\ obj[o].zombie => obj[o].code \in obj[o].died

\* A child between PosixProcCreate and the end of fork has one creator and no
\* parent; a child between wait4's scan and its removal is the caller's own.
FamilyInv ==
    ~raced /\ ~orphaned =>
        /\ \A o \in Objs : obj[o].st = "freed" => obj[o].th # "ready"
        /\ \A o \in Objs : Live(o) /\ obj[o].call.op = "copy" =>
              Live(obj[o].call.child) /\ obj[obj[o].call.child].ppid = 0
        /\ \A o, q \in Objs :
              /\ Live(o) /\ obj[o].call.op = "copy"
              /\ Live(q) /\ obj[q].call.op = "copy"
              /\ obj[o].call.child = obj[q].call.child
              => o = q
        /\ \A o \in Objs : Live(o) /\ obj[o].call.op = "reap" =>
              /\ Live(obj[o].call.child)
              /\ obj[obj[o].call.child].ppid = obj[o].pid
              /\ obj[o].call.code \in obj[obj[o].call.child].died

ProcInv ==
    ShapeInv /\ CallInv /\ TableInv /\ DirInv /\ PidInv /\ ExitInv /\ FamilyInv

----------------------------------------------------------------------------
(* Lookups *)

\* A set of naturals has a least element.
LEMMA LeastNat ==
    ASSUME NEW T \in SUBSET Nat, T # {}
    PROVE  \E x \in T : \A y \in T : x <= y
<1> DEFINE less == {ss \in Nat \X Nat : ss[1] < ss[2]}
<1>1. OpToRel(<, Nat) = less
  BY Zenon DEF OpToRel
<1>2. IsWellFoundedOn(less, Nat)
  BY <1>1, NatLessThanWellFounded, Zenon
<1> HIDE DEF less
<1>3. PICK x \in T : \A y \in T : ~ (<<y, x>> \in less)
  BY <1>2, WFMin, Zenon
<1>4. ASSUME NEW y \in T PROVE x <= y
  <2>1. <<y, x>> \in Nat \X Nat /\ <<y, x>>[1] = y /\ <<y, x>>[2] = x
    OBVIOUS
  <2>2. ~(<<y, x>>[1] < <<y, x>>[2])
    BY <1>3, <2>1, Zenon DEF less
  <2>3. ~(y < x)
    BY <2>1, <2>2
  <2> QED
    BY <2>3
<1> QED
  BY <1>4

\* PosixFind answers a live structure with the pid, or none.
LEMMA FindIs ==
    ASSUME ShapeInv, TableInv, NEW pid
    PROVE  \/ PosixFind(pid) = 0
           \/ /\ PosixFind(pid) \in Objs
              /\ Live(PosixFind(pid))
              /\ obj[PosixFind(pid)].pid = pid
<1> DEFINE at == {i \in DOMAIN items : obj[items[i]].pid = pid}
<1>1. DOMAIN items = 1 .. Len(items) /\ Len(items) \in Nat /\ \A i \in 1 .. Len(items) : items[i] \in Objs
  BY DEF ShapeInv
<1>2. CASE at = {}
  BY <1>2 DEF PosixFind
<1>3. CASE at # {}
  <2>1. \E i \in at : \A j \in at : i <= j
    <3>1. at \in SUBSET Nat
      BY <1>1
    <3> HIDE DEF at
    <3> QED
      BY <1>3, <3>1, LeastNat, Zenon
  <2> DEFINE k == CHOOSE i \in at : \A j \in at : i <= j
  <2>2. k \in at
    BY <2>1
  <2>3. PosixFind(pid) = items[k]
    BY <1>3 DEF PosixFind
  <2> HIDE DEF k
  <2>4. k \in 1 .. Len(items) /\ obj[items[k]].pid = pid /\ items[k] \in Objs
    BY <1>1, <2>2
  <2> QED
    BY <2>3, <2>4 DEF TableInv
<1> QED
  BY <1>2, <1>3

\* So does ProcLookup, whichever of the cache and the table answers.
LEMMA LookupIs ==
    ASSUME ProcInv, NEW pid
    PROVE  ProcLookup(pid) = 0 \/ (ProcLookup(pid) \in Objs /\ Live(ProcLookup(pid)))
<1>1. CASE pid \in Cached /\ cache[pid] # 0
  BY <1>1 DEF ProcLookup, ProcInv, DirInv, ShapeInv
<1>2. CASE ~(pid \in Cached /\ cache[pid] # 0)
  BY <1>2, FindIs DEF ProcLookup, ProcInv
<1> QED
  BY <1>1, <1>2

----------------------------------------------------------------------------
(* Steps that allocate, link and free nothing *)

\* What such a step may do to a structure.
Quiet(q) ==
    /\ obj'[q].st = obj[q].st /\ obj'[q].pid = obj[q].pid /\ obj'[q].ppid = obj[q].ppid
    /\ obj[q].died \subseteq obj'[q].died
    /\ Live(q) /\ obj'[q].zombie => obj'[q].code \in obj'[q].died
    /\ obj[q].st = "freed" /\ obj'[q].th = "ready" => obj[q].th = "ready"
    /\ \/ obj'[q].call = obj[q].call
       \/ obj'[q].call.op = "user"
       \/ obj[q].st # "none" /\ obj'[q].call.op \in {"spin", "wait"}
       \/ obj[q].st # "none" /\ obj'[q].call.op = "create" /\ obj'[q].call.pid \in Nat \ {0}
       \/ obj[q].st # "none" /\ obj'[q].call.op = "exit" /\ obj'[q].call.of \in 1 .. made

\* The invariant survives it, and a pid that is taken and not used.
LEMMA QuietOrFailedStep ==
    ASSUME ProcInv, Shaped(obj'), \A q \in Objs : Quiet(q),
           UNCHANGED <<made, items, cache, orphaned>>,
           nextPid' \in Nat \ {0}, raced' \in BOOLEAN,
           ~raced' => ~raced /\ nextPid' >= nextPid
    PROVE  ProcInv'
<1>1. ShapeInv'
  BY DEF ProcInv, ShapeInv, Shaped, Quiet, Live
<1>2. CallInv'
  BY DEF ProcInv, CallInv, Quiet
<1>3. TableInv'
  BY DEF ProcInv, TableInv, Quiet, Live
<1>4. DirInv'
  <2>1. ASSUME NEW pid \in Cached, cache'[pid] # 0
        PROVE  obj'[cache'[pid]].st = "live" /\ obj'[cache'[pid]].pid = pid
    <3>1. cache[pid] \in Objs /\ Live(cache[pid]) /\ obj[cache[pid]].pid = pid
      BY <2>1 DEF ProcInv, DirInv, ShapeInv
    <3> QED
      BY <3>1 DEF Quiet, Live
  <2>2. ASSUME NEW o \in Objs, obj'[o].call.op = "reap",
               obj'[obj'[o].call.child].st = "live", obj'[obj'[o].call.child].pid \in Cached
        PROVE  cache'[obj'[obj'[o].call.child].pid] # obj'[o].call.child
    <3>1. obj'[o].call = obj[o].call
      BY <2>2 DEF Quiet
    <3>2. obj[o].call.child \in Objs
      BY <2>2, <3>1, ProcessAssumption DEF ProcInv, CallInv, ShapeInv, Objs
    <3> QED
      BY <2>2, <3>1, <3>2 DEF ProcInv, DirInv, Quiet, Live
  <2> QED
    BY <2>1, <2>2 DEF DirInv, Live
<1>5. PidInv'
  <2>1. nextPid \in Nat /\ \A q \in Objs : Live(q) => obj[q].pid \in Nat
    BY DEF ProcInv, ShapeInv
  <2>2. \A q \in Objs : obj'[q].st = obj[q].st /\ obj'[q].pid = obj[q].pid
    BY DEF Quiet
  <2> QED
    BY <2>1, <2>2 DEF ProcInv, PidInv, Live
<1>6. ExitInv'
  BY DEF ExitInv, Quiet, Live
<1>7. FamilyInv'
  <2>1. SUFFICES ASSUME ~raced, ~orphaned, ~raced' PROVE FamilyInv'
    BY DEF FamilyInv
  <2>2. \A o \in Objs : obj'[o].call.op \in {"copy", "reap"} =>
           obj'[o].call = obj[o].call /\ obj[o].call.child \in Objs
    <3>1. 1 .. made \subseteq Objs
      BY ProcessAssumption DEF ProcInv, ShapeInv, Objs
    <3>2. ASSUME NEW o \in Objs, obj'[o].call.op \in {"copy", "reap"}
          PROVE  obj'[o].call = obj[o].call
      BY <3>2 DEF Quiet
    <3> QED
      BY <3>1, <3>2 DEF ProcInv, CallInv
  <2>3. \A o \in Objs : obj'[o].st = "freed" => obj'[o].th # "ready"
    BY <2>1 DEF ProcInv, FamilyInv, Quiet
  <2>4. \A o \in Objs : obj'[o].st = "live" /\ obj'[o].call.op = "copy" =>
           obj'[obj'[o].call.child].st = "live" /\ obj'[obj'[o].call.child].ppid = 0
    BY <2>1, <2>2 DEF ProcInv, FamilyInv, Quiet, Live
  <2>5. \A o, q \in Objs :
           /\ obj'[o].st = "live" /\ obj'[o].call.op = "copy"
           /\ obj'[q].st = "live" /\ obj'[q].call.op = "copy"
           /\ obj'[o].call.child = obj'[q].call.child
           => o = q
    BY <2>1, <2>2 DEF ProcInv, FamilyInv, Quiet, Live
  <2>6. \A o \in Objs : obj'[o].st = "live" /\ obj'[o].call.op = "reap" =>
           /\ obj'[obj'[o].call.child].st = "live"
           /\ obj'[obj'[o].call.child].ppid = obj'[o].pid
           /\ obj'[o].call.code \in obj'[obj'[o].call.child].died
    <3> SUFFICES ASSUME NEW o \in Objs, obj'[o].st = "live", obj'[o].call.op = "reap"
                 PROVE  /\ obj'[obj[o].call.child].st = "live"
                        /\ obj'[obj[o].call.child].ppid = obj'[o].pid
                        /\ obj[o].call.code \in obj'[obj[o].call.child].died
      BY <2>2
    <3> DEFINE c == obj[o].call.child
    <3>1. c \in Objs /\ obj[o].call.op = "reap" /\ Live(o)
      BY <2>2 DEF Quiet, Live
    <3>2. Live(c) /\ obj[c].ppid = obj[o].pid /\ obj[o].call.code \in obj[c].died
      BY <2>1, <3>1 DEF ProcInv, FamilyInv
    <3> HIDE DEF c
    <3>3. obj'[c].st = "live" /\ obj'[c].ppid = obj'[o].pid /\ obj[o].call.code \in obj'[c].died
      BY <3>1, <3>2 DEF Quiet, Live
    <3> QED
      BY <3>3 DEF c
  <2> QED
    BY <2>3, <2>4, <2>5, <2>6 DEF FamilyInv, Live
<1> QED
  BY <1>1, <1>2, <1>3, <1>4, <1>5, <1>6, <1>7 DEF ProcInv

LEMMA QuietStep ==
    ASSUME ProcInv, Shaped(obj'), \A q \in Objs : Quiet(q),
           UNCHANGED <<made, items, nextPid, cache, raced, orphaned>>
    PROVE  ProcInv'
<1>1. nextPid \in Nat \ {0} /\ raced \in BOOLEAN
  BY DEF ProcInv, ShapeInv
<1> QED
  BY <1>1, QuietOrFailedStep

\* g is f with other signals, and another thread state for v.
Touched(f, g, v) ==
    /\ Shaped(g)
    /\ \A q \in Objs :
          /\ g[q].st = f[q].st /\ g[q].pid = f[q].pid /\ g[q].ppid = f[q].ppid
          /\ g[q].zombie = f[q].zombie /\ g[q].code = f[q].code /\ g[q].died = f[q].died
          /\ g[q].call = f[q].call
          /\ q # v => g[q].th = f[q].th

\* The steps that signals are delivered and waited for with.
LEMMA Touches ==
    ASSUME NEW f, Shaped(f), NEW v \in Objs
    PROVE  /\ Touched(f, f, v)
           /\ \A pend : Touched(f, [f EXCEPT ![v].pend = pend], v)
           /\ Touched(f, Woken(f, v), v)
           /\ Touched(f, Blocked(f, v), v)
           /\ \A th : Touched(f, [f EXCEPT ![v].th = th], v)
<1>1. Touched(f, f, v)
  BY DEF Touched
<1>2. ASSUME NEW pend PROVE Touched(f, [f EXCEPT ![v].pend = pend], v)
  BY DEF Touched, Shaped, Fields
<1>3. ASSUME NEW th PROVE Touched(f, [f EXCEPT ![v].th = th], v)
  BY DEF Touched, Shaped, Fields
<1> QED
  BY <1>1, <1>2, <1>3 DEF Woken, Blocked

LEMMA TouchedTwice ==
    ASSUME NEW f, NEW g, NEW h, NEW v \in Objs, Touched(f, g, v), Touched(g, h, v)
    PROVE  Touched(f, h, v)
BY DEF Touched

\* __WakeParent__ only adds a pending signal.
LEMMA WakeParentTouches ==
    ASSUME ShapeInv, TableInv, NEW f, Shaped(f), NEW v \in Objs, NEW u
    PROVE  /\ Touched(f, WakeParent(f, u), v)
           /\ \A q \in Objs : WakeParent(f, u)[q].th = f[q].th
<1> DEFINE p == PosixFind(f[u].ppid)
<1>1. CASE p = 0
  BY <1>1, Touches DEF WakeParent
<1>2. CASE p # 0
  <2>1. p \in Objs
    BY <1>2, FindIs
  <2>2. WakeParent(f, u) = [f EXCEPT ![p].pend = @ \cup {"CHLD"}]
    BY <1>2 DEF WakeParent
  <2> HIDE DEF p
  <2> QED
    BY <2>1, <2>2 DEF Touched, Shaped, Fields
<1> QED
  BY <1>1, <1>2

\* A step that only touches a live structure is quiet.
LEMMA TouchIsQuiet ==
    ASSUME ProcInv, NEW v \in Objs, Live(v), Touched(obj, obj', v)
    PROVE  Shaped(obj') /\ \A q \in Objs : Quiet(q)
BY DEF Touched, Quiet, ProcInv, ExitInv, Live

Kept == UNCHANGED <<made, items, nextPid, cache, raced, orphaned>>

\* A call that only moves its caller o on, to a call of its own.
LEMMA CallIsQuiet ==
    ASSUME ProcInv, NEW o \in Objs, obj[o].st # "none", NEW k,
           obj' = [obj EXCEPT ![o].call = k],
           \/ k.op \in {"user", "spin", "wait"}
           \/ k.op = "create" /\ k.pid \in Nat \ {0}
           \/ k.op = "exit" /\ k.of \in 1 .. made
    PROVE  Shaped(obj') /\ \A q \in Objs : Quiet(q)
<1>1. Shaped(obj) /\ ExitInv
  BY DEF ProcInv, ShapeInv
<1>2. Shaped(obj')
  BY <1>1 DEF Shaped, Fields
<1>3. ASSUME NEW q \in Objs, q # o PROVE obj'[q] = obj[q]
  BY <1>1, <1>3 DEF Shaped
<1>4. /\ obj'[o].st = obj[o].st /\ obj'[o].pid = obj[o].pid /\ obj'[o].ppid = obj[o].ppid
      /\ obj'[o].zombie = obj[o].zombie /\ obj'[o].code = obj[o].code
      /\ obj'[o].died = obj[o].died /\ obj'[o].th = obj[o].th /\ obj'[o].call = k
  BY <1>1 DEF Shaped, Fields
<1> QED
  BY <1>1, <1>2, <1>3, <1>4 DEF Quiet, ExitInv, Live

\* The first step of fork.
LEMMA ForkKeepsInv ==
    ASSUME ProcInv, NEW o \in Objs, PosixFork(o)
    PROVE  ProcInv'
<1>1. obj[o].st # "none" /\ Kept
  BY DEF PosixFork, InUser, In, Runs, Kept
<1>2. nextPid \in Nat \ {0}
  BY DEF ProcInv, ShapeInv
<1>3. Shaped(obj') /\ \A q \in Objs : Quiet(q)
  BY <1>1, <1>2, CallIsQuiet DEF PosixFork
<1> QED
  BY <1>1, <1>3, QuietStep DEF Kept

\* PosixExit of a structure v by a caller o, either of them in any state.
LEMMA ExitingIsQuiet ==
    ASSUME ProcInv, NEW o \in Objs, obj[o].st # "none", NEW v \in 1 .. made, NEW status, NEW orphan,
           obj' = Exiting(obj, o, v, status, orphan)
    PROVE  Shaped(obj') /\ \A q \in Objs : Quiet(q)
<1>1. Shaped(obj) /\ ExitInv /\ v \in Objs
  BY ProcessAssumption DEF ProcInv, ShapeInv, Objs
<1>2. Shaped(obj')
  BY <1>1 DEF Exiting, Shaped, Fields
<1>3. ASSUME NEW q \in Objs
      PROVE  /\ obj'[q].st = obj[q].st /\ obj'[q].pid = obj[q].pid /\ obj'[q].ppid = obj[q].ppid
             /\ obj'[q].th = obj[q].th
             /\ obj'[q].died = IF q = v THEN obj[q].died \cup {status} ELSE obj[q].died
             /\ obj'[q].code = IF q = v THEN status ELSE obj[q].code
             /\ q # v => obj'[q].zombie = obj[q].zombie
             /\ q # o => obj'[q].call = obj[q].call
             /\ q = o => obj'[q].call.op = "exit" /\ obj'[q].call.of = v
  <2> DEFINE g == [obj EXCEPT ![v].code = status, ![v].zombie = TRUE, ![v].died = @ \cup {status}]
  <2>1. Shaped(g)
    BY <1>1 DEF Shaped, Fields
  <2>2. obj' = [g EXCEPT ![o].call = [op |-> "exit", of |-> v, orphan |-> orphan]]
    BY <1>1 DEF Exiting
  <2>3. /\ g[q].st = obj[q].st /\ g[q].pid = obj[q].pid /\ g[q].ppid = obj[q].ppid
        /\ g[q].th = obj[q].th /\ g[q].call = obj[q].call
        /\ g[q].died = IF q = v THEN obj[q].died \cup {status} ELSE obj[q].died
        /\ g[q].code = IF q = v THEN status ELSE obj[q].code
        /\ q # v => g[q].zombie = obj[q].zombie
    BY <1>1, <1>3 DEF Shaped, Fields
  <2> HIDE DEF g
  <2> QED
    BY <1>3, <2>1, <2>2, <2>3 DEF Shaped, Fields
<1>4. ASSUME NEW q \in Objs
      PROVE  Live(q) /\ obj'[q].zombie => obj'[q].code \in obj'[q].died
  <2>1. CASE q = v
    BY <1>3, <2>1
  <2>2. CASE q # v
    BY <1>1, <1>3, <2>2 DEF ExitInv
  <2> QED
    BY <2>1, <2>2
<1>5. ASSUME NEW q \in Objs
      PROVE  obj[q].died \subseteq obj'[q].died
  BY <1>3
<1> QED
  BY <1>2, <1>3, <1>4, <1>5 DEF Quiet

LEMMA ExitKeepsInv ==
    ASSUME ProcInv, NEW o \in Objs, PosixExit(o)
    PROVE  ProcInv'
<1>1. obj[o].st # "none" /\ Kept
  BY DEF PosixExit, InUser, In, Runs, Kept
<1>2. o \in 1 .. made
  BY <1>1, ProcessAssumption DEF ProcInv, ShapeInv, Objs
<1>3. Shaped(obj') /\ \A q \in Objs : Quiet(q)
  BY <1>1, <1>2, ExitingIsQuiet DEF PosixExit
<1> QED
  BY <1>1, <1>3, QuietStep DEF Kept

\* The rest of PosixExit, whether it goes through or spins for ever.
LEMMA ExitFinishKeepsInv ==
    ASSUME ProcInv, NEW o \in Objs, ExitFinish(o)
    PROVE  ProcInv'
<1> DEFINE v == obj[o].call.of
<1>1. obj[o].st # "none" /\ Kept /\ obj[o].call.op = "exit"
  BY DEF ExitFinish, In, Runs, Kept
<1>2. v \in Objs
  BY <1>1, ProcessAssumption DEF ProcInv, ShapeInv, CallInv, Objs
<1>3. Shaped(obj) /\ ExitInv /\ ShapeInv /\ TableInv
  BY DEF ProcInv, ShapeInv
<1> SUFFICES Shaped(obj') /\ \A q \in Objs : Quiet(q)
  BY <1>1, QuietStep DEF Kept
<1>4. CASE obj' = [obj EXCEPT ![o].call = [op |-> "spin"]]
  BY <1>1, <1>4, CallIsQuiet
<1>5. CASE obj' = [obj EXCEPT ![o].call = [op |-> "spin"], ![v].th = "dead"]
  <2> HIDE DEF v
  <2>1. Shaped(obj')
    BY <1>2, <1>3, <1>5 DEF Shaped, Fields
  <2>2. ASSUME NEW q \in Objs
        PROVE  /\ obj'[q].st = obj[q].st /\ obj'[q].pid = obj[q].pid /\ obj'[q].ppid = obj[q].ppid
               /\ obj'[q].zombie = obj[q].zombie /\ obj'[q].code = obj[q].code
               /\ obj'[q].died = obj[q].died
               /\ obj'[q].th = IF q = v THEN "dead" ELSE obj[q].th
               /\ q # o => obj'[q].call = obj[q].call
               /\ q = o => obj'[q].call.op = "spin"
    BY <1>2, <1>3, <1>5 DEF Shaped, Fields
  <2> QED
    BY <1>1, <1>3, <2>1, <2>2 DEF Quiet, ExitInv, Live
<1>6. CASE obj' = WakeParent([obj EXCEPT ![o].call = User], v)
  <2> DEFINE f == [obj EXCEPT ![o].call = User]
  <2>1. /\ Shaped(f)
        /\ \A q \in Objs : /\ f[q].st = obj[q].st /\ f[q].pid = obj[q].pid /\ f[q].ppid = obj[q].ppid
                           /\ f[q].zombie = obj[q].zombie /\ f[q].code = obj[q].code
                           /\ f[q].died = obj[q].died /\ f[q].th = obj[q].th
                           /\ q # o => f[q].call = obj[q].call
                           /\ q = o => f[q].call.op = "user"
    BY <1>3 DEF Shaped, Fields, User
  <2> HIDE DEF f
  <2>2. Touched(f, obj', v)
    BY <1>2, <1>3, <1>6, <2>1, WakeParentTouches DEF f
  <2>3. \A q \in Objs : obj'[q].th = f[q].th
    <3>1. obj' = WakeParent(f, v)
      BY <1>6 DEF f
    <3> HIDE DEF v
    <3> QED
      BY <1>2, <1>3, <2>1, <3>1, WakeParentTouches
  <2> QED
    BY <1>1, <1>3, <2>1, <2>2, <2>3 DEF Touched, Quiet, ExitInv, Live
<1> QED
  BY <1>4, <1>5, <1>6 DEF ExitFinish

\* A structure found by its pid is live; so is the caller of a system call.
LEMMA CallerIsLive ==
    ASSUME ProcInv, NEW o \in Objs, InUser(o)
    PROVE  Live(o)
<1>1. o # 0
  BY ProcessAssumption DEF Objs
<1> QED
  BY <1>1, FindIs DEF InUser, ProcInv

\* A step that only touches a live structure keeps the invariant.
LEMMA TouchKeepsInv ==
    ASSUME ProcInv, NEW v \in Objs, Live(v), Touched(obj, obj', v), Kept
    PROVE  ProcInv'
BY TouchIsQuiet, QuietStep DEF Kept

LEMMA SignalCallsKeepInv ==
    ASSUME ProcInv, NEW o \in Objs, NEW sig, NEW mask, NEW pid,
           PosixKill(o, pid, sig) \/ PosixSigaction(o, sig, mask) \/ PosixSigprocmask(o, mask)
    PROVE  ProcInv'
<1>1. Shaped(obj)
  BY DEF ProcInv, ShapeInv
<1>2. CASE PosixKill(o, pid, sig)
  <2> DEFINE p == PosixFind(pid)
  <2>1. p \in Objs /\ Live(p)
    BY <1>2, FindIs DEF PosixKill, ProcInv
  <2>2. obj' = [obj EXCEPT ![p].pend = @ \cup {sig}] /\ Kept
    BY <1>2 DEF PosixKill, Kept
  <2> HIDE DEF p
  <2>3. Touched(obj, obj', p)
    BY <1>1, <2>1, <2>2, Touches
  <2> QED
    BY <2>1, <2>2, <2>3, TouchKeepsInv
<1>3. CASE PosixSigaction(o, sig, mask) \/ PosixSigprocmask(o, mask)
  <2>1. Live(o) /\ Kept
    BY <1>3, CallerIsLive DEF PosixSigaction, PosixSigprocmask, Kept
  <2>2. \/ obj' = [obj EXCEPT ![o].hand = @ \cup {sig}, ![o].mask = mask]
        \/ \E m : obj' = [obj EXCEPT ![o].mask = m]
    BY <1>3 DEF PosixSigaction, PosixSigprocmask
  <2>3. Touched(obj, obj', o)
    BY <1>1, <2>2 DEF Touched, Shaped, Fields
  <2> QED
    BY <2>1, <2>3, TouchKeepsInv
<1> QED
  BY <1>2, <1>3

\* One process of PosixDeliverSignals' scan: it goes on, stops, loses its
\* signals, or dies with a status of its own.
LEMMA DeliverKeepsInv ==
    ASSUME ProcInv, NEW pid, DeliverPendingSignals(PosixFind(pid))
    PROVE  ProcInv'
<1> DEFINE v == PosixFind(pid)
           open == obj[v].pend \ obj[v].mask
           cont == IF "CONT" \in open
                   THEN Woken([obj EXCEPT ![v].pend = @ \ {"CONT"}], v) ELSE obj
<1>1. v \in Objs /\ Live(v) /\ Kept
  BY FindIs DEF DeliverPendingSignals, ProcInv, Kept
<1>2. Shaped(obj) /\ ExitInv /\ ShapeInv /\ TableInv
  BY DEF ProcInv, ShapeInv
<1> DEFINE left == (obj[v].pend \ ({"CONT"} \cap open))
                     \ (IF obj[v].th = "none" THEN {} ELSE open \cap obj[v].hand)
           kills == SelectSeq(Fatal, LAMBDA s : s \in left)
           pend == left \ {kills[1]}
           status == 128 + Number[kills[1]]
           dies == [cont EXCEPT ![v].pend = pend, ![v].code = status, ![v].zombie = TRUE,
                                ![v].died = @ \cup {status}]
<1>3. \/ obj' = Blocked([cont EXCEPT ![v].pend = @ \ {"STOP"}], v)
      \/ obj' = [cont EXCEPT ![v].pend = {}]
      \/ obj' \in {dies, [dies EXCEPT ![v].th = "dead"], WakeParent(dies, v)}
  BY Zenon DEF DeliverPendingSignals
<1> HIDE DEF pend, status
<1> HIDE DEF v
<1>4. Touched(obj, cont, v)
  <2> DEFINE f == [obj EXCEPT ![v].pend = @ \ {"CONT"}]
  <2>1. Touched(obj, f, v)
    BY <1>1, <1>2, Touches
  <2> HIDE DEF f
  <2>2. Shaped(f)
    BY <2>1 DEF Touched
  <2>3. Touched(obj, Woken(f, v), v)
    BY <1>1, <2>1, <2>2, Touches, TouchedTwice
  <2>4. cont = Woken(f, v) \/ cont = obj
    BY DEF f
  <2> QED
    BY <1>1, <1>2, <2>3, <2>4, Touches
<1> HIDE DEF cont
<1>5. Shaped(cont)
  BY <1>4 DEF Touched
<1>6. CASE obj' = Blocked([cont EXCEPT ![v].pend = @ \ {"STOP"}], v)
  <2> DEFINE f == [cont EXCEPT ![v].pend = @ \ {"STOP"}]
  <2>1. Touched(cont, f, v)
    BY <1>1, <1>5, Touches
  <2>2. obj' = Blocked(f, v)
    BY <1>6 DEF f
  <2> HIDE DEF f
  <2>3. Shaped(f)
    BY <2>1 DEF Touched
  <2>4. Touched(f, obj', v)
    BY <1>1, <2>2, <2>3, Touches
  <2> QED
    BY <1>1, <1>4, <2>1, <2>4, TouchedTwice, TouchKeepsInv
<1>7. CASE obj' = [cont EXCEPT ![v].pend = {}]
  <2>1. Touched(cont, obj', v)
    BY <1>1, <1>5, <1>7, Touches
  <2> QED
    BY <1>1, <1>4, <2>1, TouchedTwice, TouchKeepsInv
<1>8. ASSUME NEW f,
             f = [cont EXCEPT ![v].pend = pend, ![v].code = status, ![v].zombie = TRUE,
                              ![v].died = @ \cup {status}],
             obj' \in {f, [f EXCEPT ![v].th = "dead"], WakeParent(f, v)}
      PROVE  ProcInv'
  <2>1. /\ Shaped(f)
        /\ \A q \in Objs : /\ f[q].st = obj[q].st /\ f[q].pid = obj[q].pid /\ f[q].ppid = obj[q].ppid
                           /\ f[q].call = obj[q].call
                           /\ q # v => /\ f[q].zombie = obj[q].zombie /\ f[q].code = obj[q].code
                                       /\ f[q].died = obj[q].died /\ f[q].th = obj[q].th
        /\ f[v].code = status /\ f[v].died = obj[v].died \cup {status}
    <3>1. /\ Shaped(f)
          /\ \A q \in Objs : /\ f[q].st = cont[q].st /\ f[q].pid = cont[q].pid
                             /\ f[q].ppid = cont[q].ppid /\ f[q].call = cont[q].call
                             /\ q # v => f[q] = cont[q]
          /\ f[v].code = status /\ f[v].died = cont[v].died \cup {status}
      BY <1>1, <1>5, <1>8 DEF Shaped, Fields
    <3> QED
      BY <1>1, <1>4, <3>1 DEF Touched
  <2>2. Touched(f, obj', v)
    <3>1. CASE obj' = f
      BY <1>1, <2>1, <3>1, Touches
    <3>2. CASE obj' = [f EXCEPT ![v].th = "dead"]
      BY <1>1, <2>1, <3>2, Touches
    <3>3. CASE obj' = WakeParent(f, v)
      BY <1>1, <1>2, <2>1, <3>3, WakeParentTouches
    <3> QED
      BY <1>8, <3>1, <3>2, <3>3
  <2>3. ASSUME NEW q \in Objs
        PROVE  Quiet(q)
    <3>1. CASE q = v
      BY <1>1, <2>1, <2>2, <3>1 DEF Touched, Quiet, Live
    <3>2. CASE q # v
      BY <1>2, <2>1, <2>2, <3>2 DEF Touched, Quiet, ExitInv, Live
    <3> QED
      BY <3>1, <3>2
  <2>4. Shaped(obj')
    BY <2>2 DEF Touched
  <2> QED
    BY <1>1, <2>3, <2>4, QuietStep DEF Kept
<1> QED
  BY <1>3, <1>6, <1>7, <1>8

\* The /proc files that start a process over, stop it and let it go on.
LEMMA ControlKeepsInv ==
    ASSUME ProcInv, NEW o \in Objs, NEW pid, PosixProcExecve(o, pid) \/ ProcFsWriteState(o, pid)
    PROVE  ProcInv'
<1> DEFINE t == ProcLookup(pid)
<1>1. t \in Objs /\ Live(t) /\ Kept
  BY LookupIs DEF PosixProcExecve, ProcFsWriteState, Kept
<1>2. Shaped(obj) /\ ExitInv
  BY DEF ProcInv, ShapeInv
<1>3. CASE PosixProcExecve(o, pid)
  <2>1. PICK k \in {User, obj[t].call} :
           obj' = [obj EXCEPT ![t].th = "ready", ![t].zombie = FALSE, ![t].code = 0, ![t].call = k]
    BY <1>2, <1>3 DEF PosixProcExecve, Shaped, Fields
  <2> HIDE DEF t
  <2>2. Shaped(obj')
    BY <1>1, <1>2, <2>1 DEF Shaped, Fields
  <2>3. ASSUME NEW q \in Objs, q # t PROVE obj'[q] = obj[q]
    BY <1>1, <1>2, <2>1, <2>3 DEF Shaped, Fields
  <2>4. /\ obj'[t].st = obj[t].st /\ obj'[t].pid = obj[t].pid /\ obj'[t].ppid = obj[t].ppid
        /\ ~obj'[t].zombie /\ obj'[t].died = obj[t].died /\ obj'[t].call = k
    BY <1>1, <1>2, <2>1 DEF Shaped, Fields
  <2>5. \A q \in Objs : Quiet(q)
    <3>1. Quiet(t)
      <4>1. obj'[t].call = obj[t].call \/ obj'[t].call.op = "user"
        BY <2>1, <2>4 DEF User
      <4>2. obj[t].st # "freed" /\ obj[t].died \subseteq obj'[t].died
        BY <1>1, <2>4 DEF Live
      <4> QED
        BY <2>4, <4>1, <4>2 DEF Quiet
    <3>2. ASSUME NEW q \in Objs, q # t PROVE Quiet(q)
      BY <1>2, <2>3, <3>2 DEF Quiet, ExitInv, Live
    <3> QED
      BY <3>1, <3>2
  <2> QED
    BY <1>1, <2>2, <2>5, QuietStep DEF Kept
<1>4. CASE ProcFsWriteState(o, pid)
  <2>1. obj' \in {Blocked(obj, t), Woken(obj, t)}
    BY <1>4 DEF ProcFsWriteState
  <2> HIDE DEF t
  <2>2. Touched(obj, obj', t)
    BY <1>1, <1>2, <2>1, Touches
  <2> QED
    BY <1>1, <2>2, TouchKeepsInv
<1> QED
  BY <1>3, <1>4

----------------------------------------------------------------------------
(* Steps that allocate, link and free *)

\* A new item at the end of the table.
LEMMA TableInsertIs ==
    ASSUME ShapeInv, NEW n \in Objs
    PROVE  /\ Append(items, n) \in Seq(Objs)
           /\ Len(Append(items, n)) = Len(items) + 1
           /\ \A i \in 1 .. Len(items) : Append(items, n)[i] = items[i]
           /\ Append(items, n)[Len(items) + 1] = n
BY AppendProperties DEF ShapeInv

\* __NextPid__++, and the rest of PosixProcCreate.
LEMMA CreateKeepsInv ==
    ASSUME ProcInv, NEW o \in Objs, PosixProcCreate(o)
    PROVE  ProcInv'
<1> DEFINE pid == obj[o].call.pid
           new == made + 1
<1>1. /\ obj[o].st # "none" /\ obj[o].call.op = "create" /\ Runs(o)
      /\ nextPid' = pid + 1 /\ raced' = (raced \/ nextPid # pid) /\ orphaned' = orphaned
  BY DEF PosixProcCreate, In, Runs, FreshPid
<1>2. /\ Shaped(obj) /\ ShapeInv /\ CallInv /\ TableInv /\ DirInv /\ PidInv /\ ExitInv /\ FamilyInv
      /\ made \in Nat /\ MaxObjs \in Nat /\ Objs = 1 .. MaxObjs
  <2>1. made \in Nat /\ MaxObjs \in Nat /\ Objs = 1 .. MaxObjs /\ Shaped(obj)
    BY ProcessAssumption DEF ProcInv, ShapeInv, Objs
  <2> QED
    BY <2>1 DEF ProcInv
<1>3. pid \in Nat \ {0} /\ o \in 1 .. made /\ nextPid \in Nat
  BY <1>1, <1>2 DEF CallInv, ShapeInv
<1> DEFINE Inserted == /\ Len(items) < MaxProcs /\ made < MaxObjs
                       /\ obj' = [obj EXCEPT ![new] = NewProc(pid),
                                             ![o].call = [op |-> "copy", child |-> new]]
                       /\ made' = new /\ items' = Append(items, new) /\ cache' = NotifyAdded(pid, new)
           Refused == obj' = [obj EXCEPT ![o].call = User] /\ UNCHANGED <<made, items, cache>>
<1>4. Inserted \/ Refused
  BY DEF PosixProcCreate, FreshPid
<1>5. CASE Refused
  <2>1. obj' = [obj EXCEPT ![o].call = User] /\ UNCHANGED <<made, items, cache, orphaned>>
    BY <1>1, <1>5
  <2>2. Shaped(obj') /\ \A q \in Objs : Quiet(q)
    BY <1>1, <2>1, CallIsQuiet DEF User
  <2>3. /\ nextPid' \in Nat \ {0} /\ raced' \in BOOLEAN
        /\ ~raced' => ~raced /\ nextPid' >= nextPid
    <3> HIDE DEF pid
    <3>1. nextPid' \in Nat \ {0} /\ (nextPid = pid => nextPid' >= nextPid)
      BY <1>1, <1>3
    <3>2. raced' \in BOOLEAN /\ (~raced' => ~raced /\ nextPid = pid)
      BY <1>1
    <3> QED
      BY <3>1, <3>2
  <2> QED
    BY <2>1, <2>2, <2>3, QuietOrFailedStep
<1>6. CASE Inserted
  <2>1. /\ obj' = [obj EXCEPT ![new] = NewProc(pid), ![o].call = [op |-> "copy", child |-> new]]
        /\ made' = new /\ items' = Append(items, new) /\ cache' = NotifyAdded(pid, new)
    BY <1>6
  <2>0. Len(items) < MaxProcs /\ made < MaxObjs
    BY <1>6
  <2> HIDE DEF Inserted, Refused
  <2> HIDE DEF pid
  <2>2. new \in Objs /\ new # o /\ new > made /\ \A q \in Objs : q > new <=> q > made /\ q # new
    BY <1>2, <1>3, <2>0
  <2> HIDE DEF new
  <2>3. Shaped(obj')
    BY <1>2, <2>1, <2>2 DEF Shaped, Fields, NewProc
  <2>4. /\ \A q \in Objs : q # o /\ q # new => obj'[q] = obj[q]
        /\ obj'[new] = NewProc(pid)
        /\ obj'[o].st = obj[o].st /\ obj'[o].pid = obj[o].pid /\ obj'[o].ppid = obj[o].ppid
        /\ obj'[o].zombie = obj[o].zombie /\ obj'[o].code = obj[o].code
        /\ obj'[o].died = obj[o].died /\ obj'[o].th = obj[o].th
        /\ obj'[o].call = [op |-> "copy", child |-> new]
    BY <1>2, <2>1, <2>2 DEF Shaped, Fields
  <2>5. /\ obj'[new].st = "live" /\ obj'[new].pid = pid /\ obj'[new].ppid = 0
        /\ ~obj'[new].zombie /\ obj'[new].th = "none" /\ obj'[new].call.op = "user"
        /\ obj'[o].call.op = "copy" /\ obj'[o].call.child = new
    BY <2>4 DEF NewProc, User
  <2>6. obj[new].st = "none"
    BY <1>2, <2>2 DEF ShapeInv
  <2>7. /\ items' \in Seq(Objs) /\ Len(items') = Len(items) + 1
        /\ \A i \in 1 .. Len(items) : items'[i] = items[i]
        /\ items'[Len(items) + 1] = new /\ Len(items) \in Nat
    BY <1>2, <2>1, <2>2, TableInsertIs DEF ShapeInv
  <2>8. /\ cache' \in [Cached -> Objs \cup {0}]
        /\ \A p \in Cached : cache'[p] = cache[p] \/ (cache'[p] = new /\ p = pid)
    BY <1>2, <2>1, <2>2 DEF NotifyAdded, ShapeInv
  <2>9. ShapeInv'
    <3>1. made' \in Objs /\ nextPid' \in Nat \ {0} /\ raced' \in BOOLEAN /\ orphaned' \in BOOLEAN
      BY <1>1, <1>2, <1>3, <2>1, <2>2 DEF ShapeInv
    <3>2. \A q \in Objs : obj'[q].st \in {"none", "live", "freed"} /\ (obj'[q].st = "none" <=> q > made')
      <4>1. \A q \in Objs : q # new => obj'[q].st = obj[q].st
        BY <2>4
      <4> QED
        <5>1. \A q \in Objs : obj[q].st \in {"none", "live", "freed"} /\ (obj[q].st = "none" <=> q > made)
          BY <1>2 DEF ShapeInv
        <5>2. ASSUME NEW q \in Objs, q # new
              PROVE  obj'[q].st \in {"none", "live", "freed"} /\ (obj'[q].st = "none" <=> q > made')
          BY <2>1, <2>2, <4>1, <5>1, <5>2
        <5> QED
          BY <2>1, <2>2, <2>5, <5>2
    <3>3. \A q \in Objs : obj'[q].st = "live" => obj'[q].pid \in Nat \ {0}
      BY <1>2, <1>3, <2>4, <2>5 DEF ShapeInv, Live
    <3> QED
      BY <2>3, <2>7, <2>8, <3>1, <3>2, <3>3 DEF ShapeInv, Live
  <2>10. CallInv'
    <3>1. made' = made + 1
      BY <2>1 DEF new
    <3>2. 1 .. made \subseteq 1 .. made' /\ new \in 1 .. made'
      BY <1>2, <2>1, <2>2, <3>1
    <3>3. ASSUME NEW q \in Objs, q # o, q # new PROVE obj'[q] = obj[q]
      BY <2>4, <3>3
    <3>4. /\ obj'[o].st # "none" /\ obj'[o].call.op = "copy" /\ obj'[o].call.child \in 1 .. made'
          /\ obj'[new].call.op = "user"
      BY <1>1, <2>4, <2>5, <3>2
    <3>5. ASSUME NEW q \in Objs
          PROVE  /\ obj'[q].st = "none" => obj'[q].call.op = "user"
                 /\ obj'[q].call.op = "create" => obj'[q].call.pid \in Nat \ {0}
                 /\ obj'[q].call.op \in {"copy", "reap"} => obj'[q].call.child \in 1 .. made'
                 /\ obj'[q].call.op = "exit" => obj'[q].call.of \in 1 .. made'
      <4>1. CASE q = o \/ q = new
        BY <3>4, <4>1
      <4>2. CASE q # o /\ q # new
        BY <1>2, <3>2, <3>3, <4>2 DEF CallInv
      <4> QED
        BY <4>1, <4>2
    <3> QED
      BY <3>5 DEF CallInv
  <2>11. TableInv'
    <3>1. \A i \in 1 .. Len(items) : items[i] # new
      BY <1>2, <2>2, <2>6 DEF TableInv, ShapeInv, Live
    <3>2. \A i, j \in 1 .. Len(items') : items'[i] = items'[j] => i = j
      BY <1>2, <2>7, <3>1, SMTT(30) DEF TableInv
    <3>3. \A q \in Objs : obj'[q].st = "live" <=> \E i \in 1 .. Len(items') : items'[i] = q
      <4>1. ASSUME NEW q \in Objs, q # new
            PROVE  (\E i \in 1 .. Len(items') : items'[i] = q) <=> \E i \in 1 .. Len(items) : items[i] = q
        BY <2>7, <4>1
      <4>2. \E i \in 1 .. Len(items') : items'[i] = new
        BY <2>7
      <4>3. ASSUME NEW q \in Objs, q # new PROVE obj'[q].st = obj[q].st
        BY <2>4, <4>3
      <4>4. \A q \in Objs : obj[q].st = "live" <=> \E i \in 1 .. Len(items) : items[i] = q
        BY <1>2 DEF TableInv, Live
      <4>5. ASSUME NEW q \in Objs
            PROVE  obj'[q].st = "live" <=> \E i \in 1 .. Len(items') : items'[i] = q
        <5>1. CASE q = new
          BY <2>5, <4>2, <5>1
        <5>2. CASE q # new
          BY <4>1, <4>3, <4>4, <5>2, Zenon
        <5> QED
          BY <5>1, <5>2
      <4> QED
        BY <4>5
    <3>4. Len(items') <= MaxProcs
      BY <2>0, <2>7, ProcessAssumption
    <3> QED
      BY <3>2, <3>3, <3>4 DEF TableInv, Live
  <2>12. DirInv'
    <3>1. ASSUME NEW p \in Cached, cache'[p] # 0
          PROVE  obj'[cache'[p]].st = "live" /\ obj'[cache'[p]].pid = p
      <4>1. CASE cache'[p] = new /\ p = pid
        BY <2>5, <4>1
      <4>2. CASE cache'[p] = cache[p]
        <5>1. cache[p] \in Objs /\ Live(cache[p]) /\ obj[cache[p]].pid = p
          BY <1>2, <3>1, <4>2 DEF DirInv, ShapeInv
        <5> QED
          BY <2>4, <2>6, <4>2, <5>1 DEF Live
      <4> QED
        BY <2>8, <4>1, <4>2
    <3>2. ASSUME NEW q \in Objs, obj'[q].call.op = "reap",
                 obj'[obj'[q].call.child].st = "live", obj'[obj'[q].call.child].pid \in Cached
          PROVE  cache'[obj'[obj'[q].call.child].pid] # obj'[q].call.child
      <4> DEFINE c == obj[q].call.child
      <4>1. q # new /\ q # o /\ obj'[q] = obj[q] /\ obj[q].call.op = "reap"
        BY <2>4, <2>5, <3>2
      <4>2. c \in 1 .. made
        BY <1>2, <4>1 DEF CallInv
      <4>3. c \in Objs /\ c # new
        BY <1>2, <2>2, <4>2
      <4>4. Live(c) /\ obj[c].pid \in Cached => cache[obj[c].pid] # c
        BY <1>2, <4>1 DEF DirInv
      <4>5. obj'[q].call.child = c
        BY <4>1
      <4> HIDE DEF c
      <4>6. obj'[c].st = obj[c].st /\ obj'[c].pid = obj[c].pid
        BY <2>4, <4>3
      <4> QED
        BY <2>8, <3>2, <4>3, <4>4, <4>5, <4>6 DEF Live
    <3> QED
      BY <3>1, <3>2 DEF DirInv, Live
  <2>13. PidInv'
    <3> SUFFICES ASSUME ~raced' PROVE PidInv'
      BY DEF PidInv
    <3>1. ~raced /\ pid = nextPid
      BY <1>1 DEF pid
    <3>2. \A q \in Objs : Live(q) => obj[q].pid \in Nat /\ obj[q].pid < pid
      BY <1>2, <3>1 DEF PidInv, ShapeInv
    <3>3. \A q \in Objs : q # new => obj'[q].st = obj[q].st /\ obj'[q].pid = obj[q].pid
      BY <2>4
    <3>4. nextPid' = pid + 1
      BY <1>1 DEF pid
    <3> QED
      BY <1>2, <1>3, <2>5, <3>1, <3>2, <3>3, <3>4, SMTT(30) DEF PidInv, Live
  <2>14. ExitInv'
    BY <1>2, <2>4, <2>5 DEF ExitInv, Live
  <2>15. FamilyInv'
    <3> SUFFICES ASSUME ~raced', ~orphaned' PROVE FamilyInv'
      BY DEF FamilyInv
    <3>1. ~raced /\ ~orphaned
      BY <1>1
    <3>2. ASSUME NEW q \in Objs, obj'[q].st = "freed" PROVE obj'[q].th # "ready"
      BY <1>2, <2>4, <2>5, <3>1, <3>2 DEF FamilyInv
    <3>3. ASSUME NEW q \in Objs, q # o, obj'[q].st = "live", obj'[q].call.op \in {"copy", "reap"}
          PROVE  /\ obj'[q] = obj[q] /\ q # new /\ obj[q].call.op = obj'[q].call.op /\ Live(q)
                 /\ obj[q].call.child \in Objs /\ obj[q].call.child # new
      <4>1. q # new /\ obj'[q] = obj[q]
        BY <2>4, <2>5, <3>3
      <4>2. obj[q].call.child \in 1 .. made
        BY <1>2, <3>3, <4>1 DEF CallInv
      <4> QED
        BY <1>2, <2>2, <3>3, <4>1, <4>2 DEF Live
    <3>4. ASSUME NEW q \in Objs, obj'[q].st = "live", obj'[q].call.op = "copy"
          PROVE  obj'[obj'[q].call.child].st = "live" /\ obj'[obj'[q].call.child].ppid = 0
      <4>1. CASE q = o
        BY <2>5, <4>1
      <4>2. CASE q # o
        <5> DEFINE c == obj[q].call.child
        <5>1. Live(c) /\ obj[c].ppid = 0 /\ c \in Objs /\ c # new
          BY <1>2, <3>1, <3>3, <3>4, <4>2 DEF FamilyInv
        <5>2. obj'[q].call.child = c
          BY <3>3, <3>4, <4>2
        <5> HIDE DEF c
        <5>3. obj'[c].st = obj[c].st /\ obj'[c].ppid = obj[c].ppid
          BY <2>4, <5>1
        <5> QED
          BY <5>1, <5>2, <5>3 DEF Live
      <4> QED
        BY <4>1, <4>2
    <3>5. ASSUME NEW q \in Objs, NEW r \in Objs,
                 obj'[q].st = "live", obj'[q].call.op = "copy",
                 obj'[r].st = "live", obj'[r].call.op = "copy",
                 obj'[q].call.child = obj'[r].call.child
          PROVE  q = r
      BY <1>2, <2>5, <3>1, <3>3, <3>5 DEF FamilyInv
    <3>6. ASSUME NEW q \in Objs, obj'[q].st = "live", obj'[q].call.op = "reap"
          PROVE  /\ obj'[obj'[q].call.child].st = "live"
                 /\ obj'[obj'[q].call.child].ppid = obj'[q].pid
                 /\ obj'[q].call.code \in obj'[obj'[q].call.child].died
      <4> DEFINE c == obj[q].call.child
      <4>1. q # o
        BY <2>5, <3>6
      <4>2. /\ Live(c) /\ obj[c].ppid = obj[q].pid /\ obj[q].call.code \in obj[c].died
            /\ c \in Objs /\ c # new
        BY <1>2, <3>1, <3>3, <3>6, <4>1 DEF FamilyInv
      <4>3. obj'[q] = obj[q] /\ obj'[q].call.child = c
        BY <3>3, <3>6, <4>1
      <4> HIDE DEF c
      <4>4. obj'[c].st = obj[c].st /\ obj'[c].ppid = obj[c].ppid /\ obj'[c].died = obj[c].died
        BY <2>4, <4>2
      <4> QED
        BY <4>2, <4>3, <4>4 DEF Live
    <3> QED
      BY <3>2, <3>4, <3>5, <3>6 DEF FamilyInv, Live
  <2> QED
    BY <2>9, <2>10, <2>11, <2>12, <2>13, <2>14, <2>15 DEF ProcInv
<1> QED
  BY <1>5, <1>6, <1>4

\* The end of fork: the child becomes its parent's, and runs or exits.
LEMMA ForkFinishKeepsInv ==
    ASSUME ProcInv, NEW o \in Objs, ForkFinish(o)
    PROVE  ProcInv'
<1> DEFINE n == obj[o].call.child
<1>1. /\ obj[o].st # "none" /\ obj[o].call.op = "copy" /\ obj[o].th = "ready"
      /\ UNCHANGED <<made, items, nextPid, cache, raced, orphaned>>
  BY DEF ForkFinish, In, Runs
<1>2. /\ Shaped(obj) /\ ShapeInv /\ CallInv /\ TableInv /\ DirInv /\ PidInv /\ ExitInv /\ FamilyInv
      /\ 1 .. made \subseteq Objs
  <2>1. 1 .. made \subseteq Objs /\ Shaped(obj)
    BY ProcessAssumption DEF ProcInv, ShapeInv, Objs
  <2> QED
    BY <2>1 DEF ProcInv
<1>3. n \in 1 .. made /\ n \in Objs
  BY <1>1, <1>2 DEF CallInv
<1> DEFINE inherited == [obj EXCEPT ![n].ppid = obj[o].pid, ![n].mask = obj[o].mask, ![n].pend = {}]
<1>4. \/ obj' = [inherited EXCEPT ![n].th = "ready", ![o].call = User]
      \/ \E orphan \in BOOLEAN : obj' = Exiting(inherited, o, n, -1, orphan)
  BY DEF ForkFinish
<1>5. /\ Shaped(inherited)
      /\ \A q \in Objs : /\ inherited[q].st = obj[q].st /\ inherited[q].pid = obj[q].pid
                         /\ inherited[q].zombie = obj[q].zombie /\ inherited[q].code = obj[q].code
                         /\ inherited[q].died = obj[q].died /\ inherited[q].th = obj[q].th
                         /\ inherited[q].call = obj[q].call
                         /\ q # n => inherited[q].ppid = obj[q].ppid
  BY <1>2, <1>3 DEF Shaped, Fields
<1> HIDE DEF n, inherited
<1>6. /\ Shaped(obj')
      /\ \A q \in Objs : /\ obj'[q].st = obj[q].st /\ obj'[q].pid = obj[q].pid
                         /\ q # o => obj'[q].call = obj[q].call
                         /\ q # n => /\ obj'[q].ppid = obj[q].ppid /\ obj'[q].th = obj[q].th
                                     /\ obj'[q].zombie = obj[q].zombie /\ obj'[q].code = obj[q].code
                                     /\ obj'[q].died = obj[q].died
      /\ obj'[o].call.op = "user" \/ (obj'[o].call.op = "exit" /\ obj'[o].call.of = n)
      /\ obj'[n].zombie => obj'[n].code \in obj'[n].died \/ (obj[n].zombie /\ obj'[n].code = obj[n].code)
      /\ obj[n].died \subseteq obj'[n].died
  <2>1. CASE obj' = [inherited EXCEPT ![n].th = "ready", ![o].call = User]
    <3>1. /\ Shaped(obj')
          /\ \A q \in Objs : /\ obj'[q].st = inherited[q].st /\ obj'[q].pid = inherited[q].pid
                             /\ obj'[q].ppid = inherited[q].ppid
                             /\ obj'[q].zombie = inherited[q].zombie /\ obj'[q].code = inherited[q].code
                             /\ obj'[q].died = inherited[q].died
                             /\ q # n => obj'[q].th = inherited[q].th
                             /\ q # o => obj'[q].call = inherited[q].call
          /\ obj'[o].call.op = "user"
      BY <1>3, <1>5, <2>1, ZenonT(40) DEF Shaped, Fields, User
    <3> QED
      BY <1>3, <1>5, <3>1
  <2>2. CASE \E orphan \in BOOLEAN : obj' = Exiting(inherited, o, n, -1, orphan)
    <3>0. PICK orphan \in BOOLEAN : obj' = Exiting(inherited, o, n, -1, orphan)
      BY <2>2
    <3> DEFINE g == [inherited EXCEPT ![n].code = -1, ![n].zombie = TRUE, ![n].died = @ \cup {-1}]
    <3>1. /\ Shaped(g)
          /\ \A q \in Objs : /\ g[q].st = inherited[q].st /\ g[q].pid = inherited[q].pid
                             /\ g[q].ppid = inherited[q].ppid /\ g[q].th = inherited[q].th
                             /\ g[q].call = inherited[q].call
                             /\ q # n => /\ g[q].zombie = inherited[q].zombie
                                         /\ g[q].code = inherited[q].code
                                         /\ g[q].died = inherited[q].died
          /\ g[n].code = -1 /\ g[n].died = inherited[n].died \cup {-1}
      BY <1>3, <1>5, ZenonT(40) DEF Shaped, Fields
    <3>2. obj' = [g EXCEPT ![o].call = [op |-> "exit", of |-> n, orphan |-> orphan]]
      BY <1>5, <3>0 DEF Exiting
    <3> HIDE DEF g
    <3>3. /\ Shaped(obj')
          /\ \A q \in Objs : /\ obj'[q].st = g[q].st /\ obj'[q].pid = g[q].pid
                             /\ obj'[q].ppid = g[q].ppid /\ obj'[q].th = g[q].th
                             /\ obj'[q].zombie = g[q].zombie /\ obj'[q].code = g[q].code
                             /\ obj'[q].died = g[q].died
                             /\ q # o => obj'[q].call = g[q].call
          /\ obj'[o].call.op = "exit" /\ obj'[o].call.of = n
      BY <3>1, <3>2 DEF Shaped, Fields
    <3>4. obj'[n].code \in obj'[n].died /\ obj[n].died \subseteq obj'[n].died
      BY <1>3, <1>5, <3>1, <3>3
    <3> QED
      BY <1>3, <1>5, <3>1, <3>3, <3>4
  <2> QED
    BY <1>4, <2>1, <2>2
<1>7. ShapeInv'
  BY <1>1, <1>2, <1>6 DEF ShapeInv, Live
<1>8. CallInv'
  BY <1>1, <1>2, <1>3, <1>6 DEF CallInv
<1>9. TableInv'
  BY <1>1, <1>2, <1>6 DEF TableInv, Live
<1>10. DirInv'
  <2>1. ASSUME NEW p \in Cached, cache[p] # 0
        PROVE  obj'[cache[p]].st = "live" /\ obj'[cache[p]].pid = p
    <3>1. cache[p] \in Objs /\ Live(cache[p]) /\ obj[cache[p]].pid = p
      BY <1>2, <2>1 DEF DirInv, ShapeInv
    <3> QED
      BY <1>6, <3>1 DEF Live
  <2>2. ASSUME NEW q \in Objs, obj'[q].call.op = "reap",
               obj'[obj'[q].call.child].st = "live", obj'[obj'[q].call.child].pid \in Cached
        PROVE  cache[obj'[obj'[q].call.child].pid] # obj'[q].call.child
    <3>1. q # o /\ obj'[q].call = obj[q].call
      BY <1>6, <2>2
    <3>2. obj[q].call.child \in Objs
      BY <1>2, <2>2, <3>1 DEF CallInv
    <3> QED
      BY <1>2, <1>6, <2>2, <3>1, <3>2 DEF DirInv, Live
  <2> QED
    BY <1>1, <2>1, <2>2 DEF DirInv, Live
<1>11. PidInv'
  BY <1>1, <1>2, <1>6 DEF PidInv, Live
<1>12. ExitInv'
  <2>1. ASSUME NEW q \in Objs, obj'[q].st = "live", obj'[q].zombie
        PROVE  obj'[q].code \in obj'[q].died
    <3>1. CASE q = n
      BY <1>2, <1>3, <1>6, <2>1, <3>1 DEF ExitInv, Live
    <3>2. CASE q # n
      BY <1>2, <1>6, <2>1, <3>2 DEF ExitInv, Live
    <3> QED
      BY <3>1, <3>2
  <2> QED
    BY <2>1 DEF ExitInv, Live
<1>13. FamilyInv'
  <2> SUFFICES ASSUME ~raced, ~orphaned PROVE FamilyInv'
    BY <1>1 DEF FamilyInv
  <2>1. Live(o) /\ Live(n) /\ obj[n].ppid = 0
    BY <1>1, <1>2 DEF FamilyInv, ShapeInv, Live, n
  <2>2. \A q \in Objs : obj'[q].st = "freed" => obj'[q].th # "ready"
    BY <1>2, <1>6, <2>1 DEF FamilyInv, Live
  <2>3. ASSUME NEW q \in Objs, obj'[q].st = "live", obj'[q].call.op = "copy"
        PROVE  /\ q # o /\ Live(q) /\ obj[q].call.op = "copy" /\ obj'[q].call.child = obj[q].call.child
               /\ obj'[obj'[q].call.child].st = "live" /\ obj'[obj'[q].call.child].ppid = 0
    <3>1. q # o /\ Live(q) /\ obj'[q].call = obj[q].call
      BY <1>6, <2>3 DEF Live
    <3> DEFINE c == obj[q].call.child
    <3>2. c # n /\ c \in Objs /\ Live(c) /\ obj[c].ppid = 0
      BY <1>1, <1>2, <2>1, <2>3, <3>1 DEF FamilyInv, CallInv, n
    <3>3. obj'[q].call.child = c /\ obj[q].call.op = "copy"
      BY <2>3, <3>1
    <3> HIDE DEF c
    <3>4. obj'[c].st = "live" /\ obj'[c].ppid = 0
      BY <1>6, <3>2 DEF Live
    <3>5. obj'[q].call.child = obj[q].call.child
      BY <3>1
    <3> QED
      BY <3>1, <3>3, <3>4, <3>5
  <2>4. ASSUME NEW q \in Objs, obj'[q].st = "live", obj'[q].call.op = "copy",
               NEW r \in Objs, obj'[r].st = "live", obj'[r].call.op = "copy",
               obj'[q].call.child = obj'[r].call.child
        PROVE  q = r
    BY <1>2, <2>3, <2>4 DEF FamilyInv
  <2>5. ASSUME NEW q \in Objs, obj'[q].st = "live", obj'[q].call.op = "reap"
        PROVE  /\ obj'[obj'[q].call.child].st = "live"
               /\ obj'[obj'[q].call.child].ppid = obj'[q].pid
               /\ obj'[q].call.code \in obj'[obj'[q].call.child].died
    <3>1. q # o /\ Live(q) /\ obj'[q].call = obj[q].call /\ obj'[q].pid = obj[q].pid
      BY <1>6, <2>5 DEF Live
    <3> DEFINE c == obj[q].call.child
    <3>2. c \in Objs /\ Live(c) /\ obj[c].ppid = obj[q].pid /\ obj[q].call.code \in obj[c].died
      BY <1>2, <2>5, <3>1 DEF FamilyInv, CallInv
    <3>3. c # n
      BY <1>2, <2>1, <3>1, <3>2 DEF ShapeInv
    <3>4. obj'[q].call.child = c /\ obj'[q].call.code = obj[q].call.code
      BY <3>1
    <3> HIDE DEF c
    <3>5. obj'[c].st = "live" /\ obj'[c].ppid = obj[c].ppid /\ obj'[c].died = obj[c].died
      BY <1>6, <3>2, <3>3 DEF Live
    <3> QED
      BY <3>1, <3>2, <3>4, <3>5
  <2> QED
    BY <1>1, <2>2, <2>3, <2>4, <2>5 DEF FamilyInv, Live
<1> QED
  BY <1>7, <1>8, <1>9, <1>10, <1>11, <1>12, <1>13 DEF ProcInv

\* The scan of PosixWait4 takes the zombie with the lowest pid.
LEMMA WaitableIs ==
    ASSUME ProcInv, NEW o \in Objs, NEW target, Waitable(o, target) # {}
    PROVE  LET c == CHOOSE z \in Waitable(o, target) :
                      \A y \in Waitable(o, target) : obj[z].pid <= obj[y].pid
           IN  c \in Objs /\ Live(c) /\ obj[c].ppid = obj[o].pid /\ obj[c].zombie
<1> DEFINE W == Waitable(o, target)
           pids == {obj[z].pid : z \in W}
<1>1. ASSUME NEW z \in W
      PROVE  z \in Objs /\ Live(z) /\ obj[z].ppid = obj[o].pid /\ obj[z].zombie
  <2>1. PICK pid \in 1 .. MaxProcs : z = PosixFind(pid)
    BY DEF Waitable
  <2>2. z # 0 /\ obj[z].ppid = obj[o].pid /\ obj[z].zombie
    BY DEF Waitable
  <2> QED
    BY <2>1, <2>2, FindIs DEF ProcInv
<1>2. pids \in SUBSET Nat /\ pids # {}
  BY <1>1 DEF ProcInv, ShapeInv
<1>3. PICK least \in pids : \A m \in pids : least <= m
  BY <1>2, LeastNat
<1>4. \E z \in W : \A y \in W : obj[z].pid <= obj[y].pid
  BY <1>3
<1> HIDE DEF W
<1>5. (CHOOSE z \in W : \A y \in W : obj[z].pid <= obj[y].pid) \in W
  BY <1>4
<1> QED
  BY <1>1, <1>5 DEF W

\* The turn of wait4's loop that finds a zombie: its directory goes first.
LEMMA ScanKeepsInv ==
    ASSUME ProcInv, NEW o \in Objs, obj[o].st # "none", obj[o].th = "ready",
           NEW c \in Objs, Live(c), obj[c].ppid = obj[o].pid, obj[c].zombie,
           obj' = [obj EXCEPT ![o].call = [op |-> "reap", child |-> c, code |-> obj[c].code]],
           cache' = NotifyRemoved(obj[c].pid),
           UNCHANGED <<made, items, nextPid, raced, orphaned>>
    PROVE  ProcInv'
<1>1. /\ Shaped(obj) /\ ShapeInv /\ CallInv /\ TableInv /\ DirInv /\ PidInv /\ ExitInv /\ FamilyInv
      /\ 1 .. made \subseteq Objs
  <2>1. 1 .. made \subseteq Objs /\ Shaped(obj)
    BY ProcessAssumption DEF ProcInv, ShapeInv, Objs
  <2> QED
    BY <2>1 DEF ProcInv
<1>2. /\ Shaped(obj')
      /\ \A q \in Objs : q # o => obj'[q] = obj[q]
      /\ \A q \in Objs :
            /\ obj'[q].st = obj[q].st /\ obj'[q].pid = obj[q].pid /\ obj'[q].ppid = obj[q].ppid
            /\ obj'[q].zombie = obj[q].zombie /\ obj'[q].code = obj[q].code
            /\ obj'[q].died = obj[q].died /\ obj'[q].th = obj[q].th
      /\ obj'[o].call.op = "reap" /\ obj'[o].call.child = c /\ obj'[o].call.code = obj[c].code
  BY <1>1 DEF Shaped, Fields
<1>3. /\ cache' \in [Cached -> Objs \cup {0}]
      /\ \A p \in Cached : cache'[p] = cache[p] \/ cache'[p] = 0
      /\ obj[c].pid \in Cached => cache'[obj[c].pid] = 0
      /\ 0 \notin Objs
  BY <1>1 DEF NotifyRemoved, ShapeInv, Objs
<1>4. c \in 1 .. made
  BY <1>1, ProcessAssumption DEF ShapeInv, Live, Objs
<1>5. ShapeInv'
  BY <1>1, <1>2, <1>3 DEF ShapeInv, Live
<1>6. CallInv'
  BY <1>1, <1>2, <1>4 DEF CallInv
<1>7. TableInv'
  BY <1>1, <1>2 DEF TableInv, Live
<1>8. DirInv'
  <2>1. ASSUME NEW p \in Cached, cache'[p] # 0
        PROVE  obj'[cache'[p]].st = "live" /\ obj'[cache'[p]].pid = p
    <3>1. cache[p] \in Objs /\ Live(cache[p]) /\ obj[cache[p]].pid = p /\ cache'[p] = cache[p]
      BY <1>1, <1>3, <2>1 DEF DirInv, ShapeInv
    <3> QED
      BY <1>2, <3>1 DEF Live
  <2>2. ASSUME NEW q \in Objs, obj'[q].call.op = "reap",
               obj'[obj'[q].call.child].st = "live", obj'[obj'[q].call.child].pid \in Cached
        PROVE  cache'[obj'[obj'[q].call.child].pid] # obj'[q].call.child
    <3>1. CASE q = o
      BY <1>2, <1>3, <2>2, <3>1
    <3>2. CASE q # o
      <4> DEFINE d == obj[q].call.child
      <4>1. obj'[q].call.child = d /\ obj[q].call.op = "reap"
        BY <1>2, <2>2, <3>2
      <4>2. d \in Objs
        BY <1>1, <4>1 DEF CallInv
      <4>3. Live(d) /\ obj[d].pid \in Cached => cache[obj[d].pid] # d
        BY <1>1, <4>1 DEF DirInv
      <4> HIDE DEF d
      <4>4. d # 0 /\ obj'[d].pid = obj[d].pid /\ obj'[d].st = obj[d].st
        BY <1>2, <1>3, <4>2
      <4> QED
        BY <1>3, <2>2, <4>1, <4>3, <4>4 DEF Live
    <3> QED
      BY <3>1, <3>2
  <2> QED
    BY <2>1, <2>2 DEF DirInv, Live
<1>9. PidInv'
  BY <1>1, <1>2 DEF PidInv, Live
<1>10. ExitInv'
  BY <1>1, <1>2 DEF ExitInv, Live
<1>11. FamilyInv'
  <2> SUFFICES ASSUME ~raced, ~orphaned PROVE FamilyInv'
    BY DEF FamilyInv
  <2>1. \A q \in Objs : obj'[q].st = "freed" => obj'[q].th # "ready"
    BY <1>1, <1>2 DEF FamilyInv
  <2>2. ASSUME NEW q \in Objs, obj'[q].st = "live", obj'[q].call.op = "copy"
        PROVE  /\ Live(q) /\ obj[q].call.op = "copy" /\ obj'[q].call.child = obj[q].call.child
               /\ obj'[obj'[q].call.child].st = "live" /\ obj'[obj'[q].call.child].ppid = 0
    <3>1. Live(q) /\ obj'[q].call = obj[q].call
      BY <1>2, <2>2 DEF Live
    <3>2. obj[q].call.child \in Objs /\ Live(obj[q].call.child) /\ obj[obj[q].call.child].ppid = 0
      BY <1>1, <2>2, <3>1 DEF FamilyInv, CallInv
    <3> QED
      BY <1>2, <2>2, <3>1, <3>2 DEF Live
  <2>3. ASSUME NEW q \in Objs, obj'[q].st = "live", obj'[q].call.op = "copy",
               NEW r \in Objs, obj'[r].st = "live", obj'[r].call.op = "copy",
               obj'[q].call.child = obj'[r].call.child
        PROVE  q = r
    BY <1>1, <2>2, <2>3 DEF FamilyInv
  <2>4. ASSUME NEW q \in Objs, obj'[q].st = "live", obj'[q].call.op = "reap"
        PROVE  /\ obj'[obj'[q].call.child].st = "live"
               /\ obj'[obj'[q].call.child].ppid = obj'[q].pid
               /\ obj'[q].call.code \in obj'[obj'[q].call.child].died
    <3>1. CASE q = o
      BY <1>1, <1>2, <3>1 DEF ExitInv, Live
    <3>2. CASE q # o
      <4> DEFINE d == obj[q].call.child
      <4>1. obj'[q].call.child = d /\ obj'[q].call.code = obj[q].call.code
        BY <1>2, <3>2
      <4>2. d \in Objs /\ Live(d) /\ obj[d].ppid = obj[q].pid /\ obj[q].call.code \in obj[d].died
        BY <1>1, <1>2, <2>4, <3>2, SMTT(30) DEF FamilyInv, CallInv, Live
      <4> HIDE DEF d
      <4>3. obj'[d].st = "live" /\ obj'[d].ppid = obj'[q].pid /\ obj'[d].died = obj[d].died
        BY <1>2, <4>2 DEF Live
      <4> QED
        BY <4>1, <4>2, <4>3
    <3> QED
      BY <3>1, <3>2
  <2> QED
    BY <2>1, <2>2, <2>3, <2>4, ZenonT(40) DEF FamilyInv, Live
<1> QED
  BY <1>5, <1>6, <1>7, <1>8, <1>9, <1>10, <1>11 DEF ProcInv

LEMMA WaitKeepsInv ==
    ASSUME ProcInv, NEW o \in Objs, NEW target, NEW nohang, PosixWait4(o, target, nohang)
    PROVE  ProcInv'
<1> DEFINE c == CHOOSE z \in Waitable(o, target) :
                  \A y \in Waitable(o, target) : obj[z].pid <= obj[y].pid
<1>1. obj[o].st # "none" /\ obj[o].th = "ready" /\ UNCHANGED <<made, items, nextPid, raced, orphaned>>
  BY DEF PosixWait4, InUser, In, Runs
<1>2. Shaped(obj) /\ ExitInv /\ ShapeInv
  BY DEF ProcInv, ShapeInv
<1>3. CASE /\ Waitable(o, target) # {}
           /\ obj' = [obj EXCEPT ![o].call = [op |-> "reap", child |-> c, code |-> obj[c].code]]
           /\ cache' = NotifyRemoved(obj[c].pid)
  <2>1. c \in Objs /\ Live(c) /\ obj[c].ppid = obj[o].pid /\ obj[c].zombie
    BY <1>3, WaitableIs
  <2> HIDE DEF c
  <2> QED
    BY <1>1, <1>3, <2>1, ScanKeepsInv
<1>4. CASE UNCHANGED <<obj, cache>>
  <2>1. Shaped(obj') /\ \A q \in Objs : Quiet(q)
    BY <1>2, <1>4 DEF Quiet, ExitInv, Live
  <2> QED
    BY <1>1, <1>4, <2>1, QuietStep
<1>5. CASE /\ obj' = [obj EXCEPT ![o].th = "blocked", ![o].call = [op |-> "wait", target |-> target]]
           /\ UNCHANGED cache
  <2>1. /\ Shaped(obj')
        /\ \A q \in Objs :
              /\ obj'[q].st = obj[q].st /\ obj'[q].pid = obj[q].pid /\ obj'[q].ppid = obj[q].ppid
              /\ obj'[q].zombie = obj[q].zombie /\ obj'[q].code = obj[q].code
              /\ obj'[q].died = obj[q].died
              /\ q # o => obj'[q].call = obj[q].call /\ obj'[q].th = obj[q].th
        /\ obj'[o].call.op = "wait" /\ obj'[o].th = "blocked"
    BY <1>2, <1>5 DEF Shaped, Fields
  <2>2. \A q \in Objs : Quiet(q)
    BY <1>1, <1>2, <2>1 DEF Quiet, ExitInv, Live
  <2> QED
    BY <1>1, <1>5, <2>1, <2>2, QuietStep
<1> QED
  BY <1>3, <1>4, <1>5 DEF PosixWait4

\* __TableRemove__ takes the structure out and keeps every other, in a table
\* of distinct items.
LEMMA TableRemoveIs ==
    ASSUME ShapeInv, TableInv, NEW c \in Objs
    PROVE  LET after == TableRemove(c)
           IN  /\ after \in Seq(Objs)
               /\ Len(after) <= MaxProcs
               /\ \A i, j \in 1 .. Len(after) : after[i] = after[j] => i = j
               /\ \A q \in Objs : (\E i \in 1 .. Len(after) : after[i] = q) <=>
                                  q # c /\ \E i \in 1 .. Len(items) : items[i] = q
<1> DEFINE n == Len(items)
           at == {i \in DOMAIN items : items[i] = c}
<1>1. items \in Seq(Objs) /\ n \in Nat /\ DOMAIN items = 1 .. n /\ \A i \in 1 .. n : items[i] \in Objs
  BY DEF ShapeInv
<1>2. n <= MaxProcs /\ MaxProcs \in Nat /\ \A i, j \in 1 .. n : items[i] = items[j] => i = j
  BY ProcessAssumption DEF TableInv
<1>3. CASE at = {}
  <2>1. TableRemove(c) = items
    BY <1>3 DEF TableRemove
  <2>2. \A i \in 1 .. n : items[i] # c
    BY <1>1, <1>3
  <2> QED
    BY <1>1, <1>2, <2>1, <2>2
<1>4. CASE at # {}
  <2>1. PICK k \in 1 .. n : items[k] = c /\ at = {k}
    BY <1>1, <1>2, <1>4
  <2> DEFINE moved == [i \in DOMAIN items |-> IF i \in at THEN Last(items) ELSE items[i]]
  <2>2. /\ TableRemove(c) = Front(moved)
        /\ \A i \in 1 .. n : moved[i] = IF i = k THEN items[n] ELSE items[i]
    BY <1>1, <1>4, <2>1 DEF TableRemove, Last
  <2>3. n >= 1 /\ n \in 1 .. n
    BY <1>1, <2>1
  <2>4. moved \in Seq(Objs) /\ Len(moved) = n
    <3>1. moved \in [1 .. n -> Objs]
      BY <1>1, <2>2, <2>3
    <3> HIDE DEF moved
    <3> QED
      BY <1>1, <3>1
  <2> HIDE DEF moved, at
  <2>5. /\ Front(moved) \in Seq(Objs) /\ Len(Front(moved)) = n - 1
        /\ \A i \in 1 .. n - 1 : Front(moved)[i] = IF i = k THEN items[n] ELSE items[i]
    <3>1. \A i \in 1 .. n - 1 : moved[i] \in Objs
      BY <1>1, <2>2, <2>3
    <3>2. /\ SubSeq(moved, 1, n - 1) \in Seq(Objs)
          /\ Len(SubSeq(moved, 1, n - 1)) = n - 1
          /\ \A i \in 1 .. n - 1 : SubSeq(moved, 1, n - 1)[i] = moved[i]
      BY <1>1, <2>3, <3>1, SubSeqProperties
    <3> QED
      BY <1>1, <2>2, <2>4, <3>2 DEF Front
  <2> DEFINE after == TableRemove(c)
  <2>6. /\ after \in Seq(Objs) /\ Len(after) = n - 1
        /\ \A i \in 1 .. n - 1 : after[i] = IF i = k THEN items[n] ELSE items[i]
    BY <2>2, <2>5
  <2> HIDE DEF after
  <2>7. \A i, j \in 1 .. n - 1 : after[i] = after[j] => i = j
    BY <1>1, <1>2, <2>1, <2>3, <2>6
  <2>8. ASSUME NEW q \in Objs
        PROVE  (\E i \in 1 .. n - 1 : after[i] = q) <=> q # c /\ \E i \in 1 .. n : items[i] = q
    <3>1. ASSUME NEW i \in 1 .. n - 1, after[i] = q
          PROVE  q # c /\ \E j \in 1 .. n : items[j] = q
      BY <1>1, <1>2, <2>1, <2>3, <2>6, <3>1
    <3>2. ASSUME NEW j \in 1 .. n, items[j] = q, q # c
          PROVE  \E i \in 1 .. n - 1 : after[i] = q
      <4> HIDE DEF n
      <4>1. j # k /\ n \in Nat
        BY <1>1, <2>1, <3>2
      <4>2. CASE j = n
        <5>1. k \in 1 .. n - 1
          BY <4>1, <4>2
        <5>2. after[k] = items[n]
          BY <2>6, <5>1
        <5> QED
          BY <3>2, <4>2, <5>1, <5>2
      <4>3. CASE j # n
        <5>1. j \in 1 .. n - 1
          BY <4>1, <4>3
        <5>2. after[j] = items[j]
          BY <2>6, <4>1, <5>1
        <5> QED
          BY <3>2, <5>1, <5>2
      <4> QED
        BY <4>2, <4>3
    <3> QED
      BY <3>1, <3>2
  <2> QED
    BY <1>1, <1>2, <2>6, <2>7, <2>8 DEF after
<1> QED
  BY <1>3, <1>4

\* The end of wait4: the child leaves the table and is freed.
LEMMA ReapKeepsInv ==
    ASSUME ProcInv, NEW o \in Objs, Reap(o)
    PROVE  ProcInv'
<1> DEFINE c == obj[o].call.child
<1>1. /\ obj[o].st # "none" /\ obj[o].call.op = "reap" /\ obj[o].th = "ready"
      /\ items' = TableRemove(c) /\ orphaned' = (orphaned \/ obj[c].th = "ready")
      /\ UNCHANGED <<made, nextPid, cache, raced>>
  BY DEF Reap, In, Runs
<1>2. /\ Shaped(obj) /\ ShapeInv /\ CallInv /\ TableInv /\ DirInv /\ PidInv /\ ExitInv /\ FamilyInv
      /\ 1 .. made \subseteq Objs
  <2>1. 1 .. made \subseteq Objs /\ Shaped(obj)
    BY ProcessAssumption DEF ProcInv, ShapeInv, Objs
  <2> QED
    BY <2>1 DEF ProcInv
<1>3. c \in 1 .. made /\ c \in Objs
  BY <1>1, <1>2 DEF CallInv
<1>4. obj' = [obj EXCEPT ![c] = [NoProc EXCEPT !.st = "freed", !.th = obj[c].th, !.call = obj[c].call],
                         ![o].call = User]
  BY DEF Reap
<1> HIDE DEF c
<1>5. /\ Shaped(obj')
      /\ \A q \in Objs :
            /\ q # c => /\ obj'[q].st = obj[q].st /\ obj'[q].pid = obj[q].pid
                        /\ obj'[q].ppid = obj[q].ppid /\ obj'[q].zombie = obj[q].zombie
                        /\ obj'[q].code = obj[q].code /\ obj'[q].died = obj[q].died
            /\ obj'[q].th = obj[q].th
            /\ q # o => obj'[q].call = obj[q].call
      /\ obj'[c].st = "freed" /\ obj'[o].call.op = "user"
  <2> DEFINE x == [NoProc EXCEPT !.st = "freed", !.th = obj[c].th, !.call = obj[c].call]
             f == [obj EXCEPT ![c] = x]
  <2>1. DOMAIN x = Fields /\ x.st = "freed" /\ x.th = obj[c].th /\ x.call = obj[c].call
    BY DEF NoProc, NewProc, Fields
  <2>2. obj' = [f EXCEPT ![o].call = User]
    BY <1>4
  <2> HIDE DEF x
  <2>3. Shaped(f) /\ f[c] = x /\ \A q \in Objs : q # c => f[q] = obj[q]
    BY <1>2, <1>3, <2>1 DEF Shaped
  <2> HIDE DEF f
  <2>4. /\ Shaped(obj')
        /\ \A q \in Objs :
              /\ obj'[q].st = f[q].st /\ obj'[q].pid = f[q].pid
              /\ obj'[q].ppid = f[q].ppid /\ obj'[q].zombie = f[q].zombie
              /\ obj'[q].code = f[q].code /\ obj'[q].died = f[q].died
              /\ obj'[q].th = f[q].th
              /\ q # o => obj'[q].call = f[q].call
        /\ obj'[o].call.op = "user"
    BY <2>2, <2>3 DEF Shaped, Fields, User
  <2> QED
    BY <1>3, <2>1, <2>3, <2>4
<1>6. \A q \in Objs : obj'[q].st = "live" <=> q # c /\ Live(q)
  BY <1>3, <1>5 DEF Live
<1>7. ShapeInv'
  <2>1. items' \in Seq(Objs)
    <3>1. TableRemove(c) \in Seq(Objs)
      BY <1>2, <1>3, TableRemoveIs
    <3> QED
      BY <1>1, <3>1
  <2>2. \A q \in Objs : obj'[q].st \in {"none", "live", "freed"} /\ (obj'[q].st = "none" <=> q > made)
    <3>1. ~(c > made)
      BY <1>2, <1>3 DEF ShapeInv, Objs
    <3> QED
      BY <1>2, <1>3, <1>5, <3>1 DEF ShapeInv
  <2>3. \A q \in Objs : obj'[q].st = "live" => obj'[q].pid \in Nat \ {0}
    BY <1>2, <1>5, <1>6 DEF ShapeInv
  <2>4. orphaned' \in BOOLEAN
    BY <1>1, <1>2 DEF ShapeInv
  <2> QED
    BY <1>1, <1>2, <1>5, <2>1, <2>2, <2>3, <2>4 DEF ShapeInv, Live
<1>8. CallInv'
  BY <1>1, <1>2, <1>3, <1>5 DEF CallInv
<1>9. TableInv'
  <2>1. /\ Len(items') <= MaxProcs
        /\ \A i, j \in 1 .. Len(items') : items'[i] = items'[j] => i = j
        /\ \A q \in Objs : (\E i \in 1 .. Len(items') : items'[i] = q) <=>
                           q # c /\ \E i \in 1 .. Len(items) : items[i] = q
    <3> DEFINE after == TableRemove(c)
    <3>1. /\ Len(after) <= MaxProcs
          /\ \A i, j \in 1 .. Len(after) : after[i] = after[j] => i = j
          /\ \A q \in Objs : (\E i \in 1 .. Len(after) : after[i] = q) <=>
                             q # c /\ \E i \in 1 .. Len(items) : items[i] = q
      BY <1>2, <1>3, TableRemoveIs
    <3>2. items' = after
      BY <1>1
    <3> HIDE DEF after
    <3> QED
      BY <3>1, <3>2
  <2>2. \A q \in Objs : Live(q) <=> \E i \in 1 .. Len(items) : items[i] = q
    BY <1>2 DEF TableInv
  <2>3. \A q \in Objs : obj'[q].st = "live" <=> \E i \in 1 .. Len(items') : items'[i] = q
    BY <1>6, <2>1, <2>2, Zenon
  <2> QED
    BY <2>1, <2>3 DEF TableInv, Live
<1>10. DirInv'
  <2>1. ASSUME NEW p \in Cached, cache[p] # 0
        PROVE  obj'[cache[p]].st = "live" /\ obj'[cache[p]].pid = p
    <3>1. cache[p] \in Objs /\ Live(cache[p]) /\ obj[cache[p]].pid = p
      BY <1>2, <2>1 DEF DirInv, ShapeInv
    <3>2. Live(c) /\ obj[c].pid \in Cached => cache[obj[c].pid] # c
      BY <1>1, <1>2 DEF DirInv, c
    <3>3. cache[p] # c
      BY <2>1, <3>1, <3>2
    <3> QED
      BY <1>5, <1>6, <3>1, <3>3
  <2>2. ASSUME NEW q \in Objs, obj'[q].call.op = "reap",
               obj'[obj'[q].call.child].st = "live", obj'[obj'[q].call.child].pid \in Cached
        PROVE  cache[obj'[obj'[q].call.child].pid] # obj'[q].call.child
    <3> DEFINE d == obj[q].call.child
    <3>1. obj'[q].call.child = d /\ obj[q].call.op = "reap"
      BY <1>5, <2>2
    <3>2. d \in Objs
      BY <1>2, <3>1 DEF CallInv
    <3>3. Live(d) /\ obj[d].pid \in Cached => cache[obj[d].pid] # d
      BY <1>2, <3>1 DEF DirInv
    <3> HIDE DEF d
    <3>4. d # c /\ Live(d) /\ obj'[d].pid = obj[d].pid
      BY <1>5, <1>6, <2>2, <3>1, <3>2
    <3> QED
      BY <2>2, <3>1, <3>3, <3>4
  <2> QED
    BY <1>1, <2>1, <2>2 DEF DirInv, Live
<1>11. PidInv'
  BY <1>1, <1>2, <1>5, <1>6 DEF PidInv, Live
<1>12. ExitInv'
  BY <1>2, <1>5, <1>6 DEF ExitInv, Live
<1>13. FamilyInv'
  <2> SUFFICES ASSUME ~raced, ~orphaned' PROVE FamilyInv'
    BY <1>1 DEF FamilyInv
  <2>1. ~orphaned /\ obj[c].th # "ready"
    BY <1>1
  <2>2. /\ Live(o) /\ Live(c) /\ obj[c].ppid = obj[o].pid /\ obj[o].pid \in Nat \ {0}
    BY <1>1, <1>2, <2>1 DEF FamilyInv, ShapeInv, Live, c
  <2>3. \A q \in Objs : obj'[q].st = "freed" => obj'[q].th # "ready"
    BY <1>2, <1>5, <2>1 DEF FamilyInv
  <2>4. ASSUME NEW q \in Objs, obj'[q].st = "live", obj'[q].call.op = "copy"
        PROVE  /\ Live(q) /\ obj[q].call.op = "copy" /\ obj'[q].call.child = obj[q].call.child
               /\ obj'[obj'[q].call.child].st = "live" /\ obj'[obj'[q].call.child].ppid = 0
    <3> DEFINE d == obj[q].call.child
    <3>1. q # o /\ Live(q) /\ obj[q].call.op = "copy" /\ obj'[q].call.child = d
      BY <1>5, <1>6, <2>4
    <3>2. d \in Objs /\ Live(d) /\ obj[d].ppid = 0
      BY <1>2, <2>1, <3>1 DEF FamilyInv, CallInv
    <3> HIDE DEF d
    <3>3. d # c
      BY <2>2, <3>2
    <3>4. obj'[d].st = "live" /\ obj'[d].ppid = 0
      BY <1>5, <1>6, <3>2, <3>3
    <3> QED
      BY <3>1, <3>4 DEF d
  <2>5. ASSUME NEW q \in Objs, obj'[q].st = "live", obj'[q].call.op = "copy",
               NEW r \in Objs, obj'[r].st = "live", obj'[r].call.op = "copy",
               obj'[q].call.child = obj'[r].call.child
        PROVE  q = r
    BY <1>2, <2>1, <2>4, <2>5 DEF FamilyInv
  <2>6. ASSUME NEW q \in Objs, obj'[q].st = "live", obj'[q].call.op = "reap"
        PROVE  /\ obj'[obj'[q].call.child].st = "live"
               /\ obj'[obj'[q].call.child].ppid = obj'[q].pid
               /\ obj'[q].call.code \in obj'[obj'[q].call.child].died
    <3> DEFINE d == obj[q].call.child
    <3>1. q # o /\ q # c /\ Live(q) /\ obj[q].call.op = "reap" /\ obj'[q].call.child = d
          /\ obj'[q].call.code = obj[q].call.code /\ obj'[q].pid = obj[q].pid
      BY <1>5, <1>6, <2>6
    <3>2. d \in Objs /\ Live(d) /\ obj[d].ppid = obj[q].pid /\ obj[q].call.code \in obj[d].died
      BY <1>2, <2>1, <3>1 DEF FamilyInv, CallInv
    <3> HIDE DEF d
    <3>3. d # c
      BY <1>2, <2>2, <3>1, <3>2 DEF PidInv
    <3>4. obj'[d].st = "live" /\ obj'[d].ppid = obj[d].ppid /\ obj'[d].died = obj[d].died
      BY <1>5, <1>6, <3>2, <3>3
    <3> QED
      BY <3>1, <3>2, <3>4
  <2> QED
    BY <1>1, <2>3, <2>4, <2>5, <2>6 DEF FamilyInv, Live
<1> QED
  BY <1>7, <1>8, <1>9, <1>10, <1>11, <1>12, <1>13 DEF ProcInv

----------------------------------------------------------------------------
(* The theorems *)

LEMMA ProcInitInv == ProcInit => ProcInv
<1> SUFFICES ASSUME ProcInit PROVE ProcInv
  OBVIOUS
<1>1. 1 \in Objs /\ Objs \subseteq Nat \ {0}
  BY ProcessAssumption DEF Objs
<1>2. items \in Seq(Objs) /\ Len(items) = 1 /\ items[1] = 1
  BY <1>1 DEF ProcInit
<1>3. /\ Shaped(obj)
      /\ obj[1].st = "live" /\ obj[1].pid = 1 /\ ~obj[1].zombie /\ obj[1].call.op = "user"
      /\ \A o \in Objs : o # 1 => obj[o].st = "none" /\ obj[o].call.op = "user"
  BY <1>1 DEF ProcInit, Shaped, Fields, NewProc, NoProc, User
<1>4. ShapeInv
  <2>1. \A o \in Objs : obj[o].st \in {"none", "live", "freed"} /\ (obj[o].st = "none" <=> o > made)
    <3>1. made = 1 /\ \A o \in Objs : o > 1 <=> o # 1
      BY <1>1 DEF ProcInit
    <3> QED
      BY <1>3, <3>1
  <2>2. cache \in [Cached -> Objs \cup {0}] /\ made \in Objs /\ nextPid \in Nat \ {0}
    BY <1>1 DEF ProcInit
  <2>3. raced \in BOOLEAN /\ orphaned \in BOOLEAN
    BY DEF ProcInit
  <2>4. \A o \in Objs : Live(o) => o = 1
    BY <1>3 DEF Live
  <2> QED
    BY <1>2, <1>3, <2>1, <2>2, <2>3, <2>4 DEF ShapeInv
<1>5. CallInv
  BY <1>3 DEF CallInv
<1>6. TableInv
  BY <1>1, <1>2, <1>3, ProcessAssumption DEF TableInv, Live
<1>7. DirInv
  BY <1>3 DEF ProcInit, DirInv, Live
<1>8. PidInv
  <2>1. \A o \in Objs : Live(o) => o = 1
    BY <1>3 DEF Live
  <2>2. nextPid = 2
    BY DEF ProcInit
  <2> QED
    BY <1>3, <2>1, <2>2 DEF PidInv
<1>9. ExitInv
  BY <1>3 DEF ExitInv, Live
<1>10. FamilyInv
  BY <1>3 DEF FamilyInv, Live
<1> QED
  BY <1>4, <1>5, <1>6, <1>7, <1>8, <1>9, <1>10 DEF ProcInv

LEMMA ProcStepInv ==
    ASSUME ProcInv, [ProcNext]_vars
    PROVE  ProcInv'
<1>1. ASSUME NEW o \in Objs, PosixFork(o) PROVE ProcInv'
  BY <1>1, ForkKeepsInv
<1>2. ASSUME NEW o \in Objs, PosixProcCreate(o) PROVE ProcInv'
  BY <1>2, CreateKeepsInv
<1>3. ASSUME NEW o \in Objs, ForkFinish(o) PROVE ProcInv'
  BY <1>3, ForkFinishKeepsInv
<1>4. ASSUME NEW o \in Objs, PosixExit(o) PROVE ProcInv'
  BY <1>4, ExitKeepsInv
<1>5. ASSUME NEW o \in Objs, ExitFinish(o) PROVE ProcInv'
  BY <1>5, ExitFinishKeepsInv
<1>6. ASSUME NEW o \in Objs, Reap(o) PROVE ProcInv'
  BY <1>6, ReapKeepsInv
<1>7. ASSUME NEW o \in Objs, NEW target \in Targets, NEW nohang \in BOOLEAN,
             PosixWait4(o, target, nohang)
      PROVE  ProcInv'
  BY <1>7, WaitKeepsInv
<1>8. ASSUME NEW o \in Controllers, NEW pid, NEW sig, NEW mask,
             PosixKill(o, pid, sig) \/ PosixSigaction(o, sig, mask) \/ PosixSigprocmask(o, mask)
      PROVE  ProcInv'
  BY <1>8, SignalCallsKeepInv, ProcessAssumption DEF Objs
<1>9. ASSUME NEW o \in Controllers, NEW pid \in Controlled,
             PosixProcExecve(o, pid) \/ ProcFsWriteState(o, pid)
      PROVE  ProcInv'
  BY <1>9, ControlKeepsInv, ProcessAssumption DEF Objs
<1>10. ASSUME NEW pid \in 1 .. MaxProcs, DeliverPendingSignals(PosixFind(pid)) PROVE ProcInv'
  BY <1>10, DeliverKeepsInv
<1>11. CASE UNCHANGED vars
  <2>1. Shaped(obj') /\ \A q \in Objs : Quiet(q)
    BY <1>11 DEF vars, ProcInv, ShapeInv, ExitInv, Quiet, Live
  <2> QED
    BY <1>11, <2>1, QuietStep DEF vars
<1> QED
  BY <1>1, <1>2, <1>3, <1>4, <1>5, <1>6, <1>7, <1>8, <1>9, <1>10, <1>11, Zenon DEF ProcNext

\* The inductive invariant of the process table.
THEOREM ProcessInvariant == ProcSpec => []ProcInv
<1>1. ProcInv /\ [ProcNext]_vars => ProcInv'
  BY ProcStepInv
<1> QED
  BY <1>1, ProcInitInv, PTL DEF ProcSpec

\* The table lists every process that is not freed, once, in whatever order
\* forks, exits and reaps of any number of processes come (__TableInsert__,
\* __TableRemove__).
THEOREM ProcessTableIsExact == ProcSpec => []TableIsExact
<1>1. ASSUME ProcInv PROVE TableIsExact
  <2> DEFINE n == Len(items)
  <2>1. items \in Seq(Objs) /\ n \in Nat /\ DOMAIN items = 1 .. n /\ \A i \in 1 .. n : items[i] \in Objs
    BY <1>1 DEF ProcInv, ShapeInv
  <2>2. InTable = {o \in Objs : obj[o].st = "live"}
    BY <1>1, <2>1 DEF ProcInv, TableInv, InTable, Live
  <2>3. IsFiniteSet(1 .. n) /\ Cardinality(1 .. n) = n
    <3>1. 1 \in Int /\ n \in Int
      BY <2>1
    <3> HIDE DEF n
    <3>2. IsFiniteSet(1 .. n) /\ Cardinality(1 .. n) = IF 1 > n THEN 0 ELSE n - 1 + 1
      BY <3>1, FS_Interval
    <3> QED
      BY <2>1, <3>2
  <2>4. items \in Surjection(1 .. n, InTable)
    BY <2>1 DEF Surjection, InTable
  <2>5. items \in Injection(1 .. n, InTable)
    <3>1. \A i, j \in 1 .. n : items[i] = items[j] => i = j
      BY <1>1 DEF ProcInv, TableInv
    <3>2. items \in [1 .. n -> InTable]
      BY <2>4 DEF Surjection
    <3> HIDE DEF n
    <3> QED
      BY <3>1, <3>2 DEF Injection, IsInjective
  <2>6. Cardinality(InTable) = n
    BY <2>3, <2>4, <2>5, FS_Surjection
  <2> QED
    BY <1>1, <2>2, <2>6 DEF TableIsExact, ProcInv, TableInv
<1> QED
  BY <1>1, ProcessInvariant, PTL

\* A directory of /proc is of a process of the table with that pid: the order
\* of ProcFsNotifyProcRemoved, __TableRemove__ and __FreeProc__ leaves no
\* window in which a lookup answers a freed structure.
THEOREM ProcessDirectoryIsLive == ProcSpec => []DirectoryIsLive
<1>1. ASSUME ProcInv PROVE DirectoryIsLive
  <2>1. \A o \in Objs : Live(o) => o \in InTable
    BY <1>1 DEF ProcInv, TableInv, ShapeInv, InTable
  <2> QED
    BY <1>1, <2>1 DEF ProcInv, DirInv, ShapeInv, DirectoryIsLive
<1> QED
  BY <1>1, ProcessInvariant, PTL

\* Two processes of the table share a pid only if two allocations of a pid
\* overlapped (__FindFreePid__).
THEOREM ProcessPidsUnique == ProcSpec => []PidsUniqueUnlessRaced
<1>1. ASSUME ProcInv PROVE PidsUniqueUnlessRaced
  <2>1. \A o \in InTable : o \in Objs /\ Live(o)
    BY <1>1 DEF ProcInv, TableInv, ShapeInv, InTable
  <2> QED
    BY <1>1, <2>1 DEF ProcInv, PidInv, PidsUniqueUnlessRaced
<1> QED
  BY <1>1, ProcessInvariant, PTL

\* wait4 answers a child of the caller, with a status the child exited with,
\* and nobody else has taken the child before it is removed (PosixExit,
\* PosixWait4), when no pid was given out twice and no freed process runs on.
THEOREM ProcessReapIsOfOwnExit == ProcSpec => []ReapIsOfOwnExit
<1>1. ASSUME ProcInv PROVE ReapIsOfOwnExit
  <2>1. /\ \A o \in InTable : o \in Objs /\ Live(o)
        /\ \A o \in Objs : Live(o) => o \in InTable
    BY <1>1 DEF ProcInv, TableInv, ShapeInv, InTable
  <2> SUFFICES ASSUME ~raced, ~orphaned, NEW o \in InTable, obj[o].call.op = "reap"
               PROVE  LET c == obj[o].call.child
                      IN  /\ c \in InTable
                          /\ obj[c].ppid = obj[o].pid
                          /\ obj[o].call.code \in obj[c].died
    BY DEF ReapIsOfOwnExit
  <2>2. obj[o].call.child \in Objs
    BY <1>1, <2>1, ProcessAssumption DEF ProcInv, CallInv, ShapeInv, Objs
  <2> QED
    BY <1>1, <2>1, <2>2 DEF ProcInv, FamilyInv
<1> QED
  BY <1>1, ProcessInvariant, PTL
=============================================================================
