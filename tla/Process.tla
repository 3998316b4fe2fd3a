------------------------------ MODULE Process ------------------------------
(***************************************************************************)
(* Processes (Proc.c), their mirror in /proc (ProcFS.c, ProcHelp.c) and the *)
(* system calls on them (SysTbl.c): fork, execve, exit, wait4, kill,        *)
(* sigaction, sigprocmask, signal delivery, the /proc files that control a  *)
(* process, and the listing of /proc.                                       *)
(*                                                                         *)
(* A process structure is an object of Objs, taken in order, so that two    *)
(* structures may carry one pid. A process has one thread; the kernel call  *)
(* the thread is in is the "call" of its object, and the calls of several   *)
(* processes interleave at the points where Proc.c takes or drops a lock or *)
(* reads shared state without one. PosixExit takes ThreadListLock and then  *)
(* DestroyThread takes it again, with interrupts disabled: "stuck" counts   *)
(* the CPUs that spin for ever, and nothing runs without a free CPU.        *)
(***************************************************************************)
EXTENDS Integers, Sequences, FiniteSets, SequencesExt

CONSTANTS MaxObjs,      \* bound: process structures ever allocated
          MaxPid,       \* bound: the last pid given out
          MaxProcs,     \* capacity of the table, and the last pid that is scanned
          ProcMaxPIDS,  \* size of __ProcPidCache__: it holds pids below this
          NumCpus,
          Statuses,     \* arguments of exit
          Sigs,         \* signals sent with kill or /proc/<pid>/signal
          Targets,      \* arguments of wait4: a pid, or AnyChild
          Controllers,  \* processes that use kill, sigaction, sigprocmask and /proc
          Controlled,   \* pids they send signals and write to
          Handled,      \* signals they install a handler for
          Masks         \* arguments of sigprocmask and sigaction

ASSUME ProcessAssumption ==
    /\ MaxObjs \in Nat \ {0} /\ MaxPid \in Nat \ {0} /\ MaxProcs \in Nat \ {0}
    /\ ProcMaxPIDS \in Nat \ {0} /\ NumCpus \in Nat \ {0}
    /\ Controllers \subseteq 1 .. MaxObjs
    /\ Statuses \subseteq 0 .. 127

VARIABLES obj,      \* the process structures
          made,     \* how many have been allocated
          items,    \* PosixProcs.Items[0 .. Count - 1]
          nextPid,  \* __NextPid__
          cache,    \* __ProcPidCache__: the process of a pid's directory, or 0
          lock,     \* ThreadListLock is held for ever
          stuck,    \* CPUs spinning for ever
          raced,    \* two allocations of a pid overlapped
          orphaned  \* a structure was freed whose thread can still run

vars == <<obj, made, items, nextPid, cache, lock, stuck, raced, orphaned>>

Objs == 1 .. MaxObjs
Cached == 1 .. (ProcMaxPIDS - 1)
User == [op |-> "user"]
AnyChild == 0
Fatal == <<"TERM", "KILL", "INT">>
Number == [TERM |-> 15, KILL |-> 9, INT |-> 2]

\* __AllocProc__ and the fields PosixProcCreate sets; "died" remembers every
\* status the process was given by PosixExit.
NewProc(pid) ==
    [st |-> "live", pid |-> pid, ppid |-> 0, zombie |-> FALSE, code |-> 0,
     pend |-> {}, mask |-> {}, hand |-> {}, th |-> "none", call |-> User, died |-> {}]
NoProc == [NewProc(0) EXCEPT !.st = "none"]

\* PosixFind: the first structure of the table with this pid, or 0.
PosixFind(pid) ==
    LET at == {i \in DOMAIN items : obj[items[i]].pid = pid}
    IN  IF at = {} THEN 0 ELSE items[CHOOSE i \in at : \A j \in at : i <= j]

\* A thread that can execute: it is ready and a CPU is free.
Runs(o) == stuck < NumCpus /\ obj[o].st # "none" /\ obj[o].th = "ready"
In(o, op) == Runs(o) /\ obj[o].call.op = op

\* __GetCurrentProc__ finds the caller by its pid, so a thread whose process
\* is reaped gets -1 from every call. The calls of the second of two
\* processes with one pid, which would act on the first, are left out.
InUser(o) == In(o, "user") /\ PosixFind(obj[o].pid) = o

ProcInit ==
    /\ obj = [o \in Objs |-> IF o = 1 THEN [NewProc(1) EXCEPT !.th = "ready"] ELSE NoProc]
    /\ made = 1
    /\ items = <<1>>
    /\ nextPid = 2
    /\ cache = [pid \in Cached |-> IF pid = 1 THEN 1 ELSE 0]
    /\ lock = FALSE
    /\ stuck = 0
    /\ raced = FALSE
    /\ orphaned = FALSE

-----------------------------------------------------------------------------

\* __NextPid__++ is a read and a write without a lock: this is the read.
PosixFork(o) ==
    /\ InUser(o) /\ made < MaxObjs /\ nextPid <= MaxPid
    /\ obj' = [obj EXCEPT ![o].call = [op |-> "create", pid |-> nextPid]]
    /\ UNCHANGED <<made, items, nextPid, cache, lock, stuck, raced, orphaned>>

\* Pids that start over at the end of the table, whether or not they are in use.
FreshPid_Wrap(read) == IF read >= MaxProcs THEN 1 ELSE read

\* The pid a process gets when its turn comes: the one that was read.
FreshPid(read) == read

\* ProcFsNotifyProcAdded: a pid outside the cache, or with a directory, is skipped.
NotifyAdded(pid, o) ==
    IF pid \in Cached /\ cache[pid] = 0 THEN [cache EXCEPT ![pid] = o] ELSE cache

\* The write of __NextPid__, then the rest of PosixProcCreate. A full table, or
\* no memory for the descriptors or the space, frees the structure and the
\* fork fails; the number is used up. Nobody but o knows the child before
\* it is in the table, and before it has a parent only a thread that outlived
\* its own structure could reap it, so its insertion and its directory are one
\* step.
PosixProcCreate(o) ==
    LET pid == FreshPid(obj[o].call.pid)
        new == made + 1
    IN  /\ In(o, "create")
        /\ nextPid' = obj[o].call.pid + 1
        /\ raced' = (raced \/ nextPid # obj[o].call.pid)
        /\ \/ /\ Len(items) < MaxProcs /\ made < MaxObjs
              /\ obj' = [obj EXCEPT ![new] = NewProc(pid),
                                    ![o].call = [op |-> "copy", child |-> new]]
              /\ made' = new
              /\ items' = Append(items, new)
              /\ cache' = NotifyAdded(pid, new)
           \/ /\ obj' = [obj EXCEPT ![o].call = User]
              /\ UNCHANGED <<made, items, cache>>
        /\ UNCHANGED <<lock, stuck, orphaned>>

\* PosixExit up to the lock: what the caller o does to the process v.
Exiting(f, o, v, status, orphan) ==
    [f EXCEPT ![v].code = status, ![v].zombie = TRUE, ![v].died = @ \cup {status},
              ![o].call = [op |-> "exit", of |-> v, orphan |-> orphan]]

\* The rest of PosixFork. The child becomes its parent's here; signals it
\* was sent before are dropped. __ForkCopyFds__ or CreateThread may fail, or
\* the memory for a page, when the child's thread is on ThreadList already.
ForkFinish(o) ==
    LET n == obj[o].call.child
        inherited == [obj EXCEPT ![n].ppid = obj[o].pid, ![n].mask = obj[o].mask, ![n].pend = {}]
    IN  /\ In(o, "copy")
        /\ \/ obj' = [inherited EXCEPT ![n].th = "ready", ![o].call = User]
           \/ \E orphan \in BOOLEAN : obj' = Exiting(inherited, o, n, -1, orphan)
        /\ UNCHANGED <<made, items, nextPid, cache, lock, stuck, raced, orphaned>>

PosixExit(o) ==
    /\ InUser(o)
    /\ \E status \in Statuses : obj' = Exiting(obj, o, o, status, FALSE)
    /\ UNCHANGED <<made, items, nextPid, cache, lock, stuck, raced, orphaned>>

\* __WakeParent__: SIGCHLD becomes pending, nothing else.
WakeParent(f, v) ==
    LET p == PosixFind(f[v].ppid)
    IN  IF p = 0 THEN f ELSE [f EXCEPT ![p].pend = @ \cup {"CHLD"}]

\* PosixExit from the lock on. With a thread to destroy the CPU waits for a
\* lock it holds; with the lock held by such a CPU it waits as well.
ExitFinish(o) ==
    LET v == obj[o].call.of
        spins == lock \/ obj[v].th # "none" \/ obj[o].call.orphan
    IN  /\ In(o, "exit")
        /\ \/ /\ spins
              /\ obj' = IF lock \/ obj[v].th = "none" THEN [obj EXCEPT ![o].call = [op |-> "spin"]]
                        ELSE [obj EXCEPT ![o].call = [op |-> "spin"], ![v].th = "dead"]
              /\ lock' = TRUE
              /\ stuck' = stuck + 1
           \/ /\ ~spins
              /\ obj' = WakeParent([obj EXCEPT ![o].call = User], v)
              /\ UNCHANGED <<lock, stuck>>
        /\ UNCHANGED <<made, items, nextPid, cache, raced, orphaned>>

\* A scan that takes a child whether or not it has exited.
Waitable_Any(o, target) ==
    {c \in {PosixFind(pid) : pid \in 1 .. MaxProcs} \ {0} :
        obj[c].ppid = obj[o].pid /\ target \in {AnyChild, obj[c].pid}}

\* PosixWait4's scan: the children with the pids it looks at.
Waitable(o, target) ==
    {c \in {PosixFind(pid) : pid \in 1 .. MaxProcs} \ {0} :
        obj[c].ppid = obj[o].pid /\ target \in {AnyChild, obj[c].pid} /\ obj[c].zombie}

\* A directory that outlives its process.
NotifyRemoved_Kept(pid) == cache

\* ProcFsNotifyProcRemoved drops the directory of the pid, whoever's it is.
NotifyRemoved(pid) == IF pid \in Cached THEN [cache EXCEPT ![pid] = 0] ELSE cache

\* One turn of PosixWait4's loop, entered from user mode or after the block.
\* The status is taken here; nobody ever makes a blocked parent ready again
\* on behalf of a child.
PosixWait4(o, target, nohang) ==
    LET zombies == Waitable(o, target)
        c == CHOOSE z \in zombies : \A y \in zombies : obj[z].pid <= obj[y].pid
    IN  /\ \/ InUser(o)
           \/ In(o, "wait") /\ obj[o].call.target = target /\ ~nohang
        /\ \/ /\ zombies # {}
              /\ obj' = [obj EXCEPT ![o].call = [op |-> "reap", child |-> c, code |-> obj[c].code]]
              /\ cache' = NotifyRemoved(obj[c].pid)
           \/ /\ zombies = {} /\ nohang
              /\ UNCHANGED <<obj, cache>>
           \/ /\ zombies = {} /\ ~nohang
              /\ obj' = [obj EXCEPT ![o].th = "blocked", ![o].call = [op |-> "wait", target |-> target]]
              /\ UNCHANGED cache
        /\ UNCHANGED <<made, items, nextPid, lock, stuck, raced, orphaned>>

\* The last item is dropped without taking the free place.
TableRemove_DropsLast(c) ==
    IF c \in {items[i] : i \in DOMAIN items} THEN Front(items) ELSE items

\* __TableRemove__: the last item takes the place of the one removed.
TableRemove(c) ==
    LET at == {i \in DOMAIN items : items[i] = c}
    IN  IF at = {} THEN items
        ELSE Front([i \in DOMAIN items |-> IF i \in at THEN Last(items) ELSE items[i]])

\* The end of PosixWait4: __TableRemove__ and __FreeProc__. The thread of the
\* child may still be on its way through PosixExit.
Reap(o) ==
    LET c == obj[o].call.child
    IN  /\ In(o, "reap")
        /\ items' = TableRemove(c)
        /\ obj' = [obj EXCEPT ![c] = [NoProc EXCEPT !.st = "freed", !.th = obj[c].th,
                                                   !.call = obj[c].call],
                              ![o].call = User]
        /\ orphaned' = (orphaned \/ obj[c].th = "ready")
        /\ UNCHANGED <<made, nextPid, cache, lock, stuck, raced>>

-----------------------------------------------------------------------------

\* PosixKill, from __Handle__Kill or ProcFsWriteSignal.
PosixKill(o, pid, sig) ==
    /\ InUser(o) /\ PosixFind(pid) # 0
    /\ obj' = [obj EXCEPT ![PosixFind(pid)].pend = @ \cup {sig}]
    /\ UNCHANGED <<made, items, nextPid, cache, lock, stuck, raced, orphaned>>

PosixSigaction(o, sig, mask) ==
    /\ InUser(o)
    /\ obj' = [obj EXCEPT ![o].hand = @ \cup {sig}, ![o].mask = mask]
    /\ UNCHANGED <<made, items, nextPid, cache, lock, stuck, raced, orphaned>>

PosixSigprocmask(o, mask) ==
    /\ InUser(o)
    /\ \/ obj' = [obj EXCEPT ![o].mask = @ \cup mask]
       \/ obj' = [obj EXCEPT ![o].mask = @ \ mask]
       \/ obj' = [obj EXCEPT ![o].mask = mask]
    /\ UNCHANGED <<made, items, nextPid, cache, lock, stuck, raced, orphaned>>

Blocked(f, v) == IF f[v].th = "none" THEN f ELSE [f EXCEPT ![v].th = "blocked"]
Woken(f, v) == IF f[v].th = "none" THEN f ELSE [f EXCEPT ![v].th = "ready"]

\* __DeliverPendingSignals__ for one process of PosixDeliverSignals' scan:
\* CONT, then STOP, which ends the delivery, then handlers, then the default
\* for TERM, KILL and INT, masked or not, and everything else is dropped.
DeliverPendingSignals(v) ==
    LET open == obj[v].pend \ obj[v].mask
        cont == IF "CONT" \in open
                THEN Woken([obj EXCEPT ![v].pend = @ \ {"CONT"}], v) ELSE obj
        left == (obj[v].pend \ ({"CONT"} \cap open)) \ (IF obj[v].th = "none" THEN {} ELSE open \cap obj[v].hand)
        kills == SelectSeq(Fatal, LAMBDA s : s \in left)
        dies == [cont EXCEPT ![v].pend = left \ {kills[1]},
                             ![v].code = 128 + Number[kills[1]], ![v].zombie = TRUE,
                             ![v].died = @ \cup {128 + Number[kills[1]]}]
        spins == lock \/ obj[v].th # "none"
    IN  /\ stuck < NumCpus /\ v # 0 /\ open # {}
        /\ \/ /\ "STOP" \in open
              /\ obj' = Blocked([cont EXCEPT ![v].pend = @ \ {"STOP"}], v)
              /\ UNCHANGED <<lock, stuck>>
           \/ /\ "STOP" \notin open /\ kills = <<>>
              /\ obj' = [cont EXCEPT ![v].pend = {}]
              /\ UNCHANGED <<lock, stuck>>
           \/ /\ "STOP" \notin open /\ kills # <<>> /\ spins
              /\ obj' = IF lock \/ obj[v].th = "none" THEN dies ELSE [dies EXCEPT ![v].th = "dead"]
              /\ lock' = TRUE
              /\ stuck' = stuck + 1
           \/ /\ "STOP" \notin open /\ kills # <<>> /\ ~spins
              /\ obj' = WakeParent(dies, v)
              /\ UNCHANGED <<lock, stuck>>
        /\ UNCHANGED <<made, items, nextPid, cache, raced, orphaned>>

\* ProcLookup of /proc/<pid>: the cached directory, else the table.
ProcLookup(pid) ==
    IF pid \in Cached /\ cache[pid] # 0 THEN cache[pid] ELSE PosixFind(pid)

\* PosixProcExecve, called by the process itself or by a write to the "exec"
\* file of another. It takes a zombie back to life; a thread that is blocked
\* in the kernel starts over at the entry point, and the caller's call ends.
PosixProcExecve(o, pid) ==
    LET t == ProcLookup(pid)
    IN  /\ InUser(o) /\ t # 0 /\ obj[t].th # "dead"
        /\ obj' = [obj EXCEPT ![t].th = "ready", ![t].zombie = FALSE, ![t].code = 0,
                              ![t].call = IF obj[t].th = "blocked" THEN User ELSE @]
        /\ UNCHANGED <<made, items, nextPid, cache, lock, stuck, raced, orphaned>>

\* ProcFsWriteState: "stop" and "cont" set the state of the thread.
ProcFsWriteState(o, pid) ==
    LET t == ProcLookup(pid)
    IN  /\ InUser(o) /\ t # 0
        /\ obj' \in {Blocked(obj, t), Woken(obj, t)}
        /\ UNCHANGED <<made, items, nextPid, cache, lock, stuck, raced, orphaned>>

ProcNext ==
    \/ \E o \in Objs :
          \/ PosixFork(o) \/ PosixProcCreate(o) \/ ForkFinish(o)
          \/ PosixExit(o) \/ ExitFinish(o) \/ Reap(o)
          \/ \E target \in Targets, nohang \in BOOLEAN : PosixWait4(o, target, nohang)
    \/ \E o \in Controllers :
          \/ \E pid \in Controlled, sig \in Sigs : PosixKill(o, pid, sig)
          \/ \E sig \in Handled, mask \in Masks : PosixSigaction(o, sig, mask)
          \/ \E mask \in Masks : PosixSigprocmask(o, mask)
          \/ \E pid \in Controlled : PosixProcExecve(o, pid) \/ ProcFsWriteState(o, pid)
    \/ \E pid \in 1 .. MaxProcs : DeliverPendingSignals(PosixFind(pid))

ProcSpec == ProcInit /\ [][ProcNext]_vars

-----------------------------------------------------------------------------

InTable == {items[i] : i \in DOMAIN items}

\* The table lists every process that is not freed, once (__TableInsert__,
\* __TableRemove__): no freed structure can be found by its pid, and no
\* living one is lost, in whatever order children are reaped.
TableIsExact ==
    /\ InTable = {o \in Objs : obj[o].st = "live"}
    /\ Cardinality(InTable) = Len(items)
    /\ Len(items) <= MaxProcs

\* A directory of /proc always belongs to a process of the table with that
\* pid (the order of ProcFsNotifyProcRemoved, __TableRemove__ and
\* __FreeProc__ in PosixWait4): a lookup never answers a freed structure.
DirectoryIsLive ==
    \A pid \in Cached : cache[pid] # 0 =>
        cache[pid] \in InTable /\ obj[cache[pid]].pid = pid

\* Two processes of the table have the same pid only if two allocations of
\* a pid overlapped (__FindFreePid__ is not locked).
PidsUniqueUnlessRaced ==
    ~raced => \A o, q \in InTable : obj[o].pid = obj[q].pid => o = q

\* wait4 answers a child of the caller with a status that child really
\* exited with, and nobody else takes the child before it is removed,
\* whatever signals, second exits and writes to /proc come between the exit,
\* the scan and the removal (PosixExit, PosixWait4). Pids must not have been
\* given out twice, and no thread may have gone on in the kernel after its
\* structure was freed: either lets two processes reap one child.
ReapIsOfOwnExit ==
    ~raced /\ ~orphaned => \A o \in InTable : obj[o].call.op = "reap" =>
        LET c == obj[o].call.child
        IN  /\ c \in InTable
            /\ obj[c].ppid = obj[o].pid
            /\ obj[o].call.code \in obj[c].died
=============================================================================
