------------------------------ MODULE FdTable ------------------------------
(***************************************************************************)
(* The descriptor table of a process and its pipes, Kernel/Proc/ProcFD.c,  *)
(* over the open files of Vfs.                                             *)
(*                                                                         *)
(* Every call runs under the table's spin lock and, for a file, takes      *)
(* VfsLock inside it; it is one step here.  File and pipe structures come  *)
(* from the heap and a freed one may be the next one allocated, so their   *)
(* names are reused.  What a call does with a structure that has been      *)
(* freed and not allocated again is undefined and is not explored.         *)
(***************************************************************************)
EXTENDS Vfs

CONSTANTS
  FdCap,      \* PosixFdTable.Cap
  PipeIds,    \* PosixPipeT structures
  PipeCap,    \* PosixPipeT.Cap
  Chunks,     \* byte sequences that are written to pipes
  ReadLens,   \* lengths that are read
  MaxRefs,    \* bound on PosixFd.Refcnt
  MaxOpens,   \* bound on the openings of a behaviour
  NoEntry,    \* an entry with Fd = -1
  NoPipe

EntryType == [obj : FileIds \cup PipeIds, kind : {"file", "pipe"}, refcnt : Nat, birth : Nat]
PipeType == [buf : [0..(PipeCap - 1) -> Byte], head : Nat, tail : Nat, len : Nat]

ASSUME FdAssumption ==
  /\ FdCap \in Nat /\ PipeCap \in Nat \ {0} /\ MaxRefs \in Nat /\ MaxOpens \in Nat
  /\ ReadLens \subseteq 0..PipeCap
  /\ PipeIds \cap FileIds = {} /\ PipeIds # {}
  /\ Chunks \subseteq Seq(Byte)
  /\ NoEntry \notin EntryType /\ NoPipe \notin PipeType \cup Seq(Byte)

VARIABLES
  fds,       \* PosixFdTable.Entries
  count,     \* PosixFdTable.Count
  stuck,     \* PosixDup2 waits for the table's lock that it holds itself
  pipes,     \* PosixPipeT: the ring buffer
  got,       \* history: the bytes of the last read from ThePipe
  opens,     \* history: number of openings
  birth,     \* history: the opening an object was allocated by
  shared     \* history: structures that two descriptors pointed to

fdVars == <<fds, count, stuck, pipes, got, opens, birth, shared>>
allVars == <<vfsVars, fdVars>>

Fds == 0..(FdCap - 1)

\* Any one pipe, the one whose data is followed.
ThePipe == CHOOSE p \in PipeIds : TRUE

----------------------------------------------------------------------------
(* The table *)

\* __FindFreeFd__ takes the least of these.
FreeFds(start) == {fd \in Fds : fd >= start /\ fds[fd] = NoEntry}

Entry(obj, kind, b) == [obj |-> obj, kind |-> kind, refcnt |-> 1, birth |-> b]

\* PosixOpen calls VfsOpen only when the table has room.
PosixOpen(c, p) ==
  /\ ~stuck /\ FreeFds(0) # {} /\ opens < MaxOpens
  /\ VfsOpen(c, p)
  /\ \/ UNCHANGED <<files, fds, count, opens, birth>>
     \/ /\ \E f \in FileIds :
             /\ files[f] = NoFile /\ files'[f] # NoFile
             /\ fds' = [fds EXCEPT ![Min(FreeFds(0))] = Entry(f, "file", opens + 1)]
             /\ birth' = [birth EXCEPT ![f] = opens + 1]
        /\ count' = count + 1
        /\ opens' = opens + 1
  /\ UNCHANGED <<stuck, pipes, got, shared>>

\* Mutant: a pipe counts as one descriptor.
PipeCount_One == 1

PipeCount == 2

PosixPipe(c) ==
  LET rd == Min(FreeFds(0))
      wr == Min(FreeFds(rd + 1))
  IN /\ ~stuck /\ opens < MaxOpens
     /\ FreeFds(0) # {} /\ FreeFds(rd + 1) # {}
     /\ \E p \in PipeIds :
          /\ pipes[p] = NoPipe
          /\ shared' = shared \cup {p}
          /\ pipes' = [pipes EXCEPT ![p] = [buf |-> [i \in 0..(PipeCap - 1) |-> 0],
                                            head |-> 0, tail |-> 0, len |-> 0]]
          /\ fds' = [fds EXCEPT ![rd] = Entry(p, "pipe", opens + 1),
                                ![wr] = Entry(p, "pipe", opens + 1)]
          /\ birth' = [birth EXCEPT ![p] = opens + 1]
     /\ count' = count + PipeCount
     /\ opens' = opens + 1
     /\ UNCHANGED <<vfsVars, stuck, got>>

\* Mutant: the entry is kept when its object is freed.
DropEntry_Kept(fd) == UNCHANGED <<fds, count>>

DropEntry(fd) == fds' = [fds EXCEPT ![fd] = NoEntry] /\ count' = count - 1

\* The object goes with the entry's last reference, however many other
\* entries point to it: the counts are kept per entry.
PosixClose(c, fd) ==
  LET e == fds[fd]
  IN /\ ~stuck /\ e # NoEntry
     /\ \/ /\ e.refcnt > 1
           /\ fds' = [fds EXCEPT ![fd].refcnt = @ - 1]
           /\ UNCHANGED <<vfsVars, count, pipes>>
        \/ /\ e.refcnt <= 1
           /\ \/ e.kind = "file" /\ VfsClose(c, e.obj) /\ UNCHANGED pipes
              \/ /\ e.kind = "pipe" /\ pipes[e.obj] # NoPipe
                 /\ pipes' = [pipes EXCEPT ![e.obj] = NoPipe]
                 /\ UNCHANGED vfsVars
           /\ DropEntry(fd)
     /\ UNCHANGED <<stuck, got, opens, birth, shared>>

\* The copy takes the original's count plus one; the original keeps its own.
Copy(fd, new) ==
  /\ fds[fd].refcnt < MaxRefs
  /\ fds' = [fds EXCEPT ![new] = [fds[fd] EXCEPT !.refcnt = @ + 1]]
  /\ count' = count + 1
  /\ shared' = shared \cup {fds[fd].obj}
  /\ UNCHANGED <<vfsVars, stuck, pipes, got, opens, birth>>

\* PosixDup, and PosixFcntl with command 1.
PosixDup(fd) ==
  /\ ~stuck /\ fds[fd] # NoEntry /\ FreeFds(0) # {}
  /\ Copy(fd, Min(FreeFds(0)))

\* Onto an open descriptor it calls PosixClose, which takes the table's lock
\* again: the CPU spins for ever and every later call of the process waits.
PosixDup2(fd, new) ==
  /\ ~stuck /\ fds[fd] # NoEntry /\ fd # new
  /\ \/ fds[new] = NoEntry /\ Copy(fd, new)
     \/ /\ fds[new] # NoEntry
        /\ stuck' = TRUE
        /\ UNCHANGED <<vfsVars, fds, count, pipes, got, opens, birth, shared>>

----------------------------------------------------------------------------
(* Data *)

\* Mutant: the room that is left is one too many.
Room_OneMore(r) == PipeCap - r.len + 1

Room(r) == PipeCap - r.len

\* __PipeWrite__: as many bytes as there is room for.
PipeWrite(r, d) ==
  LET k == Min({Len(d), Room(r)})
  IN [r EXCEPT !.buf = [i \in DOMAIN @ |->
                          IF \E j \in 1..k : (r.tail + j - 1) % PipeCap = i
                          THEN d[CHOOSE j \in 1..k : (r.tail + j - 1) % PipeCap = i] ELSE @[i]],
               !.tail = (@ + k) % PipeCap,
               !.len = @ + k]

\* __PipeRead__: as many bytes as there are.
PipeRead(r, n) ==
  LET k == Min({n, r.len})
  IN [bytes |-> [j \in 1..k |-> r.buf[(r.head + j - 1) % PipeCap]],
      ring  |-> [r EXCEPT !.head = (@ + k) % PipeCap, !.len = @ - k]]

PosixRead(c, fd, n) ==
  LET e == fds[fd]
  IN /\ ~stuck /\ e # NoEntry
     /\ \/ e.kind = "file" /\ VfsRead(c, e.obj, n) /\ UNCHANGED <<pipes, got>>
        \/ /\ e.kind = "pipe" /\ pipes[e.obj] # NoPipe
           /\ got' = IF e.obj = ThePipe THEN PipeRead(pipes[e.obj], n).bytes ELSE got
           /\ pipes' = [pipes EXCEPT ![e.obj] = PipeRead(@, n).ring]
           /\ UNCHANGED vfsVars
     /\ UNCHANGED <<fds, count, stuck, opens, birth, shared>>

PosixWrite(c, fd, d) ==
  LET e == fds[fd]
  IN /\ ~stuck /\ e # NoEntry
     /\ \/ e.kind = "file" /\ VfsWrite(c, e.obj, Len(d)) /\ UNCHANGED pipes
        \/ /\ e.kind = "pipe" /\ pipes[e.obj] # NoPipe
           /\ pipes' = [pipes EXCEPT ![e.obj] = PipeWrite(@, d)]
           /\ UNCHANGED vfsVars
     /\ UNCHANGED <<fds, count, stuck, got, opens, birth, shared>>

PosixLseek(c, fd, off, whence) ==
  /\ ~stuck /\ fds[fd] # NoEntry /\ fds[fd].kind = "file"
  /\ VfsLseek(c, fds[fd].obj, off, whence)
  /\ UNCHANGED fdVars

----------------------------------------------------------------------------

FdInit ==
  /\ VfsBooted
  /\ fds = [fd \in Fds |-> NoEntry]
  /\ count = 0
  /\ stuck = FALSE
  /\ pipes = [p \in PipeIds |-> NoPipe]
  /\ got = << >>
  /\ opens = 0
  /\ birth = [o \in FileIds \cup PipeIds |-> 0]
  /\ shared = {}

FdNext ==
  \E c \in Cpus :
    \/ \E p \in Paths : PosixOpen(c, p)
    \/ PosixPipe(c)
    \/ \E fd \in Fds : PosixClose(c, fd) \/ PosixDup(fd)
    \/ \E fd, new \in Fds : PosixDup2(fd, new)
    \/ \E fd \in Fds, n \in ReadLens : PosixRead(c, fd, n)
    \/ \E fd \in Fds, d \in Chunks : PosixWrite(c, fd, d)
    \/ \E fd \in Fds, off \in {0, 1}, w \in {"set", "cur"} : PosixLseek(c, fd, off, w)

FdSpec == FdInit /\ [][FdNext]_allVars

----------------------------------------------------------------------------
(* Properties *)

\* PosixFdTable.Count is the number of entries in use, whatever is opened,
\* piped, copied and closed, and however often a copy must be closed.
CountIsOpen == count = Cardinality({fd \in Fds : fds[fd] # NoEntry})

Alive(e) ==
  /\ IF e.kind = "file" THEN files[e.obj] # NoFile ELSE pipes[e.obj] # NoPipe
  /\ birth[e.obj] = e.birth

\* A descriptor refers to the object it was opened on, not to a freed one and
\* not to one that a later opening was given, as long as the structure never
\* had two descriptors.  PosixDup and PosixDup2 taint it for good: closing
\* one descriptor frees it for all, and a stale descriptor then reads, seeks
\* and closes the file of whoever is given the structure next.
OwnObjectUnlessShared ==
  \A fd \in Fds : fds[fd] # NoEntry => (fds[fd].obj \in shared \/ Alive(fds[fd]))

RingBytes(r) == [i \in 1..r.len |-> r.buf[(r.head + i - 1) % PipeCap]]

Pipe == INSTANCE AbstractPipe WITH
  Cap <- PipeCap, Closed <- NoPipe,
  queue <- IF pipes[ThePipe] = NoPipe THEN NoPipe ELSE RingBytes(pipes[ThePipe])

\* While it is open a pipe is a bounded queue: the ring buffer with its
\* wrapping head and tail implements the abstract pipe, whoever reads and
\* writes and through whichever descriptors.
ImplementsPipe == Pipe!Spec

=============================================================================
