-------------------------------- MODULE Vfs --------------------------------
(***************************************************************************)
(* The virtual file system of Kernel/VFS/VFS.c over the RAM file system:   *)
(* registered file systems, the mount table, the global root, path         *)
(* resolution, name-space calls, open files, and VfsLock.                  *)
(*                                                                         *)
(* VfsLock is the recursive mutex of Mutex.tla, whose owner is a CPU: a    *)
(* call runs when no other CPU holds it.  What it does under the lock is   *)
(* one step, but for the creation of a node, which overlaps with the       *)
(* creations that other CPUs do after their release.  Many calls return    *)
(* without releasing the lock: held[c] is the count CPU c is left with.    *)
(*                                                                         *)
(* Once the global root's vnode has been freed what a call does is         *)
(* undefined and is not explored; a released superblock that is still in   *)
(* the mount table has Root = 0, as Release leaves it.                     *)
(***************************************************************************)
EXTENDS RamFs, FiniteSets

CONSTANTS
  Cpus,
  Paths,        \* the paths that callers pass
  Dests,        \* those of them they pass as the second of two
  FsNames,      \* names of file system types; "ramfs" is one
  PseudoSbs,    \* superblocks of RegisterPseudoFs (devfs, procfs)
  RamSbs,       \* superblocks that RamFsMountImpl can allocate
  FileIds,      \* File structures
  MaxFsTypes,   \* __MaxFsTypes__
  MaxMounts,    \* __MaxMounts__
  MaxPaths,     \* values for __MaxPath__
  MaxHeld,      \* bound on the count of VfsLock
  MaxOffset,    \* bound on the offset of an open directory
  Mixes,        \* sets of groups of calls that callers may make together
  NoVnode,
  NoFile

VnodeType == [sb : PseudoSbs \cup RamSbs, node : Nat]
FileType == [vnode : VnodeType, offset : Int, pos : Int]

ASSUME VfsAssumption ==
  /\ "ramfs" \in FsNames
  /\ PseudoSbs \cap RamSbs = {} /\ RamSbs # {}
  /\ Paths \subseteq Seq(Name) /\ Dests \subseteq Paths
  /\ NoVnode \notin VnodeType /\ NoFile \notin FileType
  /\ MaxFsTypes \in Nat \ {0} /\ MaxMounts \in Nat \ {0} /\ MaxHeld \in Nat /\ MaxOffset \in Nat
  /\ MaxPaths \subseteq Nat

VARIABLES
  fsReg,     \* __FsReg__
  mounts,    \* __Mounts__: superblock and path
  root,      \* __RootNode__
  live,      \* superblocks that have not been released
  spare,     \* superblocks that have not been allocated yet
  maxPath,   \* __MaxPath__
  files,     \* open File structures
  held,      \* VfsLock.RecursionCount, per owner
  pending,   \* the creation of a node that a call has got to
  mix,       \* the groups of calls of this behaviour
  aliased    \* history: superblocks reachable by more than their own mount

mountVars == <<fsReg, mounts, root, live, spare, maxPath, mix, aliased>>
vfsVars == <<nodes, mountVars, files, held, pending>>

----------------------------------------------------------------------------
(* Paths *)

StrLen(p) ==
  LET upTo[k \in 0..Len(p)] == IF k = 0 THEN 0 ELSE upTo[k - 1] + 1 + Len(p[k])
  IN Max({1, upTo[Len(p)]})

\* strncmp(path, mp, strlen(mp)) == 0: a plain string prefix, which may end
\* inside a component ("/m" is one of "/mx").
StringPrefix(mp, p) ==
  \/ mp = << >>
  \/ /\ Len(mp) <= Len(p)
     /\ Front(mp) = SubSeq(p, 1, Len(mp) - 1)
     /\ IsPrefix(Last(mp), p[Len(mp)])

\* __find_mount__: the first of the longest matching mount paths; 0 for none.
\* Of two prefixes of one path the longer one has the other as its prefix.
FindMount(p) ==
  LET match == {i \in 1..Len(mounts) : StringPrefix(mounts[i].path, p)}
      best  == {i \in match : \A j \in match : StringPrefix(mounts[j].path, mounts[i].path)}
  IN IF match = {} THEN 0 ELSE Min(best)

\* What follows a mount path in a path, leading separators skipped.
TailOf(mp, p) ==
  IF mp = << >> THEN p
  ELSE LET cut == SubSeq(p[Len(mp)], Len(Last(mp)) + 1, Len(p[Len(mp)]))
       IN (IF cut = << >> THEN << >> ELSE <<cut>>) \o SubSeq(p, Len(mp) + 1, Len(p))

Vnode(sb, n) == [sb |-> sb, node |-> n]

SbRoot(sb) == IF sb \in live THEN Vnode(sb, Root) ELSE NoVnode

\* __walk__.  Only the RAM file system has anything below its root here.
WalkFrom(v, p) ==
  IF v = NoVnode THEN NoVnode
  ELSE IF p = << >> THEN v
  ELSE LET n == IF v.sb \in RamSbs THEN Walk(nodes, v.node, p) ELSE NoNode
       IN IF n = NoNode THEN NoVnode ELSE Vnode(v.sb, n)

\* The mount whose tree a path is walked in, and the rest of the path.
Below(p) == LET m == FindMount(p) IN IF m = 0 THEN << >> ELSE TailOf(mounts[m].path, p)

\* VfsResolve: the vnode.
Resolve(p) ==
  IF root = NoVnode THEN NoVnode
  ELSE IF p = << >> THEN root
  ELSE LET m == FindMount(p)
       IN IF m = 0 THEN WalkFrom(root, p) ELSE WalkFrom(SbRoot(mounts[m].sb), Below(p))

\* VfsResolve releases VfsLock only on its last path, below a mount point.
ResolveLeak(p) == IF root # NoVnode /\ p # << >> /\ Below(p) # << >> THEN 0 ELSE 1

\* The directory a name-space call works in: the walk of all but the last
\* component from the global root, whatever is mounted on the way.
Base(p) == IF p = << >> \/ root = NoVnode THEN NoVnode ELSE WalkFrom(root, Front(p))

----------------------------------------------------------------------------
(* The lock *)

Idle == [stage |-> "idle"]

RootUsable == root # NoVnode => (root.node = Root => root.sb \in live)

\* What a call on CPU c does under VfsLock, which it has then acquired leak
\* times more often than released.
Call(c, leak) ==
  /\ RootUsable
  /\ pending[c] = Idle
  /\ \A d \in Cpus \ {c} : held[d] = 0
  /\ held[c] + leak <= MaxHeld
  /\ held' = [held EXCEPT ![c] = @ + leak]

Fails(failed) == IF failed THEN 1 ELSE 0

\* A call that changes nothing but VfsLock.
Reads(c, leak) == Call(c, leak) /\ UNCHANGED <<nodes, fsReg, mounts, root, live, spare, maxPath, files, pending, mix, aliased>>

----------------------------------------------------------------------------
(* File system types *)

VfsRegisterFs(c, name) ==
  LET fails == Len(fsReg) >= MaxFsTypes \/ name \in Range(fsReg)
  IN /\ Call(c, Fails(fails))
     /\ fsReg' = IF fails THEN fsReg ELSE Append(fsReg, name)
     /\ UNCHANGED <<nodes, mounts, root, live, spare, maxPath, files, pending, mix, aliased>>

\* Success returns without the release.
VfsUnregisterFs(c, name) ==
  /\ Call(c, Fails(name \in Range(fsReg)))
  /\ fsReg' = SelectSeq(fsReg, LAMBDA n : n # name)
  /\ UNCHANGED <<nodes, mounts, root, live, spare, maxPath, files, pending, mix, aliased>>

VfsListFs(c, badArgs) == Reads(c, Fails(badArgs))
VfsMountTableEnumerate(c, badArgs) == VfsListFs(c, badArgs)

----------------------------------------------------------------------------
(* The mount table *)

MountAt(sb, p) == Append(mounts, [sb |-> sb, path |-> p])

\* VfsMount of a RAM file system, the one type with a Mount operation here.
VfsMount(c, p, name) ==
  LET fails == \/ name \notin Range(fsReg) \/ StrLen(p) >= maxPath
               \/ Len(mounts) >= MaxMounts \/ spare = {}
  IN /\ name = "ramfs" \/ name \notin Range(fsReg)
     /\ Call(c, Fails(fails))
     /\ \/ fails /\ UNCHANGED <<mounts, root, live, spare>>
        \/ /\ ~fails
           /\ \E sb \in spare :
                /\ spare' = spare \ {sb}
                /\ live' = live \cup {sb}
                /\ mounts' = MountAt(sb, p)
                /\ root' = IF root = NoVnode /\ p = << >> THEN Vnode(sb, Root) ELSE root
     /\ UNCHANGED <<nodes, fsReg, maxPath, files, pending, mix, aliased>>

\* The first entry whose path is equal is the one that goes.
RemovedEntry(p) == Min({i \in 1..Len(mounts) : mounts[i].path = p})

\* Mutant: the entries move down from the start of the table.
WithoutEntry_First(i) == Tail(mounts)

WithoutEntry(i) == RemoveAt(mounts, i)

RootAfterUnmount(p) == IF p = << >> THEN NoVnode ELSE root

\* VfsUnmount: success returns without the release.
VfsUnmount(c, p) ==
  \/ /\ \A i \in 1..Len(mounts) : mounts[i].path # p
     /\ Reads(c, 0)
  \/ /\ \E i \in 1..Len(mounts) : mounts[i].path = p
     /\ Call(c, 1)
     /\ live' = live \ {mounts[RemovedEntry(p)].sb}
     /\ mounts' = WithoutEntry(RemovedEntry(p))
     /\ root' = RootAfterUnmount(p)
     /\ UNCHANGED <<nodes, fsReg, spare, maxPath, files, pending, mix, aliased>>

\* VfsShutdown releases what is mounted.
VfsShutdown(c) ==
  /\ Call(c, 0)
  /\ live' = live \ {mounts[i].sb : i \in 1..Len(mounts)}
  /\ mounts' = << >> /\ fsReg' = << >> /\ root' = NoVnode
  /\ UNCHANGED <<nodes, spare, maxPath, files, pending, mix, aliased>>

VfsSwitchRoot(c, p) ==
  LET v == Resolve(p)
  IN /\ Call(c, ResolveLeak(p) + Fails(v = NoVnode))
     /\ root' = IF v = NoVnode THEN root ELSE v
     /\ aliased' = IF v \in {NoVnode, root} THEN aliased ELSE aliased \cup {v.sb}
     /\ UNCHANGED <<nodes, fsReg, mounts, live, spare, maxPath, files, pending, mix>>

\* The source may be any path: the mount it lies in is the one that is bound.
VfsBindMount(c, src, dst) ==
  LET m == FindMount(src)
      fails == m = 0 \/ Len(mounts) >= MaxMounts \/ StrLen(dst) >= maxPath
  IN /\ Call(c, Fails(fails))
     /\ mounts' = IF fails THEN mounts ELSE MountAt(mounts[m].sb, dst)
     /\ aliased' = IF fails THEN aliased ELSE aliased \cup {mounts[m].sb}
     /\ UNCHANGED <<nodes, fsReg, root, live, spare, maxPath, files, pending, mix>>

VfsMoveMount(c, src, dst) ==
  LET m == FindMount(src)
      fails == m = 0 \/ StrLen(dst) >= maxPath
  IN /\ Call(c, Fails(fails))
     /\ mounts' = IF fails THEN mounts ELSE [mounts EXCEPT ![m].path = dst]
     /\ aliased' = IF fails \/ root = NoVnode \/ root.sb # mounts[m].sb THEN aliased
                   ELSE aliased \cup {root.sb}
     /\ UNCHANGED <<nodes, fsReg, root, live, spare, maxPath, files, pending, mix>>

VfsRemount(c, p) == Reads(c, Fails(FindMount(p) = 0))

\* A pseudo file system is registered once, by the component that owns it.
VfsRegisterPseudoFs(c, p, sb) ==
  LET fails == Len(mounts) >= MaxMounts
  IN /\ sb \in live /\ \A i \in 1..Len(mounts) : mounts[i].sb # sb
     /\ Call(c, Fails(fails))
     /\ mounts' = IF fails THEN mounts ELSE MountAt(sb, p)
     /\ UNCHANGED <<nodes, fsReg, root, live, spare, maxPath, files, pending, mix, aliased>>

\* VfsMountTableFind returns without the release when it finds the path.
VfsMountTableFind(c, p) == Reads(c, Fails(\E i \in 1..Len(mounts) : mounts[i].path = p))

----------------------------------------------------------------------------
(* Calls by path that read *)

\* The release comes before the operation and only when the path was resolved.
VfsStats(c, p) == Reads(c, ResolveLeak(p) + Fails(Resolve(p) = NoVnode))
VfsReaddir(c, p) == VfsStats(c, p)
VfsReadlink(c, p) == VfsStats(c, p)

\* VfsChmod, VfsChown, VfsTruncate: the RAM file system refuses them.
VfsTruncate(c, p) == VfsStats(c, p)

\* The release is on every path; VfsExists stands for VfsIsDir, VfsIsFile and
\* VfsIsSymlink, too.
VfsAccess(c, p) == Reads(c, ResolveLeak(p))
VfsExists(c, p) == VfsAccess(c, p)

\* Setters and getters: a bad argument leaves the lock taken.
VfsSetMaxPath(c, len) ==
  /\ Call(c, Fails(len < 1))
  /\ maxPath' = IF len < 1 THEN maxPath ELSE len
  /\ UNCHANGED <<nodes, fsReg, mounts, root, live, spare, files, pending, mix, aliased>>

----------------------------------------------------------------------------
(* Calls that change names.  The walk is done under VfsLock, the file     *)
(* system's operation of Create and Mkdir after the release, that of       *)
(* VfsMkpath before it: two of them on two CPUs may overlap.               *)

\* RamVfsCreate and RamVfsMkdir attach the directory's own name joined with
\* the new name, and only the root's name starts with a slash: AttachPath
\* refuses every other directory.
Accepts(b) == b # NoVnode /\ b.sb \in RamSbs /\ b.node = Root

\* unlock: the call releases VfsLock when the node is found afterwards.
Creation(name, type, unlock) ==
  [stage |-> "attach", dir |-> Root, name |-> name, type |-> type, unlock |-> unlock]

StartCreate(c, p, type) ==
  pending' = IF Accepts(Base(p)) THEN [pending EXCEPT ![c] = Creation(Last(p), type, FALSE)]
             ELSE pending

VfsCreate(c, p) ==
  /\ Call(c, Fails(Base(p) = NoVnode))
  /\ StartCreate(c, p, "file")
  /\ UNCHANGED <<nodes, mountVars, files>>

\* VfsMkdir is the one call that releases VfsLock on every path.
VfsMkdir(c, p) ==
  /\ Call(c, 0)
  /\ StartCreate(c, p, "dir")
  /\ UNCHANGED <<nodes, mountVars, files>>

\* RamFSAttachPath looks for the leaf ...
AttachFind(c) ==
  LET q == pending[c]
  IN /\ q.stage = "attach"
     /\ pending' = [pending EXCEPT ![c] =
          [stage |-> "add", dir |-> q.dir, name |-> q.name, type |-> q.type,
           unlock |-> q.unlock, stale |-> FALSE,
           leaf |-> Child(nodes, q.dir, q.name, {"dir", "file"}),
           slot |-> nodes[q.dir].count]]
     /\ UNCHANGED <<nodes, mountVars, files, held>>

\* ... and creates it if it was not there, or empties the file that was.  The
\* count it adds the node at may be the one loaded before another call's: what
\* that call stored there is overwritten, or no longer counted.
AttachFinish(c) ==
  LET q == pending[c]
      new == Len(nodes) + 1
  IN /\ q.stage = "add"
     /\ \/ /\ q.leaf # NoNode
           /\ nodes' = IF q.type = "file" THEN [nodes EXCEPT ![q.leaf].data = << >>] ELSE nodes
           /\ pending' = [pending EXCEPT ![c] = Idle]
        \/ /\ q.leaf = NoNode /\ new > MaxNodes
           /\ pending' = [pending EXCEPT ![c] = Idle]
           /\ UNCHANGED nodes
        \/ /\ q.leaf = NoNode /\ new <= MaxNodes
           /\ \E slot \in {q.slot, nodes[q.dir].count} :
                nodes' = Append([nodes EXCEPT ![q.dir] = PutChild(@, slot, new)], Node(q.name, q.type))
           /\ pending' = [d \in Cpus |-> IF d = c THEN Idle
                                         ELSE IF pending[d].stage = "add"
                                         THEN [pending[d] EXCEPT !.stale = TRUE]
                                         ELSE pending[d]]
     /\ held' = IF q.unlock /\ RamVfsLookup(nodes', q.dir, q.name) # NoNode
                THEN [held EXCEPT ![c] = @ - 1] ELSE held
     /\ UNCHANGED <<mountVars, files>>

\* The RAM file system refuses all of these.
VfsUnlink(c, p) == Reads(c, Fails(Base(p) = NoVnode))
VfsRmdir(c, p) == VfsUnlink(c, p)
VfsSymlink(c, p) == VfsUnlink(c, p)

VfsLink(c, old, new) ==
  Reads(c, ResolveLeak(old) + Fails(Resolve(old) = NoVnode \/ Base(new) = NoVnode))

RenameLeak(old, new) == Fails(Base(old) = NoVnode \/ Base(new) = NoVnode)

VfsRename(c, old, new) == Reads(c, RenameLeak(old, new))

\* VfsMkpath makes each missing directory in the one before, under VfsLock;
\* below the root that fails, so at most the first component is made, and the
\* lock is released if there is no other.
VfsMkpath(c, p) ==
  LET found == root.sb \in RamSbs /\ Walk(nodes, root.node, p) # NoNode
      makes == Accepts(root) /\ p # << >> /\ RamVfsLookup(nodes, Root, p[1]) = NoNode
  IN /\ root # NoVnode
     /\ \/ ~makes /\ Reads(c, Fails(p # << >> /\ ~found))
        \/ /\ makes
           /\ Call(c, 1)
           /\ pending' = [pending EXCEPT ![c] = Creation(p[1], "dir", Len(p) = 1)]
           /\ UNCHANGED <<nodes, mountVars, files>>

----------------------------------------------------------------------------
(* Open files *)

\* Every failure returns with the lock: the path, KMalloc, the Open operation.
OpenLeak(p, fails) == ResolveLeak(p) + Fails(fails \/ Resolve(p) = NoVnode)

VfsOpen(c, p) ==
  \/ Reads(c, OpenLeak(p, TRUE))
  \/ /\ Resolve(p) # NoVnode
     /\ Call(c, OpenLeak(p, FALSE))
     /\ \E f \in FileIds : /\ files[f] = NoFile
                           /\ files' = [files EXCEPT ![f] = RamVfsOpen(nodes, Resolve(p))]
     /\ UNCHANGED <<nodes, mountVars, pending>>

VfsClose(c, f) ==
  /\ files[f] # NoFile
  /\ Call(c, 0)
  /\ files' = [files EXCEPT ![f] = NoFile]
  /\ UNCHANGED <<nodes, mountVars, pending>>

\* Mutant: VfsRead counts the bytes once more.
ReadFile_Thrice(f, len) ==
  LET r == RamVfsRead(nodes, f, len)
  IN [r EXCEPT !.file.offset = @ + 2 * Len(r.bytes)]

\* VfsRead adds what was read to the File's offset, which RamVfsRead has
\* moved already.
ReadFile(f, len) ==
  LET r == RamVfsRead(nodes, f, len)
  IN [r EXCEPT !.file.offset = @ + Len(r.bytes)]

VfsRead(c, f, len) ==
  /\ files[f] # NoFile
  /\ Call(c, Fails(len = 0))
  /\ files' = IF len = 0 THEN files ELSE [files EXCEPT ![f] = ReadFile(files[f], len).file]
  /\ UNCHANGED <<nodes, mountVars, pending>>

\* VfsWrite: the RAM file system refuses.
VfsWrite(c, f, len) == files[f] # NoFile /\ Reads(c, Fails(len = 0))

\* VfsFstats, VfsIoctl, VfsFsync
VfsFstats(c, f, badArgs) == files[f] # NoFile /\ Reads(c, Fails(badArgs))

VfsLseek(c, f, off, whence) ==
  /\ files[f] # NoFile
  /\ RamVfsLseek(nodes, files[f], off, whence).offset <= MaxOffset
  /\ Call(c, 0)
  /\ files' = [files EXCEPT ![f] = RamVfsLseek(nodes, files[f], off, whence)]
  /\ UNCHANGED <<nodes, mountVars, pending>>

----------------------------------------------------------------------------
(* Whole-file calls *)

\* A file whose first read returns an error (a directory), nothing, or bytes.
ReadOutcome(v) ==
  IF v.sb \notin RamSbs \/ nodes[v.node].type # "file" THEN "error"
  ELSE IF nodes[v.node].data = << >> THEN "empty" ELSE "bytes"

\* VfsCopy from v to w: nothing is ever copied, because RamVfsWrite refuses.
CopyFails(v, w) == v = NoVnode \/ w = NoVnode \/ ReadOutcome(v) # "empty"

\* The copy and its two openings, of v and w or of no vnode when they fail; the
\* second is tried if the first succeeded.
CopyLeak(src, dst, v, w) ==
  Fails(CopyFails(v, w)) + ResolveLeak(src) + Fails(v = NoVnode)
    + (IF v = NoVnode THEN 0 ELSE ResolveLeak(dst) + Fails(w = NoVnode))

VfsCopy(c, src, dst) ==
  \E v \in {NoVnode, Resolve(src)}, w \in {NoVnode, Resolve(dst)} :
    Reads(c, CopyLeak(src, dst, v, w))

\* VfsMove: the rename is refused, the copy is tried, the source is kept.
VfsMove(c, src, dst) ==
  \E v \in {NoVnode, Resolve(src)}, w \in {NoVnode, Resolve(dst)} :
    Reads(c, RenameLeak(src, dst) + CopyLeak(src, dst, v, w)
               + Fails(CopyFails(v, w) \/ Base(src) = NoVnode))

VfsReadAll(c, p) ==
  \E fails \in BOOLEAN :
    Reads(c, OpenLeak(p, fails)
               + Fails(fails \/ Resolve(p) = NoVnode \/ ReadOutcome(Resolve(p)) = "error"))

VfsWriteAll(c, p, len) ==
  \E fails \in BOOLEAN :
    Reads(c, OpenLeak(p, fails) + Fails(fails \/ Resolve(p) = NoVnode \/ len > 0))

----------------------------------------------------------------------------
(* The specification.  VfsInit has no caller; the state after boot is that *)
(* of Entry.c: ramfs registered and mounted on "/".                        *)

FirstSb == CHOOSE sb \in RamSbs : TRUE

VfsBooted ==
  /\ nodes = RamFSMount(Archive)
  /\ fsReg = <<"ramfs">>
  /\ mounts = <<[sb |-> FirstSb, path |-> << >>]>>
  /\ root = Vnode(FirstSb, Root)
  /\ live = {FirstSb} \cup PseudoSbs
  /\ spare = RamSbs \ {FirstSb}
  /\ maxPath \in MaxPaths
  /\ files = [f \in FileIds |-> NoFile]
  /\ held = [c \in Cpus |-> 0]
  /\ pending = [c \in Cpus |-> Idle]
  /\ mix \in Mixes
  /\ aliased = {}

MountCalls(c) ==
  \/ \E n \in FsNames : VfsRegisterFs(c, n) \/ VfsUnregisterFs(c, n)
  \/ \E p \in Paths, n \in FsNames : VfsMount(c, p, n)
  \/ \E p \in Paths : VfsUnmount(c, p) \/ VfsSwitchRoot(c, p)
  \/ \E src, dst \in Paths : VfsBindMount(c, src, dst) \/ VfsMoveMount(c, src, dst)
  \/ \E p \in Paths, sb \in PseudoSbs : VfsRegisterPseudoFs(c, p, sb)
  \/ \E len \in MaxPaths \cup {0} : VfsSetMaxPath(c, len)
  \/ VfsShutdown(c)

NameCalls(c) ==
  \/ \E p \in Paths : VfsCreate(c, p) \/ VfsMkdir(c, p) \/ VfsMkpath(c, p)
  \/ AttachFind(c)
  \/ AttachFinish(c)

\* The calls that change nothing, or VfsLock only.
ReadCalls(c) ==
  \/ \E bad \in BOOLEAN : VfsListFs(c, bad) \/ VfsMountTableEnumerate(c, bad)
  \/ \E p \in Paths : \/ VfsRemount(c, p) \/ VfsMountTableFind(c, p) \/ VfsStats(c, p)
                      \/ VfsReaddir(c, p) \/ VfsReadlink(c, p) \/ VfsTruncate(c, p)
                      \/ VfsAccess(c, p) \/ VfsExists(c, p) \/ VfsReadAll(c, p)
                      \/ VfsUnlink(c, p) \/ VfsRmdir(c, p) \/ VfsSymlink(c, p)
                      \/ VfsWriteAll(c, p, 0) \/ VfsWriteAll(c, p, 1)
  \/ \E p \in Paths, q \in Dests : VfsLink(c, p, q) \/ VfsRename(c, p, q) \/ VfsCopy(c, p, q) \/ VfsMove(c, p, q)

FileCalls(c) ==
  \/ \E p \in Paths : VfsOpen(c, p)
  \/ \E f \in FileIds : \/ VfsClose(c, f)
                        \/ \E bad \in BOOLEAN : VfsFstats(c, f, bad)
                        \/ \E len \in 0..2 : VfsRead(c, f, len) \/ VfsWrite(c, f, len)
                        \/ \E off \in {0 - 1, 0, 1}, w \in {"set", "cur", "end"} : VfsLseek(c, f, off, w)

VfsNext ==
  \E c \in Cpus :
    \/ "mount" \in mix /\ MountCalls(c)
    \/ "name" \in mix /\ NameCalls(c)
    \/ "read" \in mix /\ ReadCalls(c)
    \/ "file" \in mix /\ FileCalls(c)

VfsSpec == VfsBooted /\ [][VfsNext]_vfsVars

----------------------------------------------------------------------------
(* Properties *)

\* No entry of the mount table points to a superblock that has been
\* released, unless VfsBindMount gave that superblock a second entry.
\* Nor does the global root, unless VfsSwitchRoot, VfsMoveMount or VfsBindMount
\* made its superblock reachable by a path other than "/": VfsUnmount forgets
\* the root for that path only.
MountedIsLive ==
  /\ \A i \in 1..Len(mounts) : mounts[i].sb \in live \cup aliased
  /\ root # NoVnode => root.sb \in live \cup aliased

\* The File's offset and the position the RAM file system reads at drift
\* apart, because a read moves the offset twice, but never by more than what
\* was read: a seek relative to the offset lands at most as far again.
OffsetDrift ==
  \A f \in FileIds : files[f] # NoFile => (files[f].pos # NoPos =>
    files[f].pos <= files[f].offset /\ files[f].offset <= 2 * files[f].pos)

\* A path that leads to a node of the RAM file system leads to the same node
\* for ever, whatever is created, unless two creations overlapped; and nothing is ever created below a directory other than the root.
NamesStayBound ==
  [][nodes' # nodes =>
     /\ (\A c \in Cpus : pending[c].stage = "add" => ~pending[c].stale)
           => \A p \in Paths : Walk(nodes, Root, p) # NoNode
                                 => Walk(nodes', Root, p) = Walk(nodes, Root, p)
     /\ \A n \in 2..Len(nodes) : nodes'[n].count = nodes[n].count]_vfsVars

=============================================================================
