------------------------------- MODULE RamFs -------------------------------
(***************************************************************************)
(* The RAM file system of Kernel/RamFS and its VFS operations in           *)
(* Kernel/VFS/VfsRamFs.c: one tree of nodes, filled from the cpio archive  *)
(* at boot, extended by Create and Mkdir, never shrunk.                    *)
(*                                                                         *)
(* A name is a tuple of letters and a path a sequence of names, so that    *)
(* "/" is << >>; the file's bytes are a sequence.  A node is its index in  *)
(* nodes, and KMalloc fails when MaxNodes nodes are there.                 *)
(***************************************************************************)
EXTENDS Integers, Sequences, SequencesExt

CONSTANTS
  Archive,      \* the entries of the boot image: <<path, type, bytes>>
  MaxChildren,  \* RamFSMaxChildren
  MaxNodes      \* nodes that fit in the heap

Name == Seq(STRING)
Byte == 0..255

ASSUME RamFsAssumption ==
  /\ Archive \in Seq(Seq(Name) \X {"dir", "file"} \X Seq(Byte))
  /\ MaxChildren \in Nat \ {0}
  /\ MaxNodes \in Nat \ {0}

VARIABLE nodes   \* every RamFSNode ever created

Root == 1
NoNode == 0   \* a null pointer
NoPos == 0 - 1

\* children: the slots of Children that were ever filled; count: ChildCount.
Node(name, type) ==
  [name |-> name, type |-> type, data |-> << >>, children |-> << >>, count |-> 0]

\* RamFSCreateNode("/", RamFSNode_Directory)
RootOnly == <<Node(<< >>, "dir")>>

----------------------------------------------------------------------------
(* Looking up and attaching.  The operators take the nodes as an argument  *)
(* because one call of AttachPath creates several.                         *)

\* The first child of a directory with a name and a type in types.
Child(ns, d, name, types) ==
  LET found == {i \in 1..ns[d].count :
                  LET c == ns[ns[d].children[i]]
                  IN c.name = name /\ c.type \in types}
  IN IF found = {} THEN NoNode
     ELSE ns[d].children[CHOOSE i \in found : \A j \in found : i <= j]

\* RamVfsLookup, one component: only a directory has children to look at.
RamVfsLookup(ns, d, name) ==
  IF d = NoNode \/ ns[d].type # "dir" THEN NoNode
  ELSE Child(ns, d, name, {"dir", "file"})

\* __walk__ over RamVfsLookup, and RamFSLookup.
Walk(ns, d, path) ==
  LET at[k \in 0..Len(path)] == IF k = 0 THEN d ELSE RamVfsLookup(ns, at[k - 1], path[k])
  IN at[Len(path)]

Stored(children, i, n) ==
  IF i <= Len(children) THEN [children EXCEPT ![i] = n] ELSE Append(children, n)

\* Mutant: the new child takes the last slot that is in use.
PutChild_LastSlot(dir, slot, n) ==
  IF slot \in 1..(MaxChildren - 1) THEN [dir EXCEPT !.children = Stored(@, slot, n)]
  ELSE IF slot = 0 THEN [dir EXCEPT !.children = Stored(@, 1, n), !.count = 1] ELSE dir

\* RamFSAddChild: Children[ChildCount++] = n, where ChildCount was slot when it
\* was loaded.  A full directory silently drops the node.
PutChild(dir, slot, n) ==
  IF slot < MaxChildren
  THEN [dir EXCEPT !.children = Stored(@, slot + 1, n), !.count = slot + 1] ELSE dir

\* RamFSCreateNode and RamFSAddChild.
AddChild(ns, d, name, type) ==
  Append([ns EXCEPT ![d] = PutChild(@, @.count, Len(ns) + 1)], Node(name, type))

\* One segment of RamFSAttachPath: find the child or create it.
Descend(acc, name, type, types) ==
  LET c == Child(acc.ns, acc.at, name, types)
  IN CASE acc.at = NoNode -> acc
       [] acc.at # NoNode /\ c # NoNode -> [acc EXCEPT !.at = c]
       [] acc.at # NoNode /\ c = NoNode /\ Len(acc.ns) >= MaxNodes -> [acc EXCEPT !.at = NoNode]
       [] OTHER -> [ns |-> AddChild(acc.ns, acc.at, name, type), at |-> Len(acc.ns) + 1]

\* The directories on the way to the last segment.
Parent(ns, path) ==
  LET upTo[k \in 0..Len(path) - 1] ==
        IF k = 0 THEN [ns |-> ns, at |-> Root] ELSE Descend(upTo[k - 1], path[k], "dir", {"dir"})
  IN upTo[Len(path) - 1]

\* RamFSAttachPath: missing directories are created on the way, the leaf
\* keeps its type if it exists, and a file's bytes are replaced.
AttachPath(ns, path, type, data) ==
  IF path = << >> THEN [ns |-> ns, at |-> Root]
  ELSE LET parent == Parent(ns, path)
           leaf == IF parent.at = NoNode THEN parent
                   ELSE Descend(parent, Last(path), type, {"dir", "file"})
       IN IF leaf.at = NoNode \/ type = "dir" THEN leaf
          ELSE [leaf EXCEPT !.ns[leaf.at].data = data]

\* RamFSMount: the loop over the archive's entries.
RamFSMount(entries) ==
  LET upTo[k \in 0..Len(entries)] ==
        IF k = 0 THEN RootOnly
        ELSE AttachPath(upTo[k - 1], entries[k][1], entries[k][2], entries[k][3]).ns
  IN upTo[Len(entries)]

----------------------------------------------------------------------------
(* Open files.  pos is the RamVfsPrivFile's offset, offset the File's; a   *)
(* directory has no RamVfsPrivFile (pos = NoPos).                          *)

RamVfsOpen(ns, v) ==
  [vnode |-> v, offset |-> 0, pos |-> IF ns[v.node].type = "file" THEN 0 ELSE NoPos]

\* RamFSRead: the bytes of a node from an offset, cut at the end.
RamFSRead(ns, n, off, len) ==
  IF ns[n].type # "file" \/ off >= Len(ns[n].data) THEN << >>
  ELSE SubSeq(ns[n].data, off + 1, Min({off + len, Len(ns[n].data)}))

\* RamVfsRead moves both offsets.
RamVfsRead(ns, f, len) ==
  LET got == IF f.pos = NoPos THEN << >> ELSE RamFSRead(ns, f.vnode.node, f.pos, len)
  IN [bytes |-> got,
      file  |-> IF got = << >> THEN f
                ELSE [f EXCEPT !.pos = @ + Len(got), !.offset = @ + Len(got)]]

\* RamVfsLseek: clamped to the file, relative to the File's offset.
RamVfsLseek(ns, f, off, whence) ==
  LET size == IF f.pos = NoPos THEN 0 ELSE Len(ns[f.vnode.node].data)
      base == CASE whence = "set" -> 0 [] whence = "cur" -> f.offset [] whence = "end" -> size
      up   == Max({0, base + off})
      new  == IF f.pos = NoPos THEN up ELSE Min({up, size})
  IN [f EXCEPT !.offset = new, !.pos = IF @ = NoPos THEN NoPos ELSE new]

=============================================================================
