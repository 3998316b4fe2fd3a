-------------------------------- MODULE Vmm --------------------------------
(***************************************************************************)
(* The page tables of the virtual memory manager (VMM.c, Pages.c) and the   *)
(* address-space operations built on them: VirtMapRangeZeroed and           *)
(* VirtSetupStack (VLoader.c), Elf64Load (ELF.c), mmap, munmap and brk       *)
(* (SysTbl.c), and what PosixFork, PosixProcExecve and PosixWait4 do to the  *)
(* space of a process (Proc.c).                                             *)
(*                                                                         *)
(* A physical frame is a number from 1 to NumFrames and holds one value per *)
(* table index: 0, the frame an entry points to, or the tag of whoever      *)
(* wrote the page last. Every table has the two indices of Idx, so an       *)
(* address is a page number of four binary digits; index 1 of a PML4 stands *)
(* for its upper half, which every space shares with the kernel.            *)
(* Addresses are counted in pages, lengths too; only the segments of an      *)
(* executable are counted in half pages, the two indices of a frame.         *)
(***************************************************************************)
EXTENDS Integers, Sequences, FiniteSets, FiniteSetsExt

CONSTANTS NumFrames,   \* physical memory, in frames
          Pids,        \* processes, each with at most one space
          MmapPages,   \* pages a process maps with mmap
          MunmapPages, \* pages a process unmaps with munmap
          StorePages,  \* pages a process stores to
          MaxLen,      \* longest range of one mmap, munmap or brk
          BrkBase,     \* first page of the brk area
          BrkWants,    \* breaks asked for
          UserBase,    \* UserVirtualBase: the first page __IsUserVa__ accepts
          Image,       \* PT_LOAD segments of the executable: <<first half page, half pages>>
          StackArea,   \* <<first page, pages>> of __STACK_BASE__
          ArgArea      \* <<first page, pages>> of __ARG_AREA__

ASSUME VmmAssumption ==
    /\ NumFrames \in Nat /\ NumFrames > 2
    /\ Pids \cap Int = {}
    /\ MmapPages \subseteq 0 .. 7 /\ MunmapPages \subseteq 0 .. 7
    /\ UserBase \in 0 .. 7
    /\ BrkBase \in 1 .. 7 /\ BrkWants \subseteq 1 .. 8
    /\ StorePages \subseteq 0 .. 7
    /\ MaxLen \in Nat \ {0}
    /\ IsFiniteSet(Pids)

\* A range of pages of the lower half.
LowerHalf(area) == /\ area \in (0 .. 7) \X (1 .. 8)
                   /\ area[1] + area[2] <= 8

\* The first page of a segment and their number: Elf64Load rounds the start
\* down and the end up.
FirstPage(seg) == seg[1] \div 2
NumPages(seg) == (seg[1] + seg[2] - 1) \div 2 - FirstPage(seg) + 1

\* Callers name addresses of the lower half, as the C library and the linker
\* do; __Handle__Mmap, __Handle__Munmap and Elf64Load do not check it.
ASSUME LowerHalfAssumption ==
    /\ \A va \in MmapPages \cup MunmapPages : LowerHalf(<<va, MaxLen>>)
    /\ Image \in Seq((0 .. 15) \X (1 .. 16))
    /\ \A k \in 1 .. Len(Image) : Image[k][1] + Image[k][2] <= 16
    /\ LowerHalf(StackArea) /\ LowerHalf(ArgArea)

VARIABLES free,     \* frames the physical memory manager can hand out
          mem,      \* content of every frame
          space,    \* Pid -> [node, pml4], or NoSpace
          status,   \* Pid -> "none", "running" or "zombie"
          brk,      \* Pid -> current break, 0 before the first call
          parent,   \* Pid -> the process that forked it, itself for the first
          tabs,     \* frames given out as a space structure or as a table
          torn,     \* Pid -> pages the process unmapped itself
          spilled   \* a load has written to a frame that was not its process's

vars == <<free, mem, space, status, brk, parent, tabs, torn, spilled>>

Frames == 1 .. NumFrames
Idx == 0 .. 1
ZeroPage == [i \in Idx |-> 0]
Page(tag) == [i \in Idx |-> tag]
NoSpace == [node |-> 0, pml4 |-> 0]
KernelPml4 == 1
KernelPdpt == 2
UserPages == 0 .. 7
Digit(va, level) == (va \div 2^(level - 1)) % 2

(***************************************************************************)
(* Operators on a memory m == [free, mem, tabs].                            *)
(***************************************************************************)

\* PmmAllocPage: one free frame, 0 when there is none. Which of the free
\* frames it is does not matter to this module; the model takes the lowest.
AllocPage(m) == IF m.free = {} THEN 0 ELSE Min(m.free)

\* AllocPages: the lowest run of n free frames, 0 when there is none.
AllocPages(m, n) ==
    LET fits == {f \in m.free : f .. (f + n - 1) \subseteq m.free}
    IN  IF fits = {} THEN 0 ELSE Min(fits)

\* One turn of GetPageTable's loop: follow the entry, or create the table.
Descend(w, i, create) ==
    LET f == AllocPage(w)
    IN  IF w.at = 0 THEN w
        ELSE IF w.mem[w.at][i] # 0 THEN [w EXCEPT !.at = w.mem[w.at][i]]
        ELSE IF ~create \/ f = 0 THEN [w EXCEPT !.at = 0]
        ELSE [free |-> w.free \ {f},
              mem  |-> [w.mem EXCEPT ![f] = ZeroPage, ![w.at][i] = f],
              tabs |-> w.tabs \cup {f},
              at   |-> f]

\* The tables created before a failure stay linked in.
GetPageTable(m, pml4, va, create) ==
    LET w[level \in 1 .. 4] ==
            IF level = 4 THEN [free |-> m.free, mem |-> m.mem, tabs |-> m.tabs, at |-> pml4]
            ELSE Descend(w[level + 1], Digit(va, level + 1), create)
    IN  w[1]

\* GetPhysicalAddress, with 0 for an address that is not mapped.
GetPhysicalAddress(m, pml4, va) ==
    LET At(f, level) == IF f = 0 THEN 0 ELSE m.mem[f][Digit(va, level)]
    IN  At(At(At(At(pml4, 4), 3), 2), 1)

Failed(w) == [free |-> w.free, mem |-> w.mem, tabs |-> w.tabs, ok |-> FALSE]
Done(w) == [free |-> w.free, mem |-> w.mem, tabs |-> w.tabs, ok |-> TRUE]

\* The entry for a page, in the table GetPageTable answered.
PutEntry(w, i, phys) ==
    IF w.at = 0 THEN Failed(w)
    ELSE IF w.mem[w.at][i] # 0 THEN Done(w)
    ELSE Done([w EXCEPT !.mem[w.at][i] = phys])

\* MapPage answers 1 without mapping when the page is already present.
MapPage(m, pml4, va, phys) == PutEntry(GetPageTable(m, pml4, va, TRUE), Digit(va, 1), phys)

\* UnmapPage clears the entry and keeps the frame.
ClearEntry(w, i) == IF w.at = 0 THEN Done(w) ELSE Done([w EXCEPT !.mem[w.at][i] = 0])
UnmapPage(m, pml4, va) == ClearEntry(GetPageTable(m, pml4, va, FALSE), Digit(va, 1))

UnmapRange(m, pml4, first, n) ==
    LET f[k \in 0 .. n] == IF k = 0 THEN Done(m)
                           ELSE UnmapPage(f[k - 1], pml4, first + k - 1)
    IN  f[n]

\* A forgotten memset.
Zeroed_Dirty(w, frame) == w

\* The memset of a page that could be mapped.
Zeroed(w, frame) == IF w.ok THEN [w EXCEPT !.mem[frame] = ZeroPage] ELSE w

\* VirtMapRangeZeroed: one contiguous block, mapped and cleared page by page.
\* The block is not given back when a page cannot be mapped.
MapBlock(m, pml4, first, n, base) ==
    LET f[k \in 0 .. n] ==
            IF k = 0 THEN Done([m EXCEPT !.free = @ \ (base .. (base + n - 1))])
            ELSE IF ~f[k - 1].ok THEN f[k - 1]
            ELSE Zeroed(MapPage(f[k - 1], pml4, first + k - 1, base + k - 1), base + k - 1)
    IN  IF base = 0 THEN Failed(m) ELSE f[n]
VirtMapRangeZeroed(m, pml4, first, n) == MapBlock(m, pml4, first, n, AllocPages(m, n))

\* CreateVirtualSpace: a frame for the structure, one for the PML4, whose
\* upper half is copied from the kernel's. Answers [node, pml4] or NoSpace.
CreateVirtualSpace(m) ==
    LET node == AllocPage(m)
        pml4 == IF node = 0 THEN 0 ELSE AllocPage([m EXCEPT !.free = @ \ {node}])
    IN  IF pml4 = 0 THEN NoSpace ELSE [node |-> node, pml4 |-> pml4]

WithSpace(m, s) ==
    IF s = NoSpace THEN Failed(m)
    ELSE Done([free |-> m.free \ {s.node, s.pml4},
               mem  |-> [m.mem EXCEPT ![s.pml4] = [i \in Idx |->
                            IF i = 1 THEN m.mem[KernelPml4][1] ELSE 0]],
               tabs |-> m.tabs \cup {s.node, s.pml4}])

Entries(m, f) == {m.mem[f][i] : i \in Idx} \ {0}

\* The frames DestroyVirtualSpace gives back: the three levels of tables
\* under the lower half of the PML4, the PML4 and the structure.
TablesOf(m, s) ==
    LET pdpts == {m.mem[s.pml4][0]} \ {0}
        pds   == UNION {Entries(m, f) : f \in pdpts}
        pts   == UNION {Entries(m, f) : f \in pds}
    IN  pdpts \cup pds \cup pts \cup {s.pml4, s.node}

\* A walk that stops one level early, at the page directories.
DestroyVirtualSpace_KeepsTables(m, s) ==
    LET pdpts == {m.mem[s.pml4][0]} \ {0}
        back  == pdpts \cup UNION {Entries(m, f) : f \in pdpts} \cup {s.pml4, s.node}
    IN  [free |-> m.free \cup back, mem |-> m.mem, tabs |-> m.tabs \ back, ok |-> TRUE]

DestroyVirtualSpace(m, s) ==
    [free |-> m.free \cup TablesOf(m, s), mem |-> m.mem,
     tabs |-> m.tabs \ TablesOf(m, s), ok |-> TRUE]

(***************************************************************************)
(* Operations on the space of one process.                                  *)
(***************************************************************************)

Mem == [free |-> free, mem |-> mem, tabs |-> tabs]

Becomes(w) == free' = w.free /\ mem' = w.mem /\ tabs' = w.tabs

\* Sharing the parent's frame instead of copying it.
CopyPage_Share(w, va, to, src, new) == IF ~w.ok \/ src = 0 THEN w ELSE MapPage(w, to, va, src)

\* PosixFork's walk over the parent's tables: a new frame for every user
\* page, the content copied, and VirtMapPage's answer not looked at.
CopyPage(w, va, to, src, new) ==
    IF ~w.ok \/ src = 0 THEN w
    ELSE IF new = 0 THEN Failed(w)
    ELSE Done(MapPage([w EXCEPT !.free = @ \ {new}, !.mem[new] = w.mem[src]], to, va, new))
UserLeaf(m, pml4, va) == IF va < UserBase THEN 0 ELSE GetPhysicalAddress(m, pml4, va)
CopyPages(m, from, to) ==
    LET f[k \in 0 .. Cardinality(UserPages)] ==
            IF k = 0 THEN Done(m)
            ELSE CopyPage(f[k - 1], k - 1, to, UserLeaf(f[k - 1], from, k - 1), AllocPage(f[k - 1]))
    IN  f[Cardinality(UserPages)]

\* Where the half pages of a segment are written. GetPhysicalAddress answers
\* the frame with the offset in the page and Elf64Load adds that offset again,
\* so the first chunk of a segment that starts inside a page goes to the frame
\* after the page's. The later chunks start with a page and go where they belong.
Unaligned(seg) == seg[1] % 2 = 1
FrameAfter(w, pml4, seg) == GetPhysicalAddress(w, pml4, FirstPage(seg)) + 1
Chunks(w, pml4, seg) ==
    {IF Unaligned(seg) /\ h = seg[1] THEN <<FrameAfter(w, pml4, seg), 0>>
     ELSE <<GetPhysicalAddress(w, pml4, h \div 2), h % 2>> : h \in seg[1] .. (seg[1] + seg[2] - 1)}

\* The first chunk meets a table, a page of another process, or memory this
\* module does not have.
Spills(w, p, seg) ==
    Unaligned(seg) /\ FrameAfter(w, space[p].pml4, seg) \notin
        Frames \ (w.tabs \cup {GetPhysicalAddress(w, space[q].pml4, va) :
                              q \in {r \in Pids \ {p} : space[r] # NoSpace}, va \in UserPages})

\* The file's bytes and the zero fill, both with the tag of the process. After
\* a spill the load is not followed further.
FillSegment(w, p, seg, readable) ==
    IF ~w.ok \/ ~readable THEN Failed(w)
    ELSE [w EXCEPT !.ok = ~Spills(w, p, seg),
                   !.mem = [f \in Frames |-> [i \in Idx |->
                       IF <<f, i>> \in Chunks(w, space[p].pml4, seg) THEN p ELSE @[f][i]]]]

\* Elf64Load: each segment is mapped, read (the buffer or the file may fail
\* after the first n) and copied.
MapSegment(w, p, seg) ==
    IF w.ok THEN VirtMapRangeZeroed(w, space[p].pml4, FirstPage(seg), NumPages(seg)) ELSE w
Segments(m, p, n) ==
    LET f[k \in 0 .. Len(Image)] ==
            IF k = 0 THEN Done(m)
            ELSE FillSegment(MapSegment(f[k - 1], p, Image[k]), p, Image[k], k <= n)
    IN  f
Elf64Load(m, p, n) == Segments(m, p, n)[Len(Image)]
LoadSpills(m, p, n) ==
    \E k \in 1 .. Len(Image) : LET w == MapSegment(Segments(m, p, n)[k - 1], p, Image[k])
                              IN  w.ok /\ k <= n /\ Spills(w, p, Image[k])

\* VirtSetupStack: the stack, then the argument area, then the vectors
\* pushed onto the top page of the stack. Each stage needs the one before.
MapArea(w, pml4, area) == IF w.ok THEN VirtMapRangeZeroed(w, pml4, area[1], area[2]) ELSE w
PushVectors(w, pml4, tag) ==
    IF ~w.ok THEN w
    ELSE [w EXCEPT !.mem[GetPhysicalAddress(w, pml4, StackArea[1] + StackArea[2] - 1)] = Page(tag)]
VirtSetupStack(w, pml4, tag) ==
    PushVectors(MapArea(MapArea(w, pml4, StackArea), pml4, ArgArea), pml4, tag)

\* VirtLoad: the loader, then the stack.
VirtLoad(m, p, n) == VirtSetupStack(Elf64Load(m, p, n), space[p].pml4, p)

VmmInit ==
    /\ free = Frames \ {KernelPml4, KernelPdpt}
    /\ mem = [f \in Frames |-> IF f = KernelPml4 THEN [i \in Idx |-> IF i = 1 THEN KernelPdpt ELSE 0]
                              ELSE ZeroPage]
    /\ space = [p \in Pids |-> NoSpace]
    /\ status = [p \in Pids |-> "none"]
    /\ brk = [p \in Pids |-> 0]
    /\ parent = [p \in Pids |-> p]
    /\ tabs = {KernelPml4, KernelPdpt}
    /\ torn = [p \in Pids |-> {}]
    /\ spilled = FALSE

\* PosixProcCreate as the kernel calls it, for the first process; PosixFork
\* makes the others.
PosixProcCreate(p) ==
    LET s == CreateVirtualSpace(Mem)
    IN  /\ \A q \in Pids : status[q] = "none"
        /\ s # NoSpace
        /\ Becomes(WithSpace(Mem, s))
        /\ space' = [space EXCEPT ![p] = s]
        /\ status' = [status EXCEPT ![p] = "running"]
        /\ UNCHANGED <<brk, parent, torn, spilled>>

\* PosixFork: without a thread, or without memory for a page, the child is
\* made a zombie with the space it has by then.
PosixFork(p, c) ==
    LET s == CreateVirtualSpace(Mem)
    IN  /\ status[p] = "running" /\ status[c] = "none"
        /\ s # NoSpace
        /\ \E thread \in BOOLEAN :
           \E w \in {IF thread THEN CopyPages(WithSpace(Mem, s), space[p].pml4, s.pml4)
                     ELSE Failed(WithSpace(Mem, s))} :
               /\ Becomes(w)
               /\ status' = [status EXCEPT ![c] = IF w.ok THEN "running" ELSE "zombie"]
        /\ space' = [space EXCEPT ![c] = s]
        /\ parent' = [parent EXCEPT ![c] = p]
        /\ UNCHANGED <<brk, torn, spilled>>

\* PosixProcExecve loads over the space the process has, and sets the stack
\* up a second time once VirtLoad is done.
PosixProcExecve(p) ==
    /\ status[p] = "running"
    /\ \E n \in 0 .. Len(Image) :
           /\ Becomes(VirtSetupStack(VirtLoad(Mem, p, n), space[p].pml4, p))
           /\ spilled' = LoadSpills(Mem, p, n)
    /\ UNCHANGED <<space, status, brk, parent, torn>>

\* __Handle__Mmap. A range that cannot be mapped stays as far as it got.
Mmap(p, va, n) ==
    /\ status[p] = "running"
    /\ Becomes(VirtMapRangeZeroed(Mem, space[p].pml4, va, n))
    /\ UNCHANGED <<space, status, brk, parent, torn, spilled>>

\* __Handle__Munmap.
Munmap(p, va, n) ==
    /\ status[p] = "running"
    /\ Becomes(UnmapRange(Mem, space[p].pml4, va, n))
    /\ torn' = [torn EXCEPT ![p] = @ \cup (va .. (va + n - 1))]
    /\ UNCHANGED <<space, status, brk, parent, spilled>>

BrkCur(p) == IF brk[p] = 0 THEN BrkBase ELSE brk[p]

\* The break moves before the mapping's answer is known.
NewBrk_Eager(cur, want, ok) == want

\* The break after a request, given what the mapping answered.
NewBrk(cur, want, ok) == IF ok THEN want ELSE cur

\* __Handle__Brk: the page-aligned request above, at or below the break.
Brk(p, want) ==
    /\ status[p] = "running"
    /\ \E w \in {IF want > BrkCur(p)
                 THEN VirtMapRangeZeroed(Mem, space[p].pml4, BrkCur(p), want - BrkCur(p))
                 ELSE UnmapRange(Mem, space[p].pml4, want, BrkCur(p) - want)} :
           /\ Becomes(w)
           /\ brk' = [brk EXCEPT ![p] = NewBrk(BrkCur(p), want, w.ok)]
    /\ UNCHANGED <<space, status, parent, torn, spilled>>

\* The process stores to a page it has mapped (the MMU, external).
Store(p, va) ==
    LET f == GetPhysicalAddress(Mem, space[p].pml4, va)
    IN  /\ status[p] = "running"
        /\ f # 0
        /\ mem' = [mem EXCEPT ![f] = Page(p)]
        /\ UNCHANGED <<free, tabs, space, status, brk, parent, torn, spilled>>

\* PosixExit keeps the space; the parent's PosixWait4 destroys it.
PosixExit(p) ==
    /\ status[p] = "running"
    /\ status' = [status EXCEPT ![p] = "zombie"]
    /\ UNCHANGED <<free, mem, tabs, space, brk, parent, torn, spilled>>

PosixWait4(p, c) ==
    /\ status[p] = "running" /\ status[c] = "zombie" /\ parent[c] = p /\ c # p
    /\ Becomes(DestroyVirtualSpace(Mem, space[c]))
    /\ space' = [space EXCEPT ![c] = NoSpace]
    /\ status' = [status EXCEPT ![c] = "gone"]
    /\ UNCHANGED <<brk, parent, torn, spilled>>

\* What follows a spill depends on the bytes of the file, so it ends the model.
VmmNext ==
    /\ ~spilled
    /\ \/ \E p \in Pids :
             \/ PosixProcCreate(p)
             \/ PosixProcExecve(p)
             \/ PosixExit(p)
             \/ \E va \in MmapPages, n \in 1 .. MaxLen : Mmap(p, va, n)
             \/ \E va \in MunmapPages, n \in 1 .. MaxLen : Munmap(p, va, n)
             \/ \E want \in BrkWants : Brk(p, want)
             \/ \E va \in StorePages : Store(p, va)
       \/ \E p, c \in Pids : PosixFork(p, c) \/ PosixWait4(p, c)

VmmSpec == VmmInit /\ [][VmmNext]_vars

-----------------------------------------------------------------------------

Live == {p \in Pids : space[p] # NoSpace}
Leaf(p, va) == GetPhysicalAddress(Mem, space[p].pml4, va)
Mapped == {x \in Live \X UserPages : Leaf(x[1], x[2]) # 0}
LeafFrames == {Leaf(x[1], x[2]) : x \in Mapped}

\* The process and those it descends from by forks.
Ancestors(p) ==
    LET up[n \in 0 .. Cardinality(Pids)] ==
            IF n = 0 THEN {p} ELSE up[n - 1] \cup {parent[q] : q \in up[n - 1]}
    IN  up[Cardinality(Pids)]

\* No frame is used for two things at once (GetPageTable, MapPage,
\* AllocPages, DestroyVirtualSpace): the tables of two spaces are disjoint,
\* two mapped pages never share a frame, no page is a table, and nothing a
\* space still reaches has been given back to the physical memory manager.
FramesOwnedOnce ==
    \/ spilled
    \/ /\ \A p, q \in Live : p # q =>
              TablesOf(Mem, space[p]) \cap TablesOf(Mem, space[q]) = {}
       /\ \A x, y \in Mapped : x # y => Leaf(x[1], x[2]) # Leaf(y[1], y[2])
       /\ \A p \in Live : TablesOf(Mem, space[p]) \cap (LeafFrames \cup free) = {}
       /\ LeafFrames \cap (free \cup {KernelPml4, KernelPdpt}) = {}

\* Reaping gives every page table back (DestroyVirtualSpace): a frame that
\* was handed out as a table and is not free is still reached from the
\* kernel or from a space. Frames of pages have no such promise: unmapping
\* and destroying leave them allocated.
NoTableLost ==
    \/ spilled
    \/ tabs = {KernelPml4, KernelPdpt} \cup UNION {TablesOf(Mem, space[p]) : p \in Live}

\* What a process reads from its pages was never written by a process it
\* does not descend from (VirtMapRangeZeroed's memset, PosixFork's copy):
\* zero, or what it or an ancestor stored or loaded. A spill of the loader
\* ends this promise; one that lands in a free frame or in a page of the
\* process itself does not.
PagesArePrivate ==
    \/ spilled
    \/ \A x \in Mapped : \A i \in Idx : mem[Leaf(x[1], x[2])][i] \in {0} \cup Ancestors(x[1])

\* The heap is there: every page from the base of the brk area to the break
\* is mapped, unless the process unmapped it with munmap (__Handle__Brk), also
\* after a request that ran out of memory half way.
BreakIsMapped ==
    \/ spilled
    \/ \A p \in Pids : status[p] = "running" =>
           \A va \in BrkBase .. (BrkCur(p) - 1) : Leaf(p, va) # 0 \/ va \in torn[p]

=============================================================================
