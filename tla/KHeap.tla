------------------------------- MODULE KHeap -------------------------------
(***************************************************************************)
(* The kernel heap on top of the physical memory manager:                  *)
(* Kernel/KHeap/KHeap.c and Slab.c over Pmm.                               *)
(*                                                                         *)
(* A small request is served from a slab, a page cut into objects of one   *)
(* size behind a header; a large one goes to AllocPages.  KFree tells them *)
(* apart by the magic number in the header of the page.  Addresses are     *)
(* physical ones: PhysToVirt only adds the offset of the direct map.       *)
(*                                                                         *)
(* No other page starts with that number: slabs are never returned         *)
(* (FreeSlab has no caller), so it is never left behind in a free page, and*)
(* callers are taken not to write it there.                                *)
(*                                                                         *)
(* Like the manager below it the heap has no lock, and a call is one step. *)
(* Other parts of the kernel (page tables, program images, CPU stacks)     *)
(* take and return pages of the manager in between.                        *)
(***************************************************************************)
EXTENDS Pmm, SequencesExt

CONSTANTS
  SlabSizes,   \* KHeap.SlabSizes
  SlabHeader,  \* sizeof(Slab)
  Sizes        \* the sizes that callers ask for

\* The largest object of a slab, 2048 in the code.
LargestObject == SlabSizes[Len(SlabSizes)]

ASSUME KHeapAssumption ==
  /\ SlabSizes \in Seq(Nat \ {0}) /\ SlabSizes # <<>>
  /\ \A i, j \in DOMAIN SlabSizes : i < j => SlabSizes[i] < SlabSizes[j]
  /\ SlabHeader \in Nat \ {0}
  /\ SlabHeader + LargestObject <= PageSize
  /\ Sizes \subseteq Nat
  /\ \A n \in Sizes : PagesFor(n) <= MaxCount

VARIABLES
  Caches,     \* KHeap.Caches: the slabs of each cache, first one first
  slabs,      \* the header of every slab, by its page
  live,       \* the blocks that callers hold
  heapPages   \* the pages that the heap has taken and not returned

heapVars == <<Caches, slabs, live, heapPages>>
allVars == <<vars, heapVars>>

----------------------------------------------------------------------------
(* Slab.c *)

\* The smallest cache whose objects are large enough.
GetSlabCache(n) == Min({i \in DOMAIN SlabSizes : n <= SlabSizes[i]})

\* How many objects of a size fit behind the header.
ObjectCount(size) == (PageSize - SlabHeader) \div size

\* Mutant: the objects start at the beginning of the page.
ObjectAddr_NoHeader(p, size, i) == p * PageSize + i * size

\* The address of the i-th object, from 0, of the slab in page p.
ObjectAddr(p, size, i) == p * PageSize + SlabHeader + i * size

SlabObjects(p, size) == {ObjectAddr(p, size, i) : i \in 0 .. ObjectCount(size) - 1}

\* The free list is built from low to high addresses, each object in front of
\* the one before.
AllocateSlab(p, size) ==
  [ObjectSize |-> size,
   FreeCount  |-> ObjectCount(size),
   FreeList   |-> [i \in 1 .. ObjectCount(size) |-> ObjectAddr(p, size, ObjectCount(size) - i)]]

----------------------------------------------------------------------------
(* KMalloc *)

Block(addr, bytes) == [addr |-> addr, bytes |-> bytes]

\* The pages from an address on that hold so many bytes.
PagesOf(addr, bytes) == addr \div PageSize .. (addr + bytes - 1) \div PageSize

KMallocLarge(n) ==
  /\ n > LargestObject
  /\ AllocPages(PagesFor(n))
  /\ \/ /\ last'.ret = 0
        /\ UNCHANGED <<live, heapPages>>
     \/ /\ last'.ret # 0
        /\ live' = live \cup {Block(last'.ret, PagesFor(n) * PageSize)}
        /\ heapPages' = heapPages \cup PagesOf(last'.ret, PagesFor(n) * PageSize)
  /\ UNCHANGED <<Caches, slabs>>

\* Mutant: the object stays in the free list.
Pop_Kept(s) == [s EXCEPT !.FreeCount = @ - 1]

\* The first object of a slab leaves the free list; another becomes the first.
Pop(s) == [ObjectSize |-> s.ObjectSize, FreeCount |-> s.FreeCount - 1, FreeList |-> Tail(s.FreeList)]
Push(s, addr) ==
  [ObjectSize |-> s.ObjectSize, FreeCount |-> s.FreeCount + 1, FreeList |-> Cons(addr, s.FreeList)]

\* A caller gets the first object of slab s, the one in page p.
TakeObject(p, s) ==
  /\ slabs' = [q \in DOMAIN slabs \cup {p} |-> IF q = p THEN Pop(s) ELSE slabs[q]]
  /\ live' = live \cup {Block(Head(s.FreeList), s.ObjectSize)}

\* Mutant: only the first slab of the cache is looked at.
SlabsWithRoom_FirstOnly(i) ==
  {j \in DOMAIN Caches[i] : j = 1 /\ slabs[Caches[i][j]].FreeCount > 0}

\* The positions in the cache's list of the slabs with a free object.
SlabsWithRoom(i) == {j \in DOMAIN Caches[i] : slabs[Caches[i][j]].FreeCount > 0}

\* An object of the first slab that has one.
KMallocObject(n) ==
  LET i == GetSlabCache(n)
      p == Caches[i][Min(SlabsWithRoom(i))]
  IN  /\ n > 0 /\ n <= LargestObject
      /\ SlabsWithRoom(i) # {}
      /\ TakeObject(p, slabs[p])
      /\ UNCHANGED <<Caches, heapPages>>
      /\ UNCHANGED vars

\* All slabs are full: a new one, if there is a page for it, is put in front
\* of the list.
KMallocNewSlab(n) ==
  LET i == GetSlabCache(n)
      p == last'.ret \div PageSize
  IN  /\ n > 0 /\ n <= LargestObject
      /\ SlabsWithRoom(i) = {}
      /\ AllocPage
      /\ \/ /\ last'.ret = 0
            /\ UNCHANGED heapVars
         \/ /\ last'.ret # 0
            /\ Caches' = [Caches EXCEPT ![i] = Cons(p, @)]
            /\ TakeObject(p, AllocateSlab(p, SlabSizes[i]))
            /\ heapPages' = heapPages \cup {p}

\* A request of 0 bytes is refused and changes nothing.
KMalloc(n) ==
  /\ Caches # <<>>
  /\ KMallocLarge(n) \/ KMallocObject(n) \/ KMallocNewSlab(n)

----------------------------------------------------------------------------
(* KFree *)

\* The page has the magic number of a slab: the object goes to the front of
\* its free list.
KFreeObject(b) ==
  LET p == b.addr \div PageSize
  IN  /\ p \in DOMAIN slabs
      /\ slabs' = [slabs EXCEPT ![p] = Push(@, b.addr)]
      /\ UNCHANGED <<Caches, heapPages>>
      /\ UNCHANGED vars

\* Any other page: the first page of the block, and no more, is returned.
KFreeLarge(b) ==
  LET p == b.addr \div PageSize
  IN  /\ p \notin DOMAIN slabs
      /\ FreePage(b.addr)
      /\ heapPages' = heapPages \ {p}
      /\ UNCHANGED <<Caches, slabs>>

\* Callers free what they hold, and hold it no longer.
KFree(b) ==
  /\ live' = live \ {b}
  /\ KFreeObject(b) \/ KFreeLarge(b)

----------------------------------------------------------------------------

HeapInit ==
  /\ Init
  /\ Caches = <<>>
  /\ slabs = [p \in {} |-> 0]
  /\ live = {}
  /\ heapPages = {}

InitializeKHeap ==
  /\ phase = "ready" /\ Caches = <<>>
  /\ Caches' = [i \in DOMAIN SlabSizes |-> <<>>]
  /\ UNCHANGED <<slabs, live, heapPages>>
  /\ UNCHANGED vars

\* The other users of the manager: they return pages that they hold, whole
\* blocks or parts of them.
OtherUsers ==
  /\ \/ AllocPage
     \/ \E n \in 0 .. MaxCount : AllocPages(n)
     \/ \E p \in lent \ heapPages : FreePage(p * PageSize)
  /\ UNCHANGED heapVars

HeapNext ==
  \/ \E map \in MemoryMaps : InitializePmm(map) /\ UNCHANGED heapVars
  \/ InitializeKHeap
  \/ \E n \in Sizes : KMalloc(n)
  \/ \E b \in live : KFree(b)
  \/ OtherUsers

HeapSpec == HeapInit /\ [][HeapNext]_allVars

----------------------------------------------------------------------------
(* Properties *)

Bytes(b) == b.addr .. b.addr + b.bytes - 1

HeaderBytes(p) == p * PageSize .. p * PageSize + SlabHeader - 1

\* Live blocks do not overlap each other, nor the header of a slab, and lie in
\* pages that the manager has handed to the heap and to nobody else: what one
\* caller writes into its block no other caller, no list of the heap and no
\* page table sees.
BlocksDisjoint ==
  \A b \in live :
    /\ PagesOf(b.addr, b.bytes) \subseteq heapPages \cap lent
    /\ \A c \in live : b # c => Bytes(b) \cap Bytes(c) = {}
    /\ \A p \in DOMAIN slabs : Bytes(b) \cap HeaderBytes(p) = {}

\* The objects of page p that callers hold.
Held(p) == {b.addr : b \in {c \in live : c.addr \div PageSize = p}}

\* The slab s in page p counts its free list, which holds every object that no
\* caller holds, once.
Consistent(p, s) ==
  /\ s.FreeCount = Len(s.FreeList)
  /\ IsInjective(s.FreeList)
  /\ Range(s.FreeList) \cup Held(p) = SlabObjects(p, s.ObjectSize)
  /\ Range(s.FreeList) \cap Held(p) = {}

\* Every object of a slab is either free, and then exactly once in the free
\* list, or held by a caller; FreeCount, by which KMalloc picks the slab
\* before it pops the list, is the length of the list.
ObjectsAccountedFor == \A p \in DOMAIN slabs : Consistent(p, slabs[p])

\* KMalloc fails only when memory is out: every object of the fitting size is
\* held and no run of free pages would do.
KMallocFailsOnlyWhenFull ==
  [][ \A n \in Sizes \ {0} :
        KMalloc(n) /\ live' = live =>
          LET need == IF n > LargestObject THEN PagesFor(n) ELSE 1
          IN  /\ FreeRuns(need) = {}
              /\ n <= LargestObject =>
                   \A p \in DOMAIN slabs :
                     slabs[p].ObjectSize = SlabSizes[GetSlabCache(n)] => slabs[p].FreeList = <<>> ]_allVars

----------------------------------------------------------------------------
(* The inductive invariant of the proofs, beside PmmInv *)

Headers == [ObjectSize : Range(SlabSizes), FreeCount : Nat, FreeList : Seq(Nat)]

\* The heap's pages are lent to it, and its slabs are among them.
HeapShape ==
  /\ heapPages \subseteq lent
  /\ DOMAIN slabs \subseteq heapPages
  /\ slabs \in [DOMAIN slabs -> Headers]
  /\ live \subseteq [addr : Nat, bytes : Nat]

\* The lists of the caches hold the slabs of their size, and every slab.
CachesListSlabs ==
  /\ Caches # <<>> => phase = "ready" /\ Caches \in [DOMAIN SlabSizes -> Seq(DOMAIN slabs)]
  /\ \A i \in DOMAIN Caches : \A j \in DOMAIN Caches[i] :
       slabs[Caches[i][j]].ObjectSize = SlabSizes[i]
  /\ \A p \in DOMAIN slabs : \E i \in DOMAIN Caches : \E j \in DOMAIN Caches[i] : Caches[i][j] = p

IsLarge(b) == b.addr \div PageSize \notin DOMAIN slabs

\* A block is an object of its slab, or whole pages that are no slabs.
BlocksInPlace ==
  \A b \in live :
    IF IsLarge(b)
    THEN /\ b.addr = (b.addr \div PageSize) * PageSize
         /\ b.bytes > 0 /\ b.bytes = (b.bytes \div PageSize) * PageSize
         /\ PagesOf(b.addr, b.bytes) \subseteq heapPages \ DOMAIN slabs
    ELSE b.bytes = slabs[b.addr \div PageSize].ObjectSize

LargeBlocksDisjoint ==
  \A b, c \in live :
    IsLarge(b) /\ IsLarge(c) /\ b # c =>
      PagesOf(b.addr, b.bytes) \cap PagesOf(c.addr, c.bytes) = {}

HeapInv ==
  /\ HeapShape
  /\ CachesListSlabs
  /\ ObjectsAccountedFor
  /\ BlocksInPlace
  /\ LargeBlocksDisjoint

============================================================================
