-------------------------------- MODULE Pmm --------------------------------
(***************************************************************************)
(* The physical memory manager: Kernel/PMM/PMM.c, Bitmap.c and MemMap.c.   *)
(*                                                                         *)
(* One bit per page frame, packed in 64-bit words, says whether the frame  *)
(* is used.  InitializePmm builds the bitmap from the boot loader's memory *)
(* map, puts the bitmap itself in the first usable region that is large    *)
(* enough, and counts the free and used frames; AllocPage, AllocPages,     *)
(* FreePage and FreePages then keep the bits and the counters.             *)
(*                                                                         *)
(* Every operation is one step: the manager has no lock, and this module   *)
(* asks whether the algorithm is right when calls do not overlap.          *)
(***************************************************************************)
EXTENDS Integers, Sequences, FiniteSets, FiniteSetsExt

CONSTANTS
  PageSize,          \* bytes in a page frame
  WordBytes,         \* sizeof(uint64_t)
  MaxMemoryRegions,  \* entries of Pmm.Regions
  MaxAddress,        \* end of the physical address space
  MemoryMaps,        \* the memory maps the boot loader may report
  MaxCount           \* largest page count a caller asks for

\* A memory map is a sequence of entries with a base, a length and a type.
MapEntry == [base : Nat, length : Nat, type : {"usable", "kernel", "other"}]

\* The pages an entry covers from its first whole page on, as
\* MarkMemoryRegions counts them.
EntryPages(e) == (e.base \div PageSize) .. (e.base \div PageSize + e.length \div PageSize - 1)

\* The boot protocol: entries lie in the physical address space (so that no
\* end address wraps), usable entries are page aligned, and none holds page 0,
\* whose address the callers could not tell from a failure.
ASSUME PmmAssumption ==
  /\ PageSize \in Nat \ {0}
  /\ WordBytes \in Nat \ {0}
  /\ MaxMemoryRegions \in Nat
  /\ MaxCount \in Nat
  /\ MaxAddress \in Nat
  /\ MemoryMaps \subseteq Seq(MapEntry)
  /\ \A m \in MemoryMaps : \A i \in 1 .. Len(m) :
       /\ m[i].base + m[i].length <= MaxAddress
       /\ m[i].type = "usable" =>
            m[i].base % PageSize = 0 /\ m[i].length % PageSize = 0 /\ m[i].base > 0

VARIABLES
  phase,          \* "off" before InitializePmm, then "ready" or "failed"
  Regions,        \* Pmm.Regions[0 .. RegionCount - 1]
  TotalPages,     \* Pmm.TotalPages
  Bitmap,         \* Pmm.Bitmap: the set of one-bits of each word
  LastAllocHint,  \* Pmm.LastAllocHint
  Stats,          \* Pmm.Stats.UsedPages and Pmm.Stats.FreePages
  lent,           \* the pages callers hold: handed out and not yet freed
  last            \* the last call: operation, argument and returned address

vars == <<phase, Regions, TotalPages, Bitmap, LastAllocHint, Stats, lent, last>>

----------------------------------------------------------------------------
(* Bitmap.c *)

BitsPerUint64 == 8 * WordBytes

\* Pmm.BitmapSize, in words, for a number of pages.
BitmapSize(total) == (total + BitsPerUint64 - 1) \div BitsPerUint64

WordOf(p) == p \div BitsPerUint64
BitOf(p)  == p % BitsPerUint64

SetBitmapBit(bm, p)   == [bm EXCEPT ![WordOf(p)] = @ \cup {BitOf(p)}]
ClearBitmapBit(bm, p) == [bm EXCEPT ![WordOf(p)] = @ \ {BitOf(p)}]
TestBitmapBit(bm, p)  == BitOf(p) \in bm[WordOf(p)]

\* The bitmap in which exactly the pages of S are set.
BitmapWith(total, S) ==
  [w \in 0 .. BitmapSize(total) - 1 |->
     {b \in 0 .. BitsPerUint64 - 1 : w * BitsPerUint64 + b \in S}]

\* The bitmap after SetBitmapBit, or ClearBitmapBit, of every page of S.
SetBits(bm, S) ==
  [w \in DOMAIN bm |-> bm[w] \cup {b \in 0 .. BitsPerUint64 - 1 : w * BitsPerUint64 + b \in S}]
ClearBits(bm, S) ==
  [w \in DOMAIN bm |-> bm[w] \ {b \in 0 .. BitsPerUint64 - 1 : w * BitsPerUint64 + b \in S}]

----------------------------------------------------------------------------
(* MemMap.c and InitializePmm *)

\* The regions ParseMemoryMap keeps: at most MaxMemoryRegions entries.
ParseMemoryMap(map) ==
  SubSeq(map, 1, IF Len(map) < MaxMemoryRegions THEN Len(map) ELSE MaxMemoryRegions)

HighestAddr(regions) ==
  Max({0} \cup {regions[i].base + regions[i].length : i \in DOMAIN regions})

PagesFor(bytes) == (bytes + PageSize - 1) \div PageSize

\* Where InitializeBitmap puts the bitmap: the base of the first usable
\* region that can hold it, 0 when there is none.
BitmapPhys(regions, bytes) ==
  LET fits == {i \in DOMAIN regions : regions[i].type = "usable" /\ regions[i].length >= bytes}
  IN  IF fits = {} THEN 0 ELSE regions[Min(fits)].base

UsablePages(regions, total) ==
  {p \in 0 .. total - 1 : \E i \in DOMAIN regions :
      regions[i].type = "usable" /\ p \in EntryPages(regions[i])}

\* The frames the bitmap itself occupies.
BitmapPages(regions, total) ==
  LET bytes == BitmapSize(total) * WordBytes
      start == BitmapPhys(regions, bytes) \div PageSize
  IN  start .. start + PagesFor(bytes) - 1

\* Mutant: the bitmap's own frames are left free.
MarkMemoryRegions_BitmapUnprotected(regions, total) ==
  (0 .. total - 1) \ UsablePages(regions, total)

\* The pages MarkMemoryRegions leaves set: all of them, less the usable
\* regions, plus the bitmap's own.
MarkMemoryRegions(regions, total) ==
  ((0 .. total - 1) \ UsablePages(regions, total)) \cup BitmapPages(regions, total)

InitializePmm(map) ==
  /\ phase = "off"
  /\ LET regions == ParseMemoryMap(map)
         total   == PagesFor(HighestAddr(regions))
         marked  == MarkMemoryRegions(regions, total)
         bitmap  == BitmapWith(total, marked)
         used    == {p \in 0 .. total - 1 : TestBitmapBit(bitmap, p)}
     IN  /\ Regions' = regions
         /\ TotalPages' = total
         /\ \/ /\ regions # <<>>
               /\ BitmapPhys(regions, BitmapSize(total) * WordBytes) # 0
               /\ phase' = "ready"
               /\ Bitmap' = bitmap
               /\ Stats' = [UsedPages |-> Cardinality(used),
                            FreePages |-> Cardinality((0 .. total - 1) \ used)]
            \/ /\ \/ regions = <<>>
                  \/ BitmapPhys(regions, BitmapSize(total) * WordBytes) = 0
               /\ phase' = "failed"
               /\ UNCHANGED <<Bitmap, Stats>>
  /\ last' = [op |-> "InitializePmm", arg |-> 0, ret |-> 0]
  /\ UNCHANGED <<LastAllocHint, lent>>

----------------------------------------------------------------------------
(* PMM.c *)

NotFound == -1    \* PmmBitmapNotFound

Pages == 0 .. TotalPages - 1
Used  == {p \in Pages : TestBitmapBit(Bitmap, p)}
Free  == Pages \ Used

\* Mutant: the scan from the hint never wraps around.
FindFreePage_NoWrap ==
  LET forward == {p \in LastAllocHint .. TotalPages - 1 : ~ TestBitmapBit(Bitmap, p)}
  IN  IF forward # {} THEN Min(forward) ELSE NotFound

\* The first free page from the hint to the end, else from the start to the
\* hint.
FindFreePage ==
  LET forward == {p \in LastAllocHint .. TotalPages - 1 : ~ TestBitmapBit(Bitmap, p)}
      wrapped == {p \in 0 .. LastAllocHint - 1 : ~ TestBitmapBit(Bitmap, p)}
  IN  IF forward # {} THEN Min(forward)
      ELSE IF wrapped # {} THEN Min(wrapped) ELSE NotFound

\* Mutant: a block counts as one page.
TakenStats_OnePage(n) ==
  [UsedPages |-> Stats.UsedPages + 1, FreePages |-> Stats.FreePages - 1]

\* The counters after n pages are taken, and after n are given back.
TakenStats(n) == [UsedPages |-> Stats.UsedPages + n, FreePages |-> Stats.FreePages - n]
GivenStats(n) == [UsedPages |-> Stats.UsedPages - n, FreePages |-> Stats.FreePages + n]

\* What a caller learns: address 0 means the call failed, any other address
\* makes it the holder of n pages.
Return(op, n, addr) ==
  /\ last' = [op |-> op, arg |-> n, ret |-> addr]
  /\ lent' = IF addr = 0 THEN lent
             ELSE lent \cup ((addr \div PageSize) .. (addr \div PageSize + n - 1))

TakeOnePage(op) ==
  LET p == FindFreePage
  IN  \/ /\ p = NotFound
         /\ Return(op, 1, 0)
         /\ UNCHANGED <<Bitmap, LastAllocHint, Stats>>
      \/ /\ p # NotFound
         /\ LastAllocHint' = p + 1
         /\ Bitmap' = SetBitmapBit(Bitmap, p)
         /\ Stats' = TakenStats(1)
         /\ Return(op, 1, p * PageSize)

AllocPage ==
  /\ phase = "ready"
  /\ TakeOnePage("AllocPage")
  /\ UNCHANGED <<phase, Regions, TotalPages>>

\* The starts of the runs of n free pages.
FreeRuns(n) ==
  {s \in 0 .. TotalPages - n : \A p \in s .. s + n - 1 : ~ TestBitmapBit(Bitmap, p)}

AllocPages(n) ==
  /\ phase = "ready"
  /\ \/ /\ n = 1
        /\ TakeOnePage("AllocPages")
     \/ /\ n = 0 \/ (n > 1 /\ (n > Stats.FreePages \/ FreeRuns(n) = {}))
        /\ Return("AllocPages", n, 0)
        /\ UNCHANGED <<Bitmap, LastAllocHint, Stats>>
     \/ /\ n > 1 /\ n <= Stats.FreePages /\ FreeRuns(n) # {}
        /\ LET s == Min(FreeRuns(n))
           IN  /\ Bitmap' = SetBits(Bitmap, s .. s + n - 1)
               /\ Return("AllocPages", n, s * PageSize)
        /\ Stats' = TakenStats(n)
        /\ UNCHANGED LastAllocHint
  /\ UNCHANGED <<phase, Regions, TotalPages>>

PmmValidatePage(addr) ==
  addr # 0 /\ addr % PageSize = 0 /\ addr \div PageSize < TotalPages

\* The page FreePage clears for an address: none when the address is not
\* valid or its page is free already.
FreedPage(addr) ==
  IF PmmValidatePage(addr) /\ TestBitmapBit(Bitmap, addr \div PageSize)
  THEN {addr \div PageSize} ELSE {}

\* The pages FreePages(addr, n) clears, one FreePage at a time.
FreedPages(addr, n) == UNION {FreedPage(addr + i * PageSize) : i \in 0 .. n - 1}

\* A caller may pass any address, a stale one included, but never that of a
\* page somebody else is using.
FreePages(addr, n) ==
  /\ phase = "ready"
  /\ FreedPages(addr, n) \subseteq lent
  /\ LET freed == FreedPages(addr, n)
     IN  /\ Bitmap' = ClearBits(Bitmap, freed)
         /\ Stats' = GivenStats(Cardinality(freed))
         /\ lent' = lent \ freed
  /\ last' = [op |-> "FreePages", arg |-> n, ret |-> addr]
  /\ UNCHANGED <<phase, Regions, TotalPages, LastAllocHint>>

FreePage(addr) ==
  /\ phase = "ready"
  /\ FreedPage(addr) \subseteq lent
  /\ \/ /\ FreedPage(addr) = {}
        /\ UNCHANGED <<Bitmap, Stats, lent>>
     \/ /\ FreedPage(addr) # {}
        /\ Bitmap' = ClearBitmapBit(Bitmap, addr \div PageSize)
        /\ Stats' = GivenStats(1)
        /\ lent' = lent \ FreedPage(addr)
  /\ last' = [op |-> "FreePage", arg |-> 1, ret |-> addr]
  /\ UNCHANGED <<phase, Regions, TotalPages, LastAllocHint>>

----------------------------------------------------------------------------

\* Pmm is a zeroed global before InitializePmm.
Init ==
  /\ phase = "off"
  /\ Regions = <<>>
  /\ TotalPages = 0
  /\ Bitmap = <<>>
  /\ LastAllocHint = 0
  /\ Stats = [UsedPages |-> 0, FreePages |-> 0]
  /\ lent = {}
  /\ last = [op |-> "none", arg |-> 0, ret |-> 0]

\* Every address up to one past the end of memory, aligned or not.
Addresses == 0 .. TotalPages * PageSize + 1

Next ==
  \/ \E map \in MemoryMaps : InitializePmm(map)
  \/ AllocPage
  \/ \E n \in 0 .. MaxCount : AllocPages(n)
  \/ \E addr \in Addresses : FreePage(addr)
  \/ \E addr \in Addresses, n \in 0 .. MaxCount : FreePages(addr, n)

Spec == Init /\ [][Next]_vars

----------------------------------------------------------------------------
(* Properties *)

Ops == {"none", "InitializePmm", "AllocPage", "AllocPages", "FreePage", "FreePages"}

\* The fields of the manager keep their ranges (PMM.c): the hint stays within
\* memory, the counters never underflow and only real pages are lent.
TypeOK ==
  /\ phase \in {"off", "ready", "failed"}
  /\ Regions \in Seq(MapEntry)
  /\ TotalPages \in Nat
  /\ phase = "ready" =>
       Bitmap \in [0 .. BitmapSize(TotalPages) - 1 -> SUBSET (0 .. BitsPerUint64 - 1)]
  /\ LastAllocHint \in 0 .. TotalPages
  /\ Stats \in [UsedPages : Nat, FreePages : Nat]
  /\ lent \subseteq Pages
  /\ last \in [op : Ops, arg : Nat, ret : Nat]

\* Pmm.Stats never drifts from the bitmap it summarises: AllocPages trusts
\* FreePages to reject a request before it scans (PMM.c:149), so a drift
\* would refuse memory that is there or underflow the counter.
StatsMatchBitmap ==
  phase = "ready" =>
    /\ Stats.FreePages = Cardinality(Free)
    /\ Stats.UsedPages = Cardinality(Used)

\* A used bit always has a reason, and only one: the page was kept back at
\* boot (not usable memory, or the bitmap's own frames) or a caller holds it.
\* So no page is handed out twice, no reserved frame is ever handed out, and
\* no page is lost, whatever sequence of allocations, frees and double frees
\* the kernel makes.
EveryUsedPageAccountedFor ==
  phase = "ready" =>
    LET kept == (Pages \ UsablePages(Regions, TotalPages)) \cup BitmapPages(Regions, TotalPages)
    IN  /\ Used = kept \cup lent
        /\ kept \cap lent = {}

\* AllocPages reports failure only when memory really cannot serve the
\* request: no free run of that length exists anywhere, however the hint and
\* the counters stand (PMM.c:6-31 and 135-194).
FailsOnlyWhenNoRun ==
  [][ last'.op \in {"AllocPage", "AllocPages"} /\ last'.ret = 0 /\ last'.arg > 0
        => \A s \in Pages : ~ (s .. s + last'.arg - 1 \subseteq Free) ]_vars

\* A successful allocation returns the address of a run of pages that nobody
\* held, and it takes exactly those pages.
AllocReturnsFreshRun ==
  [][ last'.op \in {"AllocPage", "AllocPages"} /\ last'.ret # 0
        => LET run == (last'.ret \div PageSize) .. (last'.ret \div PageSize + last'.arg - 1)
           IN  run \subseteq Free /\ Used' = Used \cup run ]_vars

----------------------------------------------------------------------------
(* The inductive invariant of the proofs *)

\* The regions in use are entries of a reported map, so they keep what the
\* boot protocol promises of it.
RegionsObeyProtocol ==
  \A i \in DOMAIN Regions :
    Regions[i].type = "usable" =>
      /\ Regions[i].base % PageSize = 0
      /\ Regions[i].length % PageSize = 0
      /\ Regions[i].base > 0

\* Nothing is lent, and the hint has not moved, until the manager is up.
BootState == phase # "ready" => LastAllocHint = 0 /\ lent = {}

PmmInv ==
  /\ TypeOK
  /\ BootState
  /\ RegionsObeyProtocol
  /\ StatsMatchBitmap
  /\ EveryUsedPageAccountedFor

============================================================================
