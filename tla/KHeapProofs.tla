---------------------------- MODULE KHeapProofs ----------------------------
(***************************************************************************)
(* Proofs about Pmm and KHeap. Pmm, for every page size, word size, memory *)
(* map and request size: the counters agree with the bitmap and every used *)
(* page is kept back or lent, exactly once. KHeap, for every page size,    *)
(* object size and memory map: the heap uses the physical memory manager   *)
(* as the manager requires, and the blocks it hands out never overlap.     *)
(***************************************************************************)
EXTENDS KHeap, FiniteSetTheorems, SequenceTheorems, WellFoundedInduction, TLAPS

----------------------------------------------------------------------------
(* Arithmetic *)

\* Quotient and remainder of a natural number.
LEMMA DivModNat ==
  ASSUME NEW w \in Nat \ {0}, NEW p \in Nat
  PROVE  /\ p \div w \in Nat
         /\ p % w \in 0 .. w - 1
         /\ p = (w * (p \div w)) + (p % w)
  OBVIOUS

\* A number is determined by its quotient and its remainder.
LEMMA DivModUnique ==
  ASSUME NEW w \in Nat \ {0}, NEW q \in Nat, NEW r \in 0 .. w - 1
  PROVE  /\ q * w + r \in Nat
         /\ (q * w + r) \div w = q
         /\ (q * w + r) % w = r
  OBVIOUS

\* Rounding the number of words up makes room for the last page.
LEMMA QuotientBelowCeiling ==
  ASSUME NEW w \in Nat \ {0}, NEW p \in Nat, NEW t \in Nat, p < t
  PROVE  p \div w < (t + w - 1) \div w
  OBVIOUS

\* Well-ordering: a non-empty set of naturals has a least element.
LEMMA MinNat ==
  ASSUME NEW S, S \subseteq Nat, S # {}
  PROVE  /\ Min(S) \in S
         /\ \A x \in S : Min(S) <= x
<1>1. \E x \in S : \A y \in S : ~ (<<y, x>> \in OpToRel(<, Nat))
  BY NatLessThanWellFounded, WFMin
<1>2. \E x \in S : \A y \in S : x =< y
  <2>1. PICK x \in S : \A y \in S : ~ (<<y, x>> \in OpToRel(<, Nat))
    BY <1>1
  <2>2. \A y \in S : ~ (y < x)
    BY <2>1 DEF OpToRel
  <2> QED
    BY <2>2
<1> QED
  BY <1>2 DEF Min

\* A bounded non-empty set of naturals has a greatest element.
LEMMA MaxNat ==
  ASSUME NEW S, S \subseteq Nat, S # {}, NEW b \in Nat, \A x \in S : x <= b
  PROVE  /\ Max(S) \in S
         /\ \A x \in S : x <= Max(S)
<1> DEFINE T == {n \in Nat : b - n \in S}
<1>1. T \subseteq Nat /\ T # {}
  <2>1. PICK x \in S : TRUE
    OBVIOUS
  <2>2. b - x \in Nat /\ b - (b - x) = x
    OBVIOUS
  <2> QED
    BY <2>2
<1>2. Min(T) \in T /\ \A n \in T : Min(T) <= n
  BY <1>1, MinNat
<1>3. b - Min(T) \in S /\ \A y \in S : b - Min(T) >= y
  <2> SUFFICES ASSUME NEW y \in S PROVE b - Min(T) >= y
    BY <1>2
  <2>1. b - y \in Nat /\ b - (b - y) = y
    OBVIOUS
  <2>2. b - y \in T
    BY <2>1
  <2> HIDE DEF T
  <2>3. Min(T) <= b - y /\ Min(T) \in Nat
    BY <2>2, <1>2, <1>1
  <2> QED
    BY <2>3
<1>4. \E x \in S : \A y \in S : x >= y
  BY <1>3
<1> QED
  BY <1>4 DEF Max

----------------------------------------------------------------------------
(* The bitmap *)

BitmapType(total) == [0 .. BitmapSize(total) - 1 -> SUBSET (0 .. BitsPerUint64 - 1)]

\* Every page has a word of the bitmap and a bit of that word, and no two
\* pages share one.
LEMMA PageAddressing ==
  ASSUME NEW total \in Nat, NEW p \in 0 .. total - 1
  PROVE  /\ WordOf(p) \in 0 .. BitmapSize(total) - 1
         /\ BitOf(p) \in 0 .. BitsPerUint64 - 1
         /\ WordOf(p) * BitsPerUint64 + BitOf(p) = p
         /\ BitmapSize(total) \in Nat
<1>1. BitsPerUint64 \in Nat \ {0}
  BY PmmAssumption DEF BitsPerUint64
<1> p \in Nat /\ p < total
  OBVIOUS
<1>2. /\ WordOf(p) \in Nat
      /\ BitOf(p) \in 0 .. BitsPerUint64 - 1
      /\ p = (BitsPerUint64 * WordOf(p)) + BitOf(p)
  BY <1>1, DivModNat, Zenon DEF WordOf, BitOf
<1>3. BitmapSize(total) \in Nat
  BY <1>1, DivModNat DEF BitmapSize
<1>4. WordOf(p) < BitmapSize(total)
  BY <1>1, QuotientBelowCeiling DEF WordOf, BitmapSize
<1> QED
  BY <1>1, <1>2, <1>3, <1>4

\* SetBitmapBit sets the bit of its page and of no other.
LEMMA SetBitTest ==
  ASSUME NEW total \in Nat, NEW bm \in BitmapType(total), NEW p \in 0 .. total - 1
  PROVE  /\ SetBitmapBit(bm, p) \in BitmapType(total)
         /\ \A q \in 0 .. total - 1 :
              TestBitmapBit(SetBitmapBit(bm, p), q) <=> q = p \/ TestBitmapBit(bm, q)
<1>1. /\ WordOf(p) \in 0 .. BitmapSize(total) - 1
      /\ BitOf(p) \in 0 .. BitsPerUint64 - 1
  BY PageAddressing
<1>2. SetBitmapBit(bm, p) \in BitmapType(total)
  BY <1>1 DEF SetBitmapBit, BitmapType
<1>3. ASSUME NEW q \in 0 .. total - 1
      PROVE  TestBitmapBit(SetBitmapBit(bm, p), q) <=> q = p \/ TestBitmapBit(bm, q)
  <2>1. WordOf(q) \in 0 .. BitmapSize(total) - 1
    BY PageAddressing
  <2>2. WordOf(p) = WordOf(q) /\ BitOf(p) = BitOf(q) => p = q
    BY PageAddressing
  <2>3. CASE WordOf(p) = WordOf(q)
    BY <1>1, <2>1, <2>2, <2>3 DEF SetBitmapBit, TestBitmapBit, BitmapType
  <2>4. CASE WordOf(p) # WordOf(q)
    BY <1>1, <2>1, <2>4 DEF SetBitmapBit, TestBitmapBit, BitmapType
  <2> QED
    BY <2>3, <2>4
<1> QED
  BY <1>2, <1>3

\* ClearBitmapBit clears the bit of its page and of no other.
LEMMA ClearBitTest ==
  ASSUME NEW total \in Nat, NEW bm \in BitmapType(total), NEW p \in 0 .. total - 1
  PROVE  /\ ClearBitmapBit(bm, p) \in BitmapType(total)
         /\ \A q \in 0 .. total - 1 :
              TestBitmapBit(ClearBitmapBit(bm, p), q) <=> q # p /\ TestBitmapBit(bm, q)
<1>1. /\ WordOf(p) \in 0 .. BitmapSize(total) - 1
      /\ BitOf(p) \in 0 .. BitsPerUint64 - 1
  BY PageAddressing
<1>2. ClearBitmapBit(bm, p) \in BitmapType(total)
  BY <1>1 DEF ClearBitmapBit, BitmapType
<1>3. ASSUME NEW q \in 0 .. total - 1
      PROVE  TestBitmapBit(ClearBitmapBit(bm, p), q) <=> q # p /\ TestBitmapBit(bm, q)
  <2>1. WordOf(q) \in 0 .. BitmapSize(total) - 1
    BY PageAddressing
  <2>2. WordOf(p) = WordOf(q) /\ BitOf(p) = BitOf(q) => p = q
    BY PageAddressing
  <2>3. CASE WordOf(p) = WordOf(q)
    BY <1>1, <2>1, <2>2, <2>3 DEF ClearBitmapBit, TestBitmapBit, BitmapType
  <2>4. CASE WordOf(p) # WordOf(q)
    BY <1>1, <2>1, <2>4 DEF ClearBitmapBit, TestBitmapBit, BitmapType
  <2> QED
    BY <2>3, <2>4
<1> QED
  BY <1>2, <1>3

\* SetBits and ClearBits do the same for a set of pages, and BitmapWith
\* builds the bitmap of a set.
LEMMA SetBitsTest ==
  ASSUME NEW total \in Nat, NEW bm \in BitmapType(total), NEW S
  PROVE  /\ SetBits(bm, S) \in BitmapType(total)
         /\ \A q \in 0 .. total - 1 :
              TestBitmapBit(SetBits(bm, S), q) <=> q \in S \/ TestBitmapBit(bm, q)
<1>1. DOMAIN bm = 0 .. BitmapSize(total) - 1
  BY DEF BitmapType
<1>2. SetBits(bm, S) \in BitmapType(total)
  BY <1>1 DEF SetBits, BitmapType
<1>3. ASSUME NEW q \in 0 .. total - 1
      PROVE  TestBitmapBit(SetBits(bm, S), q) <=> q \in S \/ TestBitmapBit(bm, q)
  <2>1. /\ WordOf(q) \in DOMAIN bm
        /\ BitOf(q) \in 0 .. BitsPerUint64 - 1
        /\ WordOf(q) * BitsPerUint64 + BitOf(q) = q
    BY <1>1, PageAddressing
  <2> QED
    BY <2>1 DEF SetBits, TestBitmapBit
<1> QED
  BY <1>2, <1>3

\* Clearing a set of pages clears exactly their bits.
LEMMA ClearBitsTest ==
  ASSUME NEW total \in Nat, NEW bm \in BitmapType(total), NEW S
  PROVE  /\ ClearBits(bm, S) \in BitmapType(total)
         /\ \A q \in 0 .. total - 1 :
              TestBitmapBit(ClearBits(bm, S), q) <=> q \notin S /\ TestBitmapBit(bm, q)
<1>1. DOMAIN bm = 0 .. BitmapSize(total) - 1
  BY DEF BitmapType
<1>2. ClearBits(bm, S) \in BitmapType(total)
  BY <1>1 DEF ClearBits, BitmapType
<1>3. ASSUME NEW q \in 0 .. total - 1
      PROVE  TestBitmapBit(ClearBits(bm, S), q) <=> q \notin S /\ TestBitmapBit(bm, q)
  <2>1. /\ WordOf(q) \in DOMAIN bm
        /\ BitOf(q) \in 0 .. BitsPerUint64 - 1
        /\ WordOf(q) * BitsPerUint64 + BitOf(q) = q
    BY <1>1, PageAddressing
  <2> QED
    BY <2>1 DEF ClearBits, TestBitmapBit
<1> QED
  BY <1>2, <1>3

\* The bitmap built for a set of pages has exactly their bits.
LEMMA BitmapWithTest ==
  ASSUME NEW total \in Nat, NEW S
  PROVE  /\ BitmapWith(total, S) \in BitmapType(total)
         /\ \A q \in 0 .. total - 1 : TestBitmapBit(BitmapWith(total, S), q) <=> q \in S
<1>1. BitmapWith(total, S) \in BitmapType(total)
  BY DEF BitmapWith, BitmapType
<1>2. ASSUME NEW q \in 0 .. total - 1
      PROVE  TestBitmapBit(BitmapWith(total, S), q) <=> q \in S
  <2>1. /\ WordOf(q) \in 0 .. BitmapSize(total) - 1
        /\ BitOf(q) \in 0 .. BitsPerUint64 - 1
        /\ WordOf(q) * BitsPerUint64 + BitOf(q) = q
    BY PageAddressing
  <2> QED
    BY <2>1 DEF BitmapWith, TestBitmapBit
<1> QED
  BY <1>1, <1>2

----------------------------------------------------------------------------
(* The invariant *)

\* How the two parts of the invariant that relate the bitmap to its readers
\* survive a step that takes a set of free pages.
LEMMA TakingFreePages ==
  ASSUME PmmInv, phase = "ready", phase' = "ready",
         TotalPages' = TotalPages, Regions' = Regions,
         NEW S, S \subseteq Free,
         Used' = Used \cup S,
         lent' = lent \cup S,
         Stats' = TakenStats(Cardinality(S))
  PROVE  StatsMatchBitmap' /\ EveryUsedPageAccountedFor' /\ lent' \subseteq Pages'
         /\ Stats' \in [UsedPages : Nat, FreePages : Nat]
<1>1. TotalPages \in Nat /\ lent \subseteq Pages /\ Stats \in [UsedPages : Nat, FreePages : Nat]
  BY DEF PmmInv, TypeOK
<1>2. Pages' = Pages
  BY DEF Pages
<1>3. IsFiniteSet(Pages)
  BY <1>1, FS_Interval DEF Pages
<1>4. IsFiniteSet(Used) /\ IsFiniteSet(Free) /\ IsFiniteSet(S)
  BY <1>3, FS_Subset DEF Used, Free
<1>5. /\ Cardinality(Used) \in Nat /\ Cardinality(Free) \in Nat /\ Cardinality(S) \in Nat
      /\ Cardinality(S) <= Cardinality(Free)
  BY <1>4, FS_CardinalityType, FS_Subset
<1>6. Cardinality(Used \cup S) = Cardinality(Used) + Cardinality(S)
  <2>1. Used \cap S = {}
    BY DEF Free
  <2>2. Cardinality(Used \cup S) = Cardinality(Used) + Cardinality(S) - Cardinality(Used \cap S)
    BY <1>4, FS_Union
  <2> QED
    BY <1>5, <2>1, <2>2, FS_EmptySet
<1>7. Free' = Free \ S
  BY <1>2 DEF Free
<1>8. Cardinality(Free \ S) = Cardinality(Free) - Cardinality(S)
  <2>1. Free \cap S = S
    OBVIOUS
  <2> QED
    BY <1>4, <2>1, FS_Difference
<1>9. Stats.FreePages = Cardinality(Free) /\ Stats.UsedPages = Cardinality(Used)
  BY DEF PmmInv, StatsMatchBitmap
<1>10. StatsMatchBitmap' /\ Stats' \in [UsedPages : Nat, FreePages : Nat]
  BY <1>1, <1>5, <1>6, <1>7, <1>8, <1>9 DEF StatsMatchBitmap, TakenStats
<1>11. EveryUsedPageAccountedFor'
  <2> DEFINE kept == (Pages \ UsablePages(Regions, TotalPages)) \cup BitmapPages(Regions, TotalPages)
  <2>1. Used = kept \cup lent /\ kept \cap lent = {}
    BY DEF PmmInv, EveryUsedPageAccountedFor
  <2>2. kept' = kept
    BY <1>2
  <2> HIDE DEF kept
  <2>3. Used' = kept' \cup lent' /\ kept' \cap lent' = {}
    BY <2>1, <2>2 DEF Free
  <2> QED
    BY <2>3 DEF EveryUsedPageAccountedFor, kept
<1>12. lent' \subseteq Pages'
  BY <1>1, <1>2 DEF Free
<1> QED
  BY <1>10, <1>11, <1>12

\* And a step that gives back a set of lent pages.
LEMMA GivingLentPages ==
  ASSUME PmmInv, phase = "ready", phase' = "ready",
         TotalPages' = TotalPages, Regions' = Regions,
         NEW S, S \subseteq lent,
         Used' = Used \ S,
         lent' = lent \ S,
         Stats' = GivenStats(Cardinality(S))
  PROVE  StatsMatchBitmap' /\ EveryUsedPageAccountedFor' /\ lent' \subseteq Pages'
         /\ Stats' \in [UsedPages : Nat, FreePages : Nat]
<1>1. TotalPages \in Nat /\ lent \subseteq Pages /\ Stats \in [UsedPages : Nat, FreePages : Nat]
  BY DEF PmmInv, TypeOK
<1>2. Pages' = Pages
  BY DEF Pages
<1> DEFINE kept == (Pages \ UsablePages(Regions, TotalPages)) \cup BitmapPages(Regions, TotalPages)
<1>3. Used = kept \cup lent /\ kept \cap lent = {}
  BY DEF PmmInv, EveryUsedPageAccountedFor
<1>4. kept' = kept
  BY <1>2
<1> HIDE DEF kept
<1>5. IsFiniteSet(Pages)
  BY <1>1, FS_Interval DEF Pages
<1>6. IsFiniteSet(Used) /\ IsFiniteSet(Free) /\ IsFiniteSet(S)
  BY <1>1, <1>5, FS_Subset DEF Used, Free
<1>7. /\ Cardinality(Used) \in Nat /\ Cardinality(Free) \in Nat /\ Cardinality(S) \in Nat
      /\ Cardinality(S) <= Cardinality(Used)
  BY <1>3, <1>6, FS_CardinalityType, FS_Subset
<1>8. Cardinality(Used \ S) = Cardinality(Used) - Cardinality(S)
  <2>1. Used \cap S = S
    BY <1>3
  <2> QED
    BY <1>6, <2>1, FS_Difference, ZenonT(40)
<1>9. Free' = Free \cup S
  BY <1>1, <1>2 DEF Free
<1>10. Cardinality(Free \cup S) = Cardinality(Free) + Cardinality(S)
  <2>1. Free \cap S = {}
    BY <1>3 DEF Free
  <2>2. Cardinality(Free \cup S) = Cardinality(Free) + Cardinality(S) - Cardinality(Free \cap S)
    BY <1>6, FS_Union
  <2> QED
    BY <1>7, <2>1, <2>2, FS_EmptySet
<1>11. Stats.FreePages = Cardinality(Free) /\ Stats.UsedPages = Cardinality(Used)
  BY DEF PmmInv, StatsMatchBitmap
<1>12. StatsMatchBitmap' /\ Stats' \in [UsedPages : Nat, FreePages : Nat]
  BY <1>1, <1>7, <1>8, <1>9, <1>10, <1>11 DEF StatsMatchBitmap, GivenStats
<1>13. EveryUsedPageAccountedFor'
  <2>1. Used' = kept' \cup lent' /\ kept' \cap lent' = {}
    BY <1>3, <1>4
  <2> QED
    BY <2>1 DEF EveryUsedPageAccountedFor, kept
<1> QED
  BY <1>1, <1>2, <1>12, <1>13

\* The part of the invariant that the two lemmas leave.
LEMMA ReadyStepType ==
  ASSUME PmmInv, phase = "ready", phase' = "ready",
         TotalPages' = TotalPages, Regions' = Regions,
         Bitmap' \in BitmapType(TotalPages),
         LastAllocHint' \in 0 .. TotalPages,
         Stats' \in [UsedPages : Nat, FreePages : Nat],
         lent' \subseteq Pages',
         last' \in [op : Ops, arg : Nat, ret : Nat],
         StatsMatchBitmap', EveryUsedPageAccountedFor'
  PROVE  PmmInv'
<1>1. TypeOK'
  BY DEF PmmInv, TypeOK, BitmapType
<1>2. RegionsObeyProtocol' /\ BootState'
  BY DEF PmmInv, RegionsObeyProtocol, BootState
<1> QED
  BY <1>1, <1>2 DEF PmmInv

\* Page 0 is never free: no usable region holds it.
LEMMA PageZeroKept ==
  ASSUME PmmInv, phase = "ready"
  PROVE  0 \notin Free
<1> SUFFICES ASSUME 0 \in Pages PROVE 0 \in Used
  BY DEF Free
<1>1. 0 \notin UsablePages(Regions, TotalPages)
  <2> SUFFICES ASSUME NEW i \in DOMAIN Regions, Regions[i].type = "usable",
                      0 \in EntryPages(Regions[i])
               PROVE  FALSE
    BY DEF UsablePages
  <2>1. Regions[i] \in MapEntry
    BY DEF PmmInv, TypeOK
  <2> DEFINE b == Regions[i].base
  <2>2. b \in Nat /\ b > 0 /\ b % PageSize = 0
    BY <2>1 DEF PmmInv, RegionsObeyProtocol, MapEntry
  <2> HIDE DEF b
  <2>3. PageSize \in Nat \ {0}
    BY PmmAssumption
  <2>4. b \div PageSize \in Nat /\ b = (PageSize * (b \div PageSize)) + (b % PageSize)
    BY <2>2, <2>3, DivModNat
  <2>5. b \div PageSize # 0
    BY <2>2, <2>3, <2>4
  <2>6. Regions[i].length \div PageSize \in Nat
    BY <2>1, <2>3, DivModNat DEF MapEntry
  <2> QED
    BY <2>4, <2>5, <2>6 DEF EntryPages, b
<1> QED
  BY <1>1 DEF PmmInv, EveryUsedPageAccountedFor

\* FindFreePage finds a free page whenever there is one, and nothing else.
LEMMA FindFreePageFinds ==
  ASSUME PmmInv, phase = "ready"
  PROVE  IF Free = {} THEN FindFreePage = NotFound
                      ELSE FindFreePage \in Free
<1>1. TotalPages \in Nat /\ LastAllocHint \in 0 .. TotalPages
  BY DEF PmmInv, TypeOK
<1> DEFINE forward == {p \in LastAllocHint .. TotalPages - 1 : ~ TestBitmapBit(Bitmap, p)}
           wrapped == {p \in 0 .. LastAllocHint - 1 : ~ TestBitmapBit(Bitmap, p)}
<1>2. Free = forward \cup wrapped
  BY <1>1 DEF Free, Used, Pages
<1>3. forward \subseteq Nat /\ wrapped \subseteq Nat
  BY <1>1
<1>4. FindFreePage = IF forward # {} THEN Min(forward)
                     ELSE IF wrapped # {} THEN Min(wrapped) ELSE NotFound
  BY DEF FindFreePage
<1> HIDE DEF forward, wrapped
<1>5. forward # {} => Min(forward) \in forward
  BY <1>3, MinNat
<1>6. wrapped # {} => Min(wrapped) \in wrapped
  BY <1>3, MinNat
<1> QED
  BY <1>2, <1>4, <1>5, <1>6

\* What a page's address is: not 0, and its quotient is the page.
LEMMA PageAddress ==
  ASSUME NEW p \in Nat
  PROVE  /\ p * PageSize \in Nat
         /\ (p * PageSize) \div PageSize = p
         /\ p # 0 => p * PageSize # 0
<1>1. PageSize \in Nat \ {0} /\ 0 \in 0 .. PageSize - 1
  BY PmmAssumption
<1>2. p * PageSize + 0 \in Nat /\ (p * PageSize + 0) \div PageSize = p
  BY <1>1, DivModUnique
<1>3. p * PageSize \in Int /\ p * PageSize + 0 = p * PageSize
  BY <1>1
<1>4. (p * PageSize) \div PageSize = p
  BY <1>2, <1>3, Zenon
<1>5. 0 \div PageSize = 0
  BY <1>1
<1> QED
  BY <1>2, <1>3, <1>4, <1>5

\* What a single-page allocation does, from AllocPage and from AllocPages(1).
LEMMA TakeOnePageStep ==
  ASSUME PmmInv, phase = "ready", NEW op \in Ops, TakeOnePage(op),
         UNCHANGED <<phase, Regions, TotalPages>>
  PROVE  /\ PmmInv'
         /\ last'.ret = 0 => Free = {}
         /\ last'.ret # 0 =>
              LET run == (last'.ret \div PageSize) .. (last'.ret \div PageSize + 1 - 1)
              IN  run \subseteq Free /\ Used' = Used \cup run
         /\ last'.op = op /\ last'.arg = 1
<1>1. /\ TotalPages \in Nat /\ Bitmap \in BitmapType(TotalPages)
      /\ LastAllocHint \in 0 .. TotalPages
  BY DEF PmmInv, TypeOK, BitmapType
<1> DEFINE p == FindFreePage
<1>2. CASE p = NotFound
  <2>1. /\ last' = [op |-> op, arg |-> 1, ret |-> 0] /\ lent' = lent
        /\ UNCHANGED <<Bitmap, LastAllocHint, Stats>>
    BY <1>2 DEF TakeOnePage, Return
  <2>2. Free = {}
    BY <1>2, FindFreePageFinds DEF NotFound, Free, Pages
  <2>3. Used' = Used /\ Pages' = Pages /\ Free' = Free
    BY <2>1 DEF Used, Pages, Free, TestBitmapBit
  <2>4. StatsMatchBitmap' /\ EveryUsedPageAccountedFor'
    BY <2>1, <2>3 DEF PmmInv, StatsMatchBitmap, EveryUsedPageAccountedFor
  <2>5. PmmInv'
    BY <2>1, <2>3, <2>4, <1>1, ReadyStepType DEF PmmInv, TypeOK
  <2> QED
    BY <2>1, <2>2, <2>5
<1>3. CASE p # NotFound
  <2>1. p \in Free
    BY <1>3, FindFreePageFinds
  <2>2. p \in Pages /\ p \in Nat /\ p # 0 /\ p < TotalPages
    BY <1>1, <2>1, PageZeroKept DEF Free, Pages
  <2>3. /\ LastAllocHint' = p + 1
        /\ Bitmap' = SetBitmapBit(Bitmap, p)
        /\ Stats' = TakenStats(1)
        /\ Return(op, 1, p * PageSize)
    BY <1>3 DEF TakeOnePage
  <2> HIDE DEF p
  <2>4. /\ p * PageSize \in Nat /\ p * PageSize # 0
        /\ (p * PageSize) \div PageSize = p
    BY <2>2, PageAddress
  <2>5. (p .. (p + 1 - 1)) = {p}
    BY <2>2
  <2>6. /\ last' = [op |-> op, arg |-> 1, ret |-> p * PageSize]
        /\ lent' = lent \cup {p}
    BY <2>3, <2>4, <2>5 DEF Return
  <2>7. /\ Bitmap' \in BitmapType(TotalPages)
        /\ \A q \in Pages : TestBitmapBit(Bitmap, q)' <=> q = p \/ TestBitmapBit(Bitmap, q)
    BY <1>1, <2>2, <2>3, SetBitTest DEF Pages, TestBitmapBit
  <2>8. Used' = Used \cup {p}
    BY <2>2, <2>7 DEF Used, Pages
  <2>9. Cardinality({p}) = 1
    BY FS_Singleton
  <2>10. /\ StatsMatchBitmap' /\ EveryUsedPageAccountedFor' /\ lent' \subseteq Pages'
         /\ Stats' \in [UsedPages : Nat, FreePages : Nat]
    BY <2>1, <2>3, <2>6, <2>8, <2>9, TakingFreePages
  <2>11. PmmInv'
    BY <1>1, <2>2, <2>3, <2>4, <2>6, <2>7, <2>10, ReadyStepType
  <2> QED
    BY <2>1, <2>4, <2>5, <2>6, <2>8, <2>11
<1> QED
  BY <1>2, <1>3

\* What a successful request for several pages does.
LEMMA TakeRunStep ==
  ASSUME PmmInv, phase = "ready", NEW n \in Nat, n > 1, FreeRuns(n) # {},
         NEW s, s = Min(FreeRuns(n)),
         Bitmap' = SetBits(Bitmap, s .. s + n - 1),
         Return("AllocPages", n, s * PageSize),
         Stats' = TakenStats(n),
         UNCHANGED <<phase, Regions, TotalPages, LastAllocHint>>
  PROVE  /\ PmmInv'
         /\ last'.ret # 0 /\ last'.op = "AllocPages" /\ last'.arg = n
         /\ LET run == (last'.ret \div PageSize) .. (last'.ret \div PageSize + n - 1)
            IN  run \subseteq Free /\ Used' = Used \cup run
<1>1. /\ TotalPages \in Nat /\ Bitmap \in BitmapType(TotalPages)
      /\ LastAllocHint \in 0 .. TotalPages
  BY DEF PmmInv, TypeOK, BitmapType
<1>2. s \in FreeRuns(n)
  <2>1. FreeRuns(n) \subseteq Nat
    BY <1>1 DEF FreeRuns
  <2> QED
    BY <2>1, MinNat
<1>3. s \in Nat /\ s + n <= TotalPages
  BY <1>1, <1>2 DEF FreeRuns
<1> DEFINE run == s .. s + n - 1
<1>4. run \subseteq Free
  <2>1. \A q \in run : ~ TestBitmapBit(Bitmap, q)
    BY <1>2 DEF FreeRuns
  <2>2. run \subseteq Pages
    BY <1>1, <1>3 DEF Pages
  <2> QED
    BY <2>1, <2>2 DEF Free, Used
<1>5. s # 0
  BY <1>3, <1>4, PageZeroKept
<1>6. /\ s * PageSize \in Nat /\ s * PageSize # 0
      /\ (s * PageSize) \div PageSize = s
  BY <1>3, <1>5, PageAddress
<1>7. /\ last' = [op |-> "AllocPages", arg |-> n, ret |-> s * PageSize]
      /\ lent' = lent \cup run
  BY <1>6 DEF Return
<1>8. Cardinality(run) = n
  <2>1. s \in Int /\ s + n - 1 \in Int /\ s <= s + n - 1
    BY <1>3
  <2>2. Cardinality(run) = (s + n - 1) - s + 1
    BY <2>1, FS_Interval
  <2> QED
    BY <1>3, <2>2
<1> HIDE DEF run
<1>9. /\ Bitmap' \in BitmapType(TotalPages)
      /\ \A q \in Pages : TestBitmapBit(Bitmap, q)' <=> q \in run \/ TestBitmapBit(Bitmap, q)
  BY <1>1, SetBitsTest DEF Pages, TestBitmapBit, run
<1>10. Used' = Used \cup run
  BY <1>4, <1>9 DEF Used, Pages, Free
<1>11. /\ StatsMatchBitmap' /\ EveryUsedPageAccountedFor' /\ lent' \subseteq Pages'
       /\ Stats' \in [UsedPages : Nat, FreePages : Nat]
  BY <1>4, <1>7, <1>8, <1>10, TakingFreePages
<1>12. last' \in [op : Ops, arg : Nat, ret : Nat]
  <2> DEFINE addr == s * PageSize
  <2>1. addr \in Nat /\ last' = [op |-> "AllocPages", arg |-> n, ret |-> addr]
    BY <1>6, <1>7
  <2> HIDE DEF addr
  <2> QED
    BY <2>1 DEF Ops
<1>13. LastAllocHint' \in 0 .. TotalPages
  BY <1>1
<1>14. PmmInv'
  BY <1>9, <1>11, <1>12, <1>13, ReadyStepType
<1> QED
  BY <1>4, <1>6, <1>7, <1>10, <1>14 DEF run

\* A call that fails, or frees nothing, leaves the manager as it was.
LEMMA NothingTaken ==
  ASSUME PmmInv, phase = "ready",
         UNCHANGED <<phase, Regions, TotalPages, Bitmap, LastAllocHint, Stats, lent>>,
         last' \in [op : Ops, arg : Nat, ret : Nat]
  PROVE  PmmInv'
<1>1. Used' = Used /\ Pages' = Pages /\ Free' = Free
  BY DEF Used, Pages, Free, TestBitmapBit
<1>2. StatsMatchBitmap' /\ EveryUsedPageAccountedFor'
  BY <1>1 DEF PmmInv, StatsMatchBitmap, EveryUsedPageAccountedFor
<1> QED
  BY <1>1, <1>2, ReadyStepType DEF PmmInv, TypeOK, BitmapType

\* Pages given back.
LEMMA GiveBackStep ==
  ASSUME PmmInv, phase = "ready", NEW S, S \subseteq lent,
         Bitmap' \in BitmapType(TotalPages),
         \A q \in Pages : TestBitmapBit(Bitmap, q)' <=> q \notin S /\ TestBitmapBit(Bitmap, q),
         Stats' = GivenStats(Cardinality(S)), lent' = lent \ S,
         UNCHANGED <<phase, Regions, TotalPages, LastAllocHint>>,
         last' \in [op : Ops, arg : Nat, ret : Nat]
  PROVE  PmmInv'
<1>1. Used' = Used \ S
  BY DEF Used, Pages
<1>2. /\ StatsMatchBitmap' /\ EveryUsedPageAccountedFor' /\ lent' \subseteq Pages'
      /\ Stats' \in [UsedPages : Nat, FreePages : Nat]
  BY <1>1, GivingLentPages
<1> QED
  BY <1>2, ReadyStepType DEF PmmInv, TypeOK

----------------------------------------------------------------------------
(* Boot *)

\* Rounding up never passes a multiple of the page size.
LEMMA CeilingBelowMultiple ==
  ASSUME NEW w \in Nat \ {0}, NEW n \in Nat, NEW m \in Nat, n <= m, m % w = 0
  PROVE  /\ (n + w - 1) \div w \in Nat
         /\ (n + w - 1) \div w <= m \div w
  OBVIOUS

\* The last page of an aligned range lies below the page count of a memory
\* that reaches its end.
LEMMA QuotientsAdd ==
  ASSUME NEW w \in Nat \ {0}, NEW a \in Nat, NEW b \in Nat, a % w = 0, b % w = 0,
         NEW c \in Nat, a + b <= c
  PROVE  /\ (c + w - 1) \div w \in Nat
         /\ a \div w + b \div w <= (c + w - 1) \div w
  OBVIOUS

\* The regions kept are entries of the reported map.
LEMMA ParsedRegions ==
  ASSUME NEW map \in MemoryMaps
  PROVE  LET regions == ParseMemoryMap(map)
         IN  /\ regions \in Seq(MapEntry)
             /\ \A i \in DOMAIN regions :
                  /\ regions[i] \in MapEntry
                  /\ regions[i].base + regions[i].length <= MaxAddress
                  /\ regions[i].type = "usable" =>
                       /\ regions[i].base % PageSize = 0
                       /\ regions[i].length % PageSize = 0
                       /\ regions[i].base > 0
<1> DEFINE k == IF Len(map) < MaxMemoryRegions THEN Len(map) ELSE MaxMemoryRegions
           regions == ParseMemoryMap(map)
<1>1. map \in Seq(MapEntry) /\ MaxMemoryRegions \in Nat
  BY PmmAssumption
<1>2. k \in Nat /\ k <= Len(map) /\ Len(map) \in Nat
  BY <1>1
<1>3. regions = SubSeq(map, 1, k)
  BY DEF ParseMemoryMap
<1> HIDE DEF k, regions
<1>4. \A i \in 1 .. k : map[i] \in MapEntry
  BY <1>1, <1>2
<1>5. /\ regions \in Seq(MapEntry) /\ Len(regions) = k
      /\ \A i \in 1 .. k : regions[i] = map[i]
  BY <1>2, <1>3, <1>4, SubSeqProperties
<1>6. DOMAIN regions = 1 .. k
  BY <1>5
<1>7. ASSUME NEW i \in 1 .. k
      PROVE  /\ map[i].base + map[i].length <= MaxAddress
             /\ map[i].type = "usable" =>
                  /\ map[i].base % PageSize = 0
                  /\ map[i].length % PageSize = 0
                  /\ map[i].base > 0
  <2>1. i \in 1 .. Len(map)
    BY <1>2
  <2> QED
    BY <2>1, PmmAssumption
<1>8. ASSUME NEW i \in 1 .. k
      PROVE  /\ regions[i] \in MapEntry
             /\ regions[i].base + regions[i].length <= MaxAddress
             /\ regions[i].type = "usable" =>
                  /\ regions[i].base % PageSize = 0
                  /\ regions[i].length % PageSize = 0
                  /\ regions[i].base > 0
  BY <1>4, <1>5, <1>7
<1> QED
  BY <1>5, <1>6, <1>8 DEF regions

\* HighestAddr bounds the end of every region.
LEMMA HighestAddrBounds ==
  ASSUME NEW regions,
         \A i \in DOMAIN regions : /\ regions[i] \in MapEntry
                                   /\ regions[i].base + regions[i].length <= MaxAddress
  PROVE  /\ HighestAddr(regions) \in Nat
         /\ \A i \in DOMAIN regions : regions[i].base + regions[i].length <= HighestAddr(regions)
<1> DEFINE S == {0} \cup {regions[i].base + regions[i].length : i \in DOMAIN regions}
<1>1. \A i \in DOMAIN regions : regions[i].base + regions[i].length \in Nat
  BY DEF MapEntry
<1>2. MaxAddress \in Nat
  BY PmmAssumption
<1>3. S \subseteq Nat /\ S # {} /\ \A x \in S : x <= MaxAddress
  BY <1>1, <1>2
<1>4. Max(S) \in S /\ \A x \in S : x <= Max(S)
  BY <1>2, <1>3, MaxNat
<1>5. HighestAddr(regions) = Max(S)
  BY DEF HighestAddr
<1> QED
  BY <1>3, <1>4, <1>5

\* The bitmap's own frames are pages: the region that holds it ends in
\* memory.
LEMMA BitmapFitsInMemory ==
  ASSUME NEW map \in MemoryMaps, NEW regions, regions = ParseMemoryMap(map),
         NEW total, total = PagesFor(HighestAddr(regions)),
         BitmapPhys(regions, BitmapSize(total) * WordBytes) # 0
  PROVE  total \in Nat /\ BitmapPages(regions, total) \subseteq 0 .. total - 1
<1>1. PageSize \in Nat \ {0} /\ WordBytes \in Nat \ {0} /\ BitsPerUint64 \in Nat \ {0}
  BY PmmAssumption DEF BitsPerUint64
<1>2. \A i \in DOMAIN regions :
         /\ regions[i] \in MapEntry
         /\ regions[i].base + regions[i].length <= MaxAddress
         /\ regions[i].type = "usable" =>
              regions[i].base % PageSize = 0 /\ regions[i].length % PageSize = 0
  BY ParsedRegions
<1>3. /\ HighestAddr(regions) \in Nat
      /\ \A i \in DOMAIN regions : regions[i].base + regions[i].length <= HighestAddr(regions)
  BY <1>2, HighestAddrBounds
<1>4. total \in Nat
  BY <1>1, <1>3, DivModNat DEF PagesFor
<1> DEFINE bytes == BitmapSize(total) * WordBytes
           fits  == {i \in DOMAIN regions : regions[i].type = "usable" /\ regions[i].length >= bytes}
<1>5. BitmapSize(total) \in Nat
  BY <1>1, <1>4, DivModNat, SMTT(30) DEF BitmapSize
<1>6. bytes \in Nat
  BY <1>1, <1>5
<1>7. fits # {} /\ BitmapPhys(regions, bytes) = regions[Min(fits)].base
  BY DEF BitmapPhys
<1>8. fits \subseteq Nat
  <2>1. regions \in Seq(MapEntry)
    BY ParsedRegions
  <2> QED
    BY <2>1
<1>9. Min(fits) \in fits
  BY <1>7, <1>8, MinNat
<1> DEFINE b == regions[Min(fits)].base
           l == regions[Min(fits)].length
<1>10. /\ b \in Nat /\ l \in Nat /\ b % PageSize = 0 /\ l % PageSize = 0
       /\ bytes <= l /\ b + l <= HighestAddr(regions)
  BY <1>2, <1>3, <1>6, <1>9 DEF MapEntry
<1>11. BitmapPages(regions, total) = (b \div PageSize) .. (b \div PageSize + PagesFor(bytes) - 1)
  BY <1>7 DEF BitmapPages
<1> HIDE DEF b, l, bytes, fits
<1>12. PagesFor(bytes) \in Nat /\ PagesFor(bytes) <= l \div PageSize
  BY <1>1, <1>6, <1>10, CeilingBelowMultiple DEF PagesFor
<1>13. b \div PageSize + l \div PageSize <= total
  BY <1>1, <1>3, <1>10, QuotientsAdd DEF PagesFor
<1>14. b \div PageSize \in Nat /\ l \div PageSize \in Nat
  BY <1>1, <1>10, DivModNat
<1> QED
  BY <1>4, <1>11, <1>12, <1>13, <1>14

\* InitializePmm establishes the invariant from any memory map.
LEMMA InitializePmmStep ==
  ASSUME PmmInv, NEW map \in MemoryMaps, InitializePmm(map)
  PROVE  PmmInv'
<1> DEFINE regions == ParseMemoryMap(map)
           total   == PagesFor(HighestAddr(regions))
           marked  == MarkMemoryRegions(regions, total)
           bitmap  == BitmapWith(total, marked)
           used    == {p \in 0 .. total - 1 : TestBitmapBit(bitmap, p)}
<1>1. /\ regions \in Seq(MapEntry)
      /\ \A i \in DOMAIN regions :
           /\ regions[i] \in MapEntry
           /\ regions[i].base + regions[i].length <= MaxAddress
           /\ regions[i].type = "usable" =>
                /\ regions[i].base % PageSize = 0
                /\ regions[i].length % PageSize = 0
                /\ regions[i].base > 0
  BY ParsedRegions
<1>2. HighestAddr(regions) \in Nat
  BY <1>1, HighestAddrBounds
<1>3. total \in Nat
  BY <1>2, PmmAssumption, DivModNat DEF PagesFor
<1>4. /\ Regions' = regions /\ TotalPages' = total /\ phase = "off"
      /\ last' = [op |-> "InitializePmm", arg |-> 0, ret |-> 0]
      /\ LastAllocHint' = LastAllocHint /\ lent' = lent
  BY DEF InitializePmm
<1>5. LastAllocHint' = 0 /\ lent' = {}
  BY <1>4 DEF PmmInv, BootState
<1>6. RegionsObeyProtocol' /\ BootState'
  BY <1>1, <1>4, <1>5 DEF RegionsObeyProtocol, BootState
<1>7. /\ Regions' \in Seq(MapEntry) /\ TotalPages' \in Nat
      /\ LastAllocHint' \in 0 .. TotalPages' /\ lent' \subseteq Pages'
      /\ last' \in [op : Ops, arg : Nat, ret : Nat]
  BY <1>1, <1>3, <1>4, <1>5 DEF Ops
<1>8. CASE phase' = "failed"
  <2>1. Stats' = Stats
    BY <1>8 DEF InitializePmm
  <2>2. TypeOK'
    BY <1>7, <1>8, <2>1 DEF PmmInv, TypeOK
  <2>3. StatsMatchBitmap' /\ EveryUsedPageAccountedFor'
    BY <1>8 DEF StatsMatchBitmap, EveryUsedPageAccountedFor
  <2> QED
    BY <1>6, <2>2, <2>3 DEF PmmInv
<1>9. CASE phase' = "ready"
  <2>1. /\ BitmapPhys(regions, BitmapSize(total) * WordBytes) # 0
        /\ Bitmap' = bitmap
        /\ Stats' = [UsedPages |-> Cardinality(used),
                     FreePages |-> Cardinality((0 .. total - 1) \ used)]
    BY <1>9 DEF InitializePmm
  <2>2. BitmapPages(regions, total) \subseteq 0 .. total - 1
    BY <2>1, BitmapFitsInMemory
  <2> HIDE DEF regions, total, marked
  <2>3. /\ bitmap \in BitmapType(total)
        /\ \A q \in 0 .. total - 1 : TestBitmapBit(bitmap, q) <=> q \in marked
    BY <1>3, BitmapWithTest
  <2> HIDE DEF bitmap
  <2>4. Pages' = 0 .. total - 1 /\ Used' = used
    BY <1>4, <2>1 DEF Pages, Used, TestBitmapBit
  <2>5. used = marked
    BY <2>2, <2>3 DEF marked, MarkMemoryRegions
  <2>6. /\ Cardinality(used) \in Nat
        /\ Cardinality((0 .. total - 1) \ used) \in Nat
    <3>1. IsFiniteSet(0 .. total - 1)
      BY <1>3, FS_Interval
    <3>2. IsFiniteSet(used) /\ IsFiniteSet((0 .. total - 1) \ used)
      BY <3>1, FS_Subset
    <3> QED
      BY <3>2, FS_CardinalityType
  <2> HIDE DEF used
  <2>7. Stats' \in [UsedPages : Nat, FreePages : Nat]
    BY <2>1, <2>6
  <2>8. TypeOK'
    BY <1>4, <1>7, <1>9, <2>1, <2>3, <2>7 DEF TypeOK, BitmapType
  <2>9. StatsMatchBitmap'
    BY <2>1, <2>4 DEF StatsMatchBitmap, Free
  <2>10. EveryUsedPageAccountedFor'
    BY <1>4, <1>5, <2>4, <2>5 DEF EveryUsedPageAccountedFor, marked, MarkMemoryRegions
  <2> QED
    BY <1>6, <2>8, <2>9, <2>10 DEF PmmInv
<1> QED
  BY <1>8, <1>9 DEF InitializePmm

----------------------------------------------------------------------------
(* Theorems *)

\* The zeroed manager satisfies the invariant.
LEMMA InitEstablishesInv == Init => PmmInv
<1> SUFFICES ASSUME Init PROVE PmmInv
  OBVIOUS
<1>1. TypeOK
  BY DEF Init, TypeOK, Pages, Ops
<1>2. BootState /\ RegionsObeyProtocol /\ StatsMatchBitmap /\ EveryUsedPageAccountedFor
  BY DEF Init, BootState, RegionsObeyProtocol, StatsMatchBitmap, EveryUsedPageAccountedFor
<1> QED
  BY <1>1, <1>2 DEF PmmInv

\* Every operation of the manager preserves the invariant.
LEMMA NextPreservesInv == PmmInv /\ [Next]_vars => PmmInv'
<1> SUFFICES ASSUME PmmInv, [Next]_vars PROVE PmmInv'
  OBVIOUS
<1>1. ASSUME NEW map \in MemoryMaps, InitializePmm(map)
      PROVE  PmmInv'
  BY <1>1, InitializePmmStep
<1>2. CASE AllocPage
  BY <1>2, TakeOnePageStep DEF AllocPage, Ops
<1>3. ASSUME NEW n \in 0 .. MaxCount, AllocPages(n)
      PROVE  PmmInv'
  <2>1. phase = "ready" /\ UNCHANGED <<phase, Regions, TotalPages>> /\ n \in Nat
    BY <1>3, PmmAssumption DEF AllocPages
  <2>2. CASE TakeOnePage("AllocPages")
    BY <2>1, <2>2, TakeOnePageStep DEF Ops
  <2>3. CASE /\ Return("AllocPages", n, 0)
             /\ UNCHANGED <<Bitmap, LastAllocHint, Stats>>
    BY <2>1, <2>3, NothingTaken DEF Return, Ops
  <2>4. CASE /\ n > 1 /\ FreeRuns(n) # {}
             /\ LET s == Min(FreeRuns(n))
                IN  /\ Bitmap' = SetBits(Bitmap, s .. s + n - 1)
                    /\ Return("AllocPages", n, s * PageSize)
             /\ Stats' = TakenStats(n)
             /\ UNCHANGED LastAllocHint
    BY <2>1, <2>4, TakeRunStep
  <2> QED
    BY <1>3, <2>2, <2>3, <2>4 DEF AllocPages
<1>4. ASSUME NEW addr \in Addresses, FreePage(addr)
      PROVE  PmmInv'
  <2>1. /\ phase = "ready" /\ UNCHANGED <<phase, Regions, TotalPages, LastAllocHint>>
        /\ FreedPage(addr) \subseteq lent
        /\ last' = [op |-> "FreePage", arg |-> 1, ret |-> addr]
    BY <1>4 DEF FreePage
  <2>2. TotalPages \in Nat /\ PageSize \in Nat /\ Bitmap \in BitmapType(TotalPages)
        /\ lent \subseteq Pages
    BY <2>1, PmmAssumption DEF PmmInv, TypeOK, BitmapType
  <2>3. addr \in Nat
    BY <2>2 DEF Addresses
  <2>4. last' \in [op : Ops, arg : Nat, ret : Nat]
    BY <2>1, <2>3 DEF Ops
  <2>5. CASE FreedPage(addr) = {}
    BY <1>4, <2>1, <2>4, <2>5, NothingTaken DEF FreePage
  <2>6. CASE FreedPage(addr) # {}
    <3> DEFINE p == addr \div PageSize
    <3>1. FreedPage(addr) = {p}
      BY <2>6 DEF FreedPage
    <3>2. /\ Bitmap' = ClearBitmapBit(Bitmap, p)
          /\ Stats' = GivenStats(1) /\ lent' = lent \ {p}
      BY <1>4, <2>6, <3>1 DEF FreePage
    <3> HIDE DEF p
    <3>3. p \in 0 .. TotalPages - 1
      BY <2>1, <2>2, <3>1 DEF Pages
    <3>4. /\ Bitmap' \in BitmapType(TotalPages)
          /\ \A q \in Pages : TestBitmapBit(Bitmap, q)' <=> q # p /\ TestBitmapBit(Bitmap, q)
      BY <2>2, <3>2, <3>3, ClearBitTest DEF Pages, TestBitmapBit
    <3>5. Cardinality({p}) = 1
      BY FS_Singleton
    <3> QED
      BY <2>1, <2>4, <3>1, <3>2, <3>4, <3>5, GiveBackStep
  <2> QED
    BY <2>5, <2>6
<1>5. ASSUME NEW addr \in Addresses, NEW n \in 0 .. MaxCount, FreePages(addr, n)
      PROVE  PmmInv'
  <2> DEFINE freed == FreedPages(addr, n)
  <2>1. /\ phase = "ready" /\ UNCHANGED <<phase, Regions, TotalPages, LastAllocHint>>
        /\ freed \subseteq lent
        /\ Bitmap' = ClearBits(Bitmap, freed)
        /\ Stats' = GivenStats(Cardinality(freed))
        /\ lent' = lent \ freed
        /\ last' = [op |-> "FreePages", arg |-> n, ret |-> addr]
    BY <1>5 DEF FreePages
  <2> HIDE DEF freed
  <2>2. TotalPages \in Nat /\ PageSize \in Nat /\ Bitmap \in BitmapType(TotalPages) /\ n \in Nat
    BY <2>1, PmmAssumption DEF PmmInv, TypeOK, BitmapType
  <2>3. addr \in Nat
    BY <2>2 DEF Addresses
  <2>4. last' \in [op : Ops, arg : Nat, ret : Nat]
    BY <2>1, <2>2, <2>3 DEF Ops
  <2>5. /\ Bitmap' \in BitmapType(TotalPages)
        /\ \A q \in Pages : TestBitmapBit(Bitmap, q)' <=> q \notin freed /\ TestBitmapBit(Bitmap, q)
    BY <2>1, <2>2, ClearBitsTest DEF Pages, TestBitmapBit
  <2> QED
    BY <2>1, <2>4, <2>5, GiveBackStep
<1>6. CASE UNCHANGED vars
  BY <1>6 DEF vars, PmmInv, TypeOK, BootState, RegionsObeyProtocol, StatsMatchBitmap,
      EveryUsedPageAccountedFor, Pages, Used, Free, TestBitmapBit
<1> QED
  BY <1>1, <1>2, <1>3, <1>4, <1>5, <1>6 DEF Next

\* The inductive invariant holds of every behaviour, whatever the page size,
\* the word size, the memory map and the sequence of calls.
THEOREM PmmInvariant == Spec => []PmmInv
  BY InitEstablishesInv, NextPreservesInv, PTL DEF Spec

\* The state of the manager is well formed: the bitmap has the words its
\* pages need, the hint stays within it and no counter goes below 0.
THEOREM PmmTypeCorrect == Spec => []TypeOK
<1>1. PmmInv => TypeOK
  BY DEF PmmInv
<1> QED
  BY <1>1, PmmInvariant, PTL

\* Pmm.Stats, which AllocPages trusts, always agrees with the bitmap.
THEOREM PmmStatsCorrect == Spec => []StatsMatchBitmap
<1>1. PmmInv => StatsMatchBitmap
  BY DEF PmmInv
<1> QED
  BY <1>1, PmmInvariant, PTL

\* Every used page is kept back or lent, never both: AllocPage and
\* AllocPages hand out no page twice and no reserved page, and FreePage and
\* FreePages lose none.
THEOREM PmmPagesAccountedFor == Spec => []EveryUsedPageAccountedFor
<1>1. PmmInv => EveryUsedPageAccountedFor
  BY DEF PmmInv
<1> QED
  BY <1>1, PmmInvariant, PTL

\* What an allocation does, as an action: a failure means that no run is
\* free, a success takes exactly a free run.
LEMMA AllocationStep ==
  ASSUME PmmInv, Next
  PROVE  /\ last'.op \in {"AllocPage", "AllocPages"} /\ last'.ret = 0 /\ last'.arg > 0
              => \A s \in Pages : ~ (s .. s + last'.arg - 1 \subseteq Free)
         /\ last'.op \in {"AllocPage", "AllocPages"} /\ last'.ret # 0
              => LET run == (last'.ret \div PageSize) .. (last'.ret \div PageSize + last'.arg - 1)
                 IN  run \subseteq Free /\ Used' = Used \cup run
<1> DEFINE Fails == \A s \in Pages : ~ (s .. s + last'.arg - 1 \subseteq Free)
           Run   == (last'.ret \div PageSize) .. (last'.ret \div PageSize + last'.arg - 1)
           Goal  == /\ last'.ret = 0 /\ last'.arg > 0 => Fails
                    /\ last'.ret # 0 => Run \subseteq Free /\ Used' = Used \cup Run
<1>1. ASSUME NEW op \in Ops, phase = "ready", TakeOnePage(op),
             UNCHANGED <<phase, Regions, TotalPages>>
      PROVE  Goal
  <2>1. /\ last'.ret = 0 => Free = {}
        /\ last'.ret # 0 =>
             LET run == (last'.ret \div PageSize) .. (last'.ret \div PageSize + 1 - 1)
             IN  run \subseteq Free /\ Used' = Used \cup run
        /\ last'.arg = 1
    BY <1>1, TakeOnePageStep
  <2>2. TotalPages \in Nat
    BY DEF PmmInv, TypeOK
  <2>3. \A s \in Pages : s \in s .. s + 1 - 1
    BY <2>2 DEF Pages
  <2>4. last'.ret = 0 => Fails
    BY <2>1, <2>3
  <2> QED
    BY <2>1, <2>4
<1>2. CASE AllocPage
  BY <1>1, <1>2 DEF AllocPage, Ops
<1>3. ASSUME NEW n \in 0 .. MaxCount, AllocPages(n)
      PROVE  Goal
  <2>1. phase = "ready" /\ UNCHANGED <<phase, Regions, TotalPages>> /\ n \in Nat
    BY <1>3, PmmAssumption DEF AllocPages
  <2>2. CASE TakeOnePage("AllocPages")
    BY <1>1, <2>1, <2>2 DEF Ops
  <2>3. CASE /\ n = 0 \/ (n > 1 /\ (n > Stats.FreePages \/ FreeRuns(n) = {}))
             /\ Return("AllocPages", n, 0)
    <3>1. last'.ret = 0 /\ last'.arg = n
      BY <2>3 DEF Return
    <3>2. TotalPages \in Nat /\ Stats.FreePages = Cardinality(Free)
      BY <2>1 DEF PmmInv, TypeOK, StatsMatchBitmap
    <3>3. ASSUME NEW s \in Pages, n > 1, s .. s + n - 1 \subseteq Free
          PROVE  FALSE
      <4>1. s \in Nat
        BY <3>2 DEF Pages
      <4>2. FreeRuns(n) # {}
        <5>1. s + n - 1 \in Pages
          BY <3>3, <4>1, <2>1 DEF Free
        <5>2. s \in 0 .. TotalPages - n
          BY <2>1, <3>2, <4>1, <5>1 DEF Pages
        <5>3. \A p \in s .. s + n - 1 : ~ TestBitmapBit(Bitmap, p)
          BY <3>3 DEF Free, Used
        <5>4. s \in FreeRuns(n)
          BY <5>2, <5>3 DEF FreeRuns
        <5> QED
          BY <5>4
      <4>3. n <= Cardinality(Free)
        <5>1. IsFiniteSet(Free)
          <6>1. IsFiniteSet(Pages)
            BY <3>2, FS_Interval DEF Pages
          <6> QED
            BY <6>1, FS_Subset DEF Free
        <5>2. Cardinality(s .. s + n - 1) <= Cardinality(Free)
          BY <3>3, <5>1, FS_Subset
        <5>3. s \in Int /\ s + n - 1 \in Int /\ s <= s + n - 1
          BY <2>1, <3>3, <4>1
        <5>4. Cardinality(s .. s + n - 1) = (s + n - 1) - s + 1
          BY <5>3, FS_Interval
        <5>5. (s + n - 1) - s + 1 = n
          BY <2>1, <4>1
        <5> QED
          BY <5>2, <5>4, <5>5
      <4>4. Cardinality(Free) \in Nat
        BY <2>1, <3>2 DEF PmmInv, TypeOK
      <4> QED
        BY <2>1, <2>3, <3>2, <3>3, <4>2, <4>3, <4>4
    <3>4. n > 0 => n > 1
      BY <2>1, <2>3
    <3>5. n > 1 => \A s \in Pages : ~ (s .. s + n - 1 \subseteq Free)
      BY <3>3
    <3> QED
      BY <3>1, <3>4, <3>5
  <2>4. CASE /\ n > 1 /\ FreeRuns(n) # {}
             /\ LET s == Min(FreeRuns(n))
                IN  /\ Bitmap' = SetBits(Bitmap, s .. s + n - 1)
                    /\ Return("AllocPages", n, s * PageSize)
             /\ Stats' = TakenStats(n)
             /\ UNCHANGED LastAllocHint
    BY <2>1, <2>4, TakeRunStep
  <2> QED
    BY <1>3, <2>2, <2>3, <2>4 DEF AllocPages
<1>4. ASSUME NEW map \in MemoryMaps, InitializePmm(map)
      PROVE  last'.op \notin {"AllocPage", "AllocPages"}
  BY <1>4 DEF InitializePmm
<1>5. ASSUME NEW addr \in Addresses, NEW n \in 0 .. MaxCount, FreePage(addr) \/ FreePages(addr, n)
      PROVE  last'.op \notin {"AllocPage", "AllocPages"}
  BY <1>5 DEF FreePage, FreePages
<1>6. 0 \in 0 .. MaxCount
  BY PmmAssumption
<1> QED
  BY <1>2, <1>3, <1>4, <1>5, <1>6 DEF Next

\* AllocPage and AllocPages fail only when there is no free run: the early
\* return on the counter and the wrap of the hint lose nothing.
THEOREM PmmFailsOnlyWhenNoRun == Spec => FailsOnlyWhenNoRun
<1>1. PmmInv /\ [Next]_vars =>
        [ last'.op \in {"AllocPage", "AllocPages"} /\ last'.ret = 0 /\ last'.arg > 0
            => \A s \in Pages : ~ (s .. s + last'.arg - 1 \subseteq Free) ]_vars
  BY AllocationStep
<1> QED
  BY <1>1, PmmInvariant, PTL DEF Spec, FailsOnlyWhenNoRun

\* A successful allocation takes exactly the run it returns, and that run was
\* free.
THEOREM PmmAllocReturnsFreshRun == Spec => AllocReturnsFreshRun
<1>1. PmmInv /\ [Next]_vars =>
        [ last'.op \in {"AllocPage", "AllocPages"} /\ last'.ret # 0
            => LET run == (last'.ret \div PageSize) .. (last'.ret \div PageSize + last'.arg - 1)
               IN  run \subseteq Free /\ Used' = Used \cup run ]_vars
  BY AllocationStep
<1> QED
  BY <1>1, PmmInvariant, PTL DEF Spec, AllocReturnsFreshRun

----------------------------------------------------------------------------
(* Free lists *)

\* An object put in front of a free list (KHeap.c:137-140).
LEMMA PushedList ==
  ASSUME NEW S, NEW s \in Seq(S), NEW e \in S
  PROVE  /\ Cons(e, s) \in Seq(S)
         /\ Len(Cons(e, s)) = Len(s) + 1
         /\ Range(Cons(e, s)) = Range(s) \cup {e}
         /\ IsInjective(s) /\ e \notin Range(s) => IsInjective(Cons(e, s))
<1> DEFINE t == Cons(e, s)
<1>1. t \in Seq(S) /\ Len(t) = Len(s) + 1
  BY DEF Cons
<1>2. \A i \in 1 .. Len(s) + 1 : t[i] = IF i = 1 THEN e ELSE s[i - 1]
  BY DEF Cons
<1>3. DOMAIN t = 1 .. Len(s) + 1 /\ DOMAIN s = 1 .. Len(s) /\ Len(s) \in Nat
  BY <1>1
<1> HIDE DEF t
<1>4. Range(t) = Range(s) \cup {e}
  <2>1. ASSUME NEW x \in Range(t) PROVE x \in Range(s) \cup {e}
    BY <1>2, <1>3 DEF Range
  <2>2. ASSUME NEW x \in Range(s) PROVE x \in Range(t)
    <3>1. PICK i \in 1 .. Len(s) : x = s[i]
      BY <1>3 DEF Range
    <3>2. i + 1 \in 1 .. Len(s) + 1 /\ t[i + 1] = s[i]
      BY <1>2, <1>3
    <3> QED BY <1>3, <3>1, <3>2 DEF Range
  <2>3. e \in Range(t)
    <3>1. 1 \in DOMAIN t /\ t[1] = e
      BY <1>2, <1>3
    <3> QED BY <3>1 DEF Range
  <2> QED BY <2>1, <2>2, <2>3
<1>5. ASSUME IsInjective(s), e \notin Range(s) PROVE IsInjective(t)
  <2> SUFFICES ASSUME NEW i \in 1 .. Len(s) + 1, NEW j \in 1 .. Len(s) + 1, t[i] = t[j]
               PROVE  i = j
    BY <1>3 DEF IsInjective
  <2>1. \A k \in 1 .. Len(s) + 1 : k # 1 => k - 1 \in DOMAIN s /\ t[k] = s[k - 1] /\ t[k] # e
    BY <1>2, <1>3, <1>5 DEF Range
  <2>2. t[1] = e
    BY <1>2, <1>3
  <2>3. CASE i = 1 \/ j = 1
    BY <2>1, <2>2, <2>3
  <2>4. CASE i # 1 /\ j # 1
    <3>1. i - 1 = j - 1
      BY <2>1, <2>4, <1>5 DEF IsInjective
    <3> QED BY <3>1, <1>3
  <2> QED BY <2>3, <2>4
<1> QED BY <1>1, <1>4, <1>5 DEF t

\* The first object leaves a free list (KHeap.c:93-100).
LEMMA PoppedList ==
  ASSUME NEW S, NEW s \in Seq(S), Len(s) > 0, IsInjective(s)
  PROVE  /\ Head(s) \in S /\ Head(s) \in Range(s)
         /\ Tail(s) \in Seq(S)
         /\ Len(Tail(s)) = Len(s) - 1
         /\ Range(Tail(s)) = Range(s) \ {Head(s)}
         /\ IsInjective(Tail(s))
<1> DEFINE t == Tail(s)
<1>1. DOMAIN s = 1 .. Len(s) /\ Len(s) \in Nat /\ Head(s) = s[1] /\ 1 \in DOMAIN s
  OBVIOUS
<1>2. t \in Seq(S) /\ Len(t) = Len(s) - 1 /\ DOMAIN t = 1 .. Len(s) - 1
  OBVIOUS
<1>3. \A i \in 1 .. Len(s) - 1 : t[i] = s[i + 1]
  OBVIOUS
<1> HIDE DEF t
<1>4. Head(s) \in S /\ Head(s) \in Range(s)
  BY <1>1 DEF Range
<1>5. ASSUME NEW x \in Range(t) PROVE x \in Range(s) \ {Head(s)}
  <2>1. PICK i \in 1 .. Len(s) - 1 : x = s[i + 1]
    BY <1>2, <1>3 DEF Range
  <2>2. i + 1 \in DOMAIN s /\ i + 1 # 1
    BY <1>1
  <2>3. s[i + 1] # s[1]
    BY <1>1, <2>2 DEF IsInjective
  <2> QED BY <1>1, <2>1, <2>2, <2>3 DEF Range
<1>6. ASSUME NEW x \in Range(s), x # Head(s) PROVE x \in Range(t)
  <2>1. PICK i \in 1 .. Len(s) : x = s[i]
    BY <1>1 DEF Range
  <2>2. i # 1
    BY <1>1, <1>6, <2>1
  <2>3. i - 1 \in 1 .. Len(s) - 1 /\ t[i - 1] = s[i]
    BY <1>1, <1>3, <2>1, <2>2
  <2> QED BY <1>2, <2>1, <2>3 DEF Range
<1>7. IsInjective(t)
  <2> SUFFICES ASSUME NEW i \in 1 .. Len(s) - 1, NEW j \in 1 .. Len(s) - 1, t[i] = t[j]
               PROVE  i = j
    BY <1>2 DEF IsInjective
  <2>1. i + 1 \in DOMAIN s /\ j + 1 \in DOMAIN s /\ s[i + 1] = s[j + 1]
    BY <1>1, <1>3
  <2>2. i + 1 = j + 1
    BY <2>1 DEF IsInjective
  <2> QED BY <2>2
<1> QED BY <1>2, <1>4, <1>5, <1>6, <1>7 DEF t

----------------------------------------------------------------------------
(* The layout of a slab *)

\* The sizes of the caches fit behind the header of a page.
LEMMA SizeFits ==
  ASSUME NEW size \in Range(SlabSizes)
  PROVE  size \in Nat \ {0} /\ SlabHeader \in Nat \ {0} /\ PageSize \in Nat \ {0}
         /\ SlabHeader + size <= PageSize
<1>1. PICK i \in DOMAIN SlabSizes : size = SlabSizes[i]
  BY DEF Range
<1>2. Len(SlabSizes) \in DOMAIN SlabSizes /\ i <= Len(SlabSizes) /\ i \in Nat
  BY KHeapAssumption
<1>3. SlabSizes[i] \in Nat \ {0} /\ LargestObject \in Nat \ {0}
  BY <1>2, KHeapAssumption DEF LargestObject
<1>4. SlabSizes[i] <= LargestObject
  <2>1. CASE i = Len(SlabSizes)
    BY <2>1, <1>3 DEF LargestObject
  <2>2. CASE i # Len(SlabSizes)
    <3>1. i < Len(SlabSizes)
      BY <1>2, <2>2, KHeapAssumption
    <3>2. SlabSizes[i] < LargestObject
      BY <1>2, <3>1, KHeapAssumption DEF LargestObject
    <3> QED BY <3>2, <1>3
  <2> QED BY <2>1, <2>2
<1>5. SlabHeader \in Nat \ {0} /\ SlabHeader + LargestObject <= PageSize /\ PageSize \in Nat \ {0}
  BY KHeapAssumption, PmmAssumption
<1> QED
  BY <1>1, <1>3, <1>4, <1>5

\* Multiples of a size that are not the same are that size apart.
LEMMA MultiplesApart ==
  ASSUME NEW w \in Nat, NEW i \in Nat, NEW j \in Nat, i < j
  PROVE  i * w + w <= j * w
<1>1. i * w + w = (i + 1) * w
  OBVIOUS
<1>2. i + 1 <= j /\ j - (i + 1) \in Nat
  OBVIOUS
<1>3. j * w = (i + 1) * w + (j - (i + 1)) * w
  OBVIOUS
<1>4. (j - (i + 1)) * w \in Nat
  BY <1>2
<1>5. (i + 1) * w \in Nat
  OBVIOUS
<1> QED
  BY <1>1, <1>3, <1>4, <1>5

\* The objects of a slab lie in its page, behind the header, and do not
\* overlap (Slab.c:37-50).
LEMMA SlabGeometry ==
  ASSUME NEW p \in Nat, NEW size \in Range(SlabSizes)
  PROVE  /\ ObjectCount(size) \in Nat \ {0}
         /\ \A i \in 0 .. ObjectCount(size) - 1 :
              /\ ObjectAddr(p, size, i) \in Nat
              /\ p * PageSize + SlabHeader <= ObjectAddr(p, size, i)
              /\ ObjectAddr(p, size, i) + size <= p * PageSize + PageSize
              /\ ObjectAddr(p, size, i) \div PageSize = p
         /\ \A i, j \in 0 .. ObjectCount(size) - 1 :
              i < j => ObjectAddr(p, size, i) + size <= ObjectAddr(p, size, j)
<1> DEFINE k == ObjectCount(size)
           room == PageSize - SlabHeader
<1>1. /\ size \in Nat \ {0} /\ SlabHeader \in Nat \ {0} /\ PageSize \in Nat \ {0}
      /\ room \in Nat /\ size <= room /\ room = PageSize - SlabHeader
  BY SizeFits
<1>2. k = room \div size
  BY DEF ObjectCount
<1> HIDE DEF k, room
<1>3. k \in Nat /\ room % size \in 0 .. size - 1 /\ room = (size * k) + (room % size)
  BY <1>1, <1>2, DivModNat
<1>4. k # 0
  BY <1>1, <1>3
<1>5. k * size <= room /\ k * size \in Nat
  <2>1. k * size = size * k
    BY <1>1, <1>3
  <2>2. size * k \in Nat
    BY <1>1, <1>3
  <2> QED BY <1>1, <1>3, <2>1, <2>2
<1>6. p * PageSize \in Nat
  BY <1>1
<1>7. ASSUME NEW i \in 0 .. k - 1
      PROVE  /\ i * size \in Nat /\ i * size + size <= room
             /\ ObjectAddr(p, size, i) = p * PageSize + (SlabHeader + i * size)
  <2>1. i \in Nat /\ i < k
    BY <1>3
  <2>2. i * size + size <= k * size
    BY <1>1, <1>3, <2>1, MultiplesApart
  <2>3. i * size \in Nat
    BY <1>1, <2>1
  <2>4. p * PageSize + SlabHeader + i * size = p * PageSize + (SlabHeader + i * size)
    BY <1>1, <1>6, <2>3
  <2> QED BY <1>1, <1>5, <2>2, <2>3, <2>4 DEF ObjectAddr
<1>8. ASSUME NEW i \in 0 .. k - 1
      PROVE  /\ ObjectAddr(p, size, i) \in Nat
             /\ p * PageSize + SlabHeader <= ObjectAddr(p, size, i)
             /\ ObjectAddr(p, size, i) + size <= p * PageSize + PageSize
             /\ ObjectAddr(p, size, i) \div PageSize = p
  <2> DEFINE r == SlabHeader + i * size
  <2>1. r \in 0 .. PageSize - 1 /\ r + size <= PageSize /\ SlabHeader <= r
    BY <1>1, <1>7
  <2>2. ObjectAddr(p, size, i) = p * PageSize + r
    BY <1>7
  <2> HIDE DEF r
  <2>3. (p * PageSize + r) \div PageSize = p
    BY <1>1, <2>1, DivModUnique
  <2>4. p * PageSize + r \in Nat /\ p * PageSize + SlabHeader <= p * PageSize + r
        /\ p * PageSize + r + size <= p * PageSize + PageSize
    BY <1>1, <1>6, <2>1
  <2> QED BY <2>2, <2>3, <2>4
<1>9. ASSUME NEW i \in 0 .. k - 1, NEW j \in 0 .. k - 1, i < j
      PROVE  ObjectAddr(p, size, i) + size <= ObjectAddr(p, size, j)
  <2>1. i * size + size <= j * size
    BY <1>1, <1>3, <1>9, MultiplesApart
  <2>2. /\ ObjectAddr(p, size, i) = p * PageSize + (SlabHeader + i * size)
        /\ ObjectAddr(p, size, j) = p * PageSize + (SlabHeader + j * size)
        /\ i * size \in Nat /\ j * size \in Nat
    BY <1>7
  <2> QED BY <1>1, <1>6, <2>1, <2>2
<1> QED
  BY <1>3, <1>4, <1>8, <1>9 DEF k

\* A new slab: all of its objects are in the free list, once (Slab.c:36-54).
LEMMA FreshSlab ==
  ASSUME NEW p \in Nat, NEW size \in Range(SlabSizes), NEW s, s = AllocateSlab(p, size)
  PROVE  /\ s \in Headers /\ s.ObjectSize = size
         /\ s.FreeCount = Len(s.FreeList) /\ Len(s.FreeList) > 0
         /\ IsInjective(s.FreeList)
         /\ Range(s.FreeList) = SlabObjects(p, size)
<1> DEFINE k == ObjectCount(size)
           f == [i \in 1 .. k |-> ObjectAddr(p, size, k - i)]
<1>1. k \in Nat \ {0}
  BY SlabGeometry
<1>2. s.ObjectSize = size /\ s.FreeCount = k /\ s.FreeList = f
      /\ s = [ObjectSize |-> size, FreeCount |-> k, FreeList |-> f]
  BY DEF AllocateSlab
<1>3. \A i \in 1 .. k : k - i \in 0 .. k - 1
  BY <1>1
<1>4. \A i \in 1 .. k : ObjectAddr(p, size, k - i) \in Nat
  BY <1>3, SlabGeometry
<1>5. f \in [1 .. k -> Nat]
  BY <1>4
<1>6. f \in Seq(Nat) /\ Len(f) = k
  BY <1>1, <1>5
<1>7. \A i \in 1 .. k : f[i] = ObjectAddr(p, size, k - i)
  OBVIOUS
<1>8. DOMAIN f = 1 .. k
  OBVIOUS
<1>9. SlabObjects(p, size) = {ObjectAddr(p, size, i) : i \in 0 .. k - 1}
  BY DEF SlabObjects
<1>0. \A i, j \in 0 .. k - 1 : i # j => ObjectAddr(p, size, i) # ObjectAddr(p, size, j)
  <2> SUFFICES ASSUME NEW i \in 0 .. k - 1, NEW j \in 0 .. k - 1, i < j
               PROVE  ObjectAddr(p, size, i) # ObjectAddr(p, size, j)
    BY <1>1
  <2>1. ObjectAddr(p, size, i) + size <= ObjectAddr(p, size, j)
        /\ ObjectAddr(p, size, i) \in Nat /\ ObjectAddr(p, size, j) \in Nat
    BY SlabGeometry
  <2> QED BY <2>1, SizeFits
<1> HIDE DEF k, f
<1>a. IsInjective(f)
  <2> SUFFICES ASSUME NEW i \in 1 .. k, NEW j \in 1 .. k, f[i] = f[j] PROVE i = j
    BY <1>8 DEF IsInjective
  <2>1. k - i \in 0 .. k - 1 /\ k - j \in 0 .. k - 1
    BY <1>3
  <2>2. ObjectAddr(p, size, k - i) = ObjectAddr(p, size, k - j)
    BY <1>7
  <2>3. k - i = k - j
    BY <1>0, <2>1, <2>2
  <2> QED BY <2>3, <1>1
<1>b. Range(f) = SlabObjects(p, size)
  <2>1. ASSUME NEW x \in Range(f) PROVE x \in SlabObjects(p, size)
    BY <1>3, <1>7, <1>8, <1>9 DEF Range
  <2>2. ASSUME NEW i \in 0 .. k - 1 PROVE ObjectAddr(p, size, i) \in Range(f)
    <3>1. k - i \in 1 .. k /\ k - (k - i) = i
      BY <1>1
    <3>2. f[k - i] = ObjectAddr(p, size, i)
      BY <1>7, <3>1
    <3> QED BY <1>8, <3>1, <3>2 DEF Range
  <2> QED BY <1>9, <2>1, <2>2
<1>c. s \in Headers
  BY <1>1, <1>2, <1>6 DEF Headers
<1> QED
  BY <1>1, <1>2, <1>6, <1>a, <1>b, <1>c

----------------------------------------------------------------------------
(* Blocks and pages *)

\* A byte between two others is in a page between theirs.
LEMMA QuotientMonotone ==
  ASSUME NEW w \in Nat \ {0}, NEW x \in Nat, NEW y \in Nat, x <= y
  PROVE  x \div w \in Nat /\ y \div w \in Nat /\ x \div w <= y \div w
  OBVIOUS

\* A byte of page p is in page p.
LEMMA ByteOfPage ==
  ASSUME NEW p \in Nat, NEW x \in Nat, p * PageSize <= x, x < p * PageSize + PageSize
  PROVE  x \div PageSize = p
<1>1. PageSize \in Nat \ {0} /\ p * PageSize \in Nat
  BY PmmAssumption
<1> DEFINE r == x - p * PageSize
<1>2. r \in 0 .. PageSize - 1 /\ p * PageSize + r = x
  BY <1>1
<1> HIDE DEF r
<1>3. (p * PageSize + r) \div PageSize = p
  BY <1>1, <1>2, DivModUnique
<1> QED BY <1>2, <1>3

\* The bytes of a block are in the pages of the block.
LEMMA BytesInPages ==
  ASSUME NEW b \in [addr : Nat, bytes : Nat], NEW x \in Bytes(b)
  PROVE  x \in Nat /\ x \div PageSize \in PagesOf(b.addr, b.bytes)
<1>1. b.addr \in Nat /\ b.bytes \in Nat /\ x \in b.addr .. b.addr + b.bytes - 1
  BY DEF Bytes
<1>2. x \in Nat /\ b.addr <= x /\ x <= b.addr + b.bytes - 1 /\ b.addr + b.bytes - 1 \in Nat
  BY <1>1
<1>3. PageSize \in Nat \ {0}
  BY PmmAssumption
<1>4. /\ b.addr \div PageSize \in Nat /\ x \div PageSize \in Nat
      /\ b.addr \div PageSize <= x \div PageSize
      /\ (b.addr + b.bytes - 1) \div PageSize \in Nat
      /\ x \div PageSize <= (b.addr + b.bytes - 1) \div PageSize
  BY <1>1, <1>2, <1>3, QuotientMonotone
<1> QED BY <1>2, <1>4 DEF PagesOf

\* What the invariant says of one block: where it is, and in which pages.
LEMMA BlockFacts ==
  ASSUME HeapInv, heapPages \subseteq Nat, NEW b \in live
  PROVE  /\ b \in [addr : Nat, bytes : Nat]
         /\ b.addr \div PageSize \in PagesOf(b.addr, b.bytes)
         /\ PagesOf(b.addr, b.bytes) \subseteq heapPages
         /\ IsLarge(b) => PagesOf(b.addr, b.bytes) \cap DOMAIN slabs = {}
         /\ ~ IsLarge(b) =>
              /\ slabs[b.addr \div PageSize].ObjectSize \in Range(SlabSizes)
              /\ b.bytes = slabs[b.addr \div PageSize].ObjectSize
              /\ b.addr \in SlabObjects(b.addr \div PageSize, b.bytes)
              /\ PagesOf(b.addr, b.bytes) = {b.addr \div PageSize}
<1> DEFINE p == b.addr \div PageSize
<1>1. b \in [addr : Nat, bytes : Nat] /\ PageSize \in Nat \ {0}
  BY PmmAssumption DEF HeapInv, HeapShape
<1>2. b.addr \in Nat /\ b.bytes \in Nat /\ p \in Nat
  BY <1>1, QuotientMonotone
<1>3. CASE IsLarge(b)
  <2>1. PagesOf(b.addr, b.bytes) \subseteq heapPages \ DOMAIN slabs /\ b.bytes > 0
    BY <1>3 DEF HeapInv, BlocksInPlace
  <2>2. b.addr \in Bytes(b)
    BY <1>2, <2>1 DEF Bytes
  <2>3. p \in PagesOf(b.addr, b.bytes)
    BY <1>1, <2>2, BytesInPages
  <2> QED BY <1>1, <1>3, <2>1, <2>3
<1>4. CASE ~ IsLarge(b)
  <2>1. p \in DOMAIN slabs
    BY <1>4 DEF IsLarge
  <2>2. slabs[p] \in Headers /\ p \in heapPages
    BY <2>1 DEF HeapInv, HeapShape
  <2>3. slabs[p].ObjectSize \in Range(SlabSizes)
    BY <2>2 DEF Headers
  <2>4. b.bytes = slabs[p].ObjectSize
    BY <1>4 DEF HeapInv, BlocksInPlace
  <2>5. b.addr \in Held(p)
    BY DEF Held
  <2>6. b.addr \in SlabObjects(p, b.bytes)
    BY <2>1, <2>4, <2>5 DEF HeapInv, ObjectsAccountedFor, Consistent
  <2>7. /\ p * PageSize + SlabHeader <= b.addr
        /\ b.addr + b.bytes <= p * PageSize + PageSize
    BY <1>2, <2>3, <2>4, <2>6, SlabGeometry DEF SlabObjects
  <2>8. b.bytes \in Nat \ {0} /\ SlabHeader \in Nat
    BY <2>3, <2>4, SizeFits
  <2> HIDE DEF p
  <2>9. p * PageSize \in Nat
    BY <1>1, <1>2
  <2>10. /\ b.addr + b.bytes - 1 \in Nat
         /\ p * PageSize <= b.addr + b.bytes - 1
         /\ b.addr + b.bytes - 1 < p * PageSize + PageSize
    BY <1>1, <1>2, <2>7, <2>8, <2>9
  <2>11. (b.addr + b.bytes - 1) \div PageSize = p
    BY <1>2, <2>10, ByteOfPage
  <2>12. PagesOf(b.addr, b.bytes) = p .. p
    BY <2>11 DEF PagesOf, p
  <2>13. PagesOf(b.addr, b.bytes) = {p}
    BY <1>2, <2>12
  <2> QED BY <1>1, <1>4, <2>2, <2>3, <2>4, <2>6, <2>13 DEF p
<1> QED BY <1>3, <1>4

\* The invariant keeps blocks apart from each other and from the headers.
LEMMA InvImpliesDisjoint ==
  ASSUME HeapInv, heapPages \subseteq Nat
  PROVE  BlocksDisjoint
<1>0. PageSize \in Nat \ {0} /\ heapPages \subseteq lent /\ DOMAIN slabs \subseteq heapPages
  BY PmmAssumption DEF HeapInv, HeapShape
<1>1. ASSUME NEW b \in live PROVE PagesOf(b.addr, b.bytes) \subseteq heapPages \cap lent
  BY <1>0, BlockFacts
<1>2. ASSUME NEW b \in live, NEW c \in live, b # c, NEW x \in Bytes(b), x \in Bytes(c)
      PROVE  FALSE
  <2>1. /\ x \div PageSize \in PagesOf(b.addr, b.bytes)
        /\ x \div PageSize \in PagesOf(c.addr, c.bytes)
    BY <1>2, BlockFacts, BytesInPages
  <2>2. CASE IsLarge(b) /\ IsLarge(c)
    BY <1>2, <2>1, <2>2 DEF HeapInv, LargeBlocksDisjoint
  <2>3. CASE IsLarge(b) /\ ~ IsLarge(c)
    BY <2>1, <2>3, BlockFacts DEF IsLarge
  <2>4. CASE ~ IsLarge(b) /\ IsLarge(c)
    BY <2>1, <2>4, BlockFacts DEF IsLarge
  <2>5. CASE ~ IsLarge(b) /\ ~ IsLarge(c)
    <3> DEFINE p == b.addr \div PageSize
               size == slabs[p].ObjectSize
    <3>1. p = c.addr \div PageSize
      BY <2>1, <2>5, BlockFacts
    <3>2. /\ b.bytes = size /\ c.bytes = size /\ size \in Range(SlabSizes)
          /\ b.addr \in SlabObjects(p, size) /\ c.addr \in SlabObjects(p, size)
          /\ b \in [addr : Nat, bytes : Nat] /\ c \in [addr : Nat, bytes : Nat]
      BY <2>5, <3>1, BlockFacts
    <3>3. b.addr # c.addr
      BY <1>2, <3>2
    <3>4. p \in Nat
      BY <1>0, <3>2, QuotientMonotone
    <3> HIDE DEF p, size
    <3>5. PICK i \in 0 .. ObjectCount(size) - 1 : b.addr = ObjectAddr(p, size, i)
      BY <3>2 DEF SlabObjects
    <3>6. PICK j \in 0 .. ObjectCount(size) - 1 : c.addr = ObjectAddr(p, size, j)
      BY <3>2 DEF SlabObjects
    <3>7. i < j \/ j < i
      BY <3>3, <3>5, <3>6
    <3>8. b.addr + size <= c.addr \/ c.addr + size <= b.addr
      BY <3>2, <3>4, <3>5, <3>6, <3>7, SlabGeometry
    <3>9. size \in Nat /\ b.addr \in Nat /\ c.addr \in Nat
      BY <3>2, SizeFits
    <3> QED BY <1>2, <3>2, <3>8, <3>9 DEF Bytes
  <2> QED BY <2>2, <2>3, <2>4, <2>5
<1>3. ASSUME NEW b \in live, NEW q \in DOMAIN slabs, NEW x \in Bytes(b), x \in HeaderBytes(q)
      PROVE  FALSE
  <2>0. b \in [addr : Nat, bytes : Nat] /\ q \in Nat
    BY <1>0, BlockFacts
  <2>1. b \in [addr : Nat, bytes : Nat] /\ q \in Nat /\ q * PageSize \in Nat
    BY <1>0, <2>0
  <2>2. x \in Nat /\ x \div PageSize \in PagesOf(b.addr, b.bytes)
    BY <2>1, BytesInPages
  <2>3. slabs[q].ObjectSize \in Range(SlabSizes)
    BY DEF HeapInv, HeapShape, Headers
  <2>4. SlabHeader \in Nat /\ SlabHeader < PageSize
    <3>1. slabs[q].ObjectSize \in Nat \ {0} /\ SlabHeader \in Nat \ {0} /\ PageSize \in Nat \ {0}
          /\ SlabHeader + slabs[q].ObjectSize <= PageSize
      BY <2>3, SizeFits
    <3> QED BY <3>1
  <2>5. q * PageSize <= x /\ x < q * PageSize + SlabHeader
    BY <1>3, <2>1, <2>2, <2>4 DEF HeaderBytes
  <2>6. x \div PageSize = q
    BY <1>0, <2>1, <2>2, <2>4, <2>5, ByteOfPage
  <2>7. CASE IsLarge(b)
    BY <2>2, <2>6, <2>7, BlockFacts
  <2>8. CASE ~ IsLarge(b)
    <3>1. b.addr \div PageSize = q /\ b.addr \in SlabObjects(q, b.bytes) /\ b.bytes \in Range(SlabSizes)
      BY <2>2, <2>6, <2>8, BlockFacts
    <3>2. q * PageSize + SlabHeader <= b.addr
      BY <2>1, <3>1, SlabGeometry DEF SlabObjects
    <3> QED BY <2>1, <2>2, <2>4, <2>5, <3>2 DEF Bytes
  <2> QED BY <2>7, <2>8
<1> QED
  BY <1>1, <1>2, <1>3 DEF BlocksDisjoint

----------------------------------------------------------------------------
(* The steps of the heap *)

\* The callers of other pages, and of the other blocks of a page, hold what
\* they held when block b comes or goes.
LEMMA HeldAfter ==
  ASSUME NEW b \in [addr : Nat, bytes : Nat], NEW p, p = b.addr \div PageSize
  PROVE  /\ live' = live \cup {b} =>
              /\ Held(p)' = Held(p) \cup {b.addr}
              /\ \A q : q # p => Held(q)' = Held(q)
         /\ live' = live \ {b} => \A q : q # p => Held(q)' = Held(q)
  BY DEF Held

\* KMalloc hands out the first free object of a slab, an old or a new one.
LEMMA TakeObjectStep ==
  ASSUME HeapInv, heapPages \subseteq Nat,
         NEW p \in Nat, NEW s \in Headers, Consistent(p, s), s.FreeCount > 0,
         p \in DOMAIN slabs => s = slabs[p],
         p \notin DOMAIN slabs => p \notin heapPages,
         TakeObject(p, s),
         heapPages' = heapPages \cup {p}, heapPages' \subseteq lent'
  PROVE  /\ HeapShape' /\ ObjectsAccountedFor' /\ BlocksInPlace' /\ LargeBlocksDisjoint'
         /\ DOMAIN slabs' = DOMAIN slabs \cup {p}
         /\ slabs'[p].ObjectSize = s.ObjectSize
         /\ \A q \in DOMAIN slabs : slabs'[q].ObjectSize = slabs[q].ObjectSize
         /\ live' # live
<1> DEFINE a == Head(s.FreeList)
           size == s.ObjectSize
           nb == [addr |-> a, bytes |-> size]
<1>1. size \in Range(SlabSizes) /\ s.FreeList \in Seq(Nat) /\ s.FreeCount \in Nat
  BY DEF Headers
<1>2. size \in Nat \ {0}
  BY <1>1, SizeFits
<1>3. /\ a \in Nat /\ a \in Range(s.FreeList)
      /\ Tail(s.FreeList) \in Seq(Nat) /\ Len(Tail(s.FreeList)) = Len(s.FreeList) - 1
      /\ Range(Tail(s.FreeList)) = Range(s.FreeList) \ {a}
      /\ IsInjective(Tail(s.FreeList))
  BY <1>1, PoppedList DEF Consistent
<1>4. a \in SlabObjects(p, size) /\ a \notin Held(p)
  BY <1>3 DEF Consistent
<1>5. a \div PageSize = p
  <2> HIDE DEF a, size
  <2>1. PICK i \in 0 .. ObjectCount(size) - 1 : a = ObjectAddr(p, size, i)
    BY <1>4 DEF SlabObjects
  <2> QED BY <1>1, <2>1, SlabGeometry
<1>6. nb \in [addr : Nat, bytes : Nat] /\ nb.addr = a /\ nb.bytes = size /\ live' = live \cup {nb}
  BY <1>2, <1>3 DEF TakeObject, Block
<1>7. /\ slabs' = [q \in DOMAIN slabs \cup {p} |-> IF q = p THEN Pop(s) ELSE slabs[q]]
      /\ DOMAIN slabs' = DOMAIN slabs \cup {p}
      /\ slabs'[p] = Pop(s)
      /\ \A q \in DOMAIN slabs : q # p => slabs'[q] = slabs[q]
  BY DEF TakeObject
<1>8. /\ Pop(s) = [ObjectSize |-> size, FreeCount |-> s.FreeCount - 1, FreeList |-> Tail(s.FreeList)]
      /\ Pop(s).ObjectSize = size /\ Pop(s).FreeCount = s.FreeCount - 1
      /\ Pop(s).FreeList = Tail(s.FreeList)
  BY DEF Pop
<1>9. Pop(s) \in Headers
  BY <1>1, <1>3, <1>8 DEF Headers
<1>10. /\ Held(p)' = Held(p) \cup {a}
       /\ \A q : q # p => Held(q)' = Held(q)
  BY <1>5, <1>6, HeldAfter
<1>11. nb \notin live /\ live' # live
  <2>1. nb \in live => a \in Held(p)
    BY <1>5, <1>6 DEF Held
  <2> QED BY <1>4, <1>6, <2>1
<1>12. \A q \in DOMAIN slabs : slabs'[q].ObjectSize = slabs[q].ObjectSize
  BY <1>7, <1>8
<1> HIDE DEF a, size, nb
<1>13. HeapShape'
  <2>1. DOMAIN slabs \subseteq heapPages /\ slabs \in [DOMAIN slabs -> Headers] /\ live \subseteq [addr : Nat, bytes : Nat]
    BY DEF HeapInv, HeapShape
  <2>2. slabs' \in [DOMAIN slabs' -> Headers]
    BY <1>7, <1>9, <2>1
  <2>3. DOMAIN slabs' \subseteq heapPages'
    BY <1>7, <2>1
  <2>4. live' \subseteq [addr : Nat, bytes : Nat]
    BY <1>6, <2>1
  <2> QED BY <2>2, <2>3, <2>4 DEF HeapShape
<1>14. ObjectsAccountedFor'
  <2> SUFFICES ASSUME NEW q \in DOMAIN slabs' PROVE Consistent(q, slabs[q])'
    BY DEF ObjectsAccountedFor
  <2>1. CASE q = p
    <3>1. /\ s.FreeCount = Len(s.FreeList)
          /\ Range(s.FreeList) \cup Held(p) = SlabObjects(p, size)
          /\ Range(s.FreeList) \cap Held(p) = {}
      BY DEF Consistent, size
    <3>2. Pop(s).FreeCount = Len(Pop(s).FreeList)
      BY <1>3, <1>8, <3>1
    <3>3. Range(Pop(s).FreeList) \cup Held(p)' = SlabObjects(p, size)
      BY <1>3, <1>8, <1>10, <3>1
    <3>4. Range(Pop(s).FreeList) \cap Held(p)' = {}
      BY <1>3, <1>8, <1>10, <3>1
    <3>5. IsInjective(Pop(s).FreeList)
      BY <1>3, <1>8
    <3>6. Pop(s).ObjectSize = size
      BY <1>8
    <3> QED BY <1>7, <2>1, <3>2, <3>3, <3>4, <3>5, <3>6 DEF Consistent
  <2>2. CASE q # p
    <3>1. q \in DOMAIN slabs /\ slabs'[q] = slabs[q] /\ Held(q)' = Held(q)
      BY <1>7, <1>10, <2>2
    <3>2. Consistent(q, slabs[q])
      BY <3>1 DEF HeapInv, ObjectsAccountedFor
    <3> QED BY <3>1, <3>2 DEF Consistent
  <2> QED BY <2>1, <2>2
<1>15. ASSUME NEW b \in live
       PROVE  /\ IsLarge(b)' <=> IsLarge(b)
              /\ IsLarge(b) => PagesOf(b.addr, b.bytes) \subseteq heapPages' \ DOMAIN slabs'
  <2>1. /\ b.addr \div PageSize \in PagesOf(b.addr, b.bytes)
        /\ PagesOf(b.addr, b.bytes) \subseteq heapPages
        /\ IsLarge(b) => PagesOf(b.addr, b.bytes) \cap DOMAIN slabs = {}
    BY BlockFacts
  <2>2. IsLarge(b) => p \notin PagesOf(b.addr, b.bytes)
    BY <2>1
  <2> QED BY <1>7, <2>1, <2>2 DEF IsLarge
<1>16. ~ IsLarge(nb)'
  BY <1>5, <1>6, <1>7 DEF IsLarge
<1>17. BlocksInPlace'
  <2> SUFFICES ASSUME NEW b \in live'
               PROVE  IF IsLarge(b)'
                      THEN /\ b.addr = (b.addr \div PageSize) * PageSize
                           /\ b.bytes > 0 /\ b.bytes = (b.bytes \div PageSize) * PageSize
                           /\ PagesOf(b.addr, b.bytes) \subseteq heapPages' \ DOMAIN slabs'
                      ELSE b.bytes = slabs'[b.addr \div PageSize].ObjectSize
    BY DEF BlocksInPlace
  <2>1. CASE b = nb
    BY <1>5, <1>6, <1>7, <1>8, <1>16, <2>1
  <2>2. CASE b # nb /\ IsLarge(b)
    <3>1. b \in live
      BY <1>6, <2>2
    <3> QED BY <1>15, <2>2, <3>1 DEF HeapInv, BlocksInPlace
  <2>3. CASE b # nb /\ ~ IsLarge(b)
    <3>1. b \in live /\ b.addr \div PageSize \in DOMAIN slabs
      BY <1>6, <2>3 DEF IsLarge
    <3>2. b.bytes = slabs[b.addr \div PageSize].ObjectSize
      BY <2>3, <3>1 DEF HeapInv, BlocksInPlace
    <3> QED BY <1>12, <1>15, <2>3, <3>1, <3>2
  <2> QED BY <2>1, <2>2, <2>3
<1>18. LargeBlocksDisjoint'
  <2> SUFFICES ASSUME NEW b \in live', NEW c \in live', IsLarge(b)', IsLarge(c)', b # c
               PROVE  PagesOf(b.addr, b.bytes) \cap PagesOf(c.addr, c.bytes) = {}
    BY DEF LargeBlocksDisjoint
  <2>1. b \in live /\ c \in live /\ IsLarge(b) /\ IsLarge(c)
    BY <1>6, <1>15, <1>16
  <2> QED BY <2>1 DEF HeapInv, LargeBlocksDisjoint
<1>19. slabs'[p].ObjectSize = s.ObjectSize
  BY <1>7, <1>8 DEF size
<1> QED
  BY <1>7, <1>11, <1>12, <1>13, <1>14, <1>17, <1>18, <1>19

\* KFree of an object puts it back in the free list of its slab.
LEMMA KFreeObjectStep ==
  ASSUME HeapInv, heapPages \subseteq Nat, NEW b \in live,
         live' = live \ {b}, KFreeObject(b)
  PROVE  HeapInv'
<1> DEFINE p == b.addr \div PageSize
           s == slabs[p]
<1>1. /\ p \in DOMAIN slabs /\ slabs' = [slabs EXCEPT ![p] = Push(@, b.addr)]
      /\ Caches' = Caches /\ heapPages' = heapPages /\ UNCHANGED vars
  BY DEF KFreeObject
<1>2. ~ IsLarge(b) /\ b \in [addr : Nat, bytes : Nat] /\ b.addr \in Nat
  BY <1>1, BlockFacts DEF IsLarge
<1>3. s \in Headers /\ Consistent(p, s)
  BY <1>1 DEF HeapInv, HeapShape, ObjectsAccountedFor
<1>4. s.ObjectSize \in Range(SlabSizes) /\ s.FreeCount \in Nat /\ s.FreeList \in Seq(Nat)
  BY <1>3 DEF Headers
<1>5. b.addr \in Held(p)
  BY DEF Held
<1>6. ASSUME NEW c \in live, c # b, c.addr \div PageSize = p PROVE c.addr # b.addr
  <2>1. ~ IsLarge(c) /\ c \in [addr : Nat, bytes : Nat]
    BY <1>1, <1>6, BlockFacts DEF IsLarge
  <2>2. c.bytes = b.bytes
    BY <1>2, <1>6, <2>1, BlockFacts
  <2> QED BY <1>2, <1>6, <2>1, <2>2
<1>7. Held(p)' = Held(p) \ {b.addr}
  BY <1>6 DEF Held
<1>8. \A q : q # p => Held(q)' = Held(q)
  BY <1>2, HeldAfter
<1> HIDE DEF p, s
<1>9. /\ Push(s, b.addr) = [ObjectSize |-> s.ObjectSize, FreeCount |-> s.FreeCount + 1,
                            FreeList |-> Cons(b.addr, s.FreeList)]
      /\ Push(s, b.addr).ObjectSize = s.ObjectSize /\ Push(s, b.addr).FreeCount = s.FreeCount + 1
      /\ Push(s, b.addr).FreeList = Cons(b.addr, s.FreeList)
  BY DEF Push
<1>10. /\ s.FreeCount = Len(s.FreeList) /\ IsInjective(s.FreeList)
       /\ Range(s.FreeList) \cup Held(p) = SlabObjects(p, s.ObjectSize)
       /\ Range(s.FreeList) \cap Held(p) = {}
  BY <1>3 DEF Consistent
<1>11. /\ Cons(b.addr, s.FreeList) \in Seq(Nat)
       /\ Len(Cons(b.addr, s.FreeList)) = Len(s.FreeList) + 1
       /\ Range(Cons(b.addr, s.FreeList)) = Range(s.FreeList) \cup {b.addr}
       /\ IsInjective(Cons(b.addr, s.FreeList))
  <2>1. b.addr \notin Range(s.FreeList)
    BY <1>5, <1>10
  <2>2. s.FreeList \in Seq(Nat) /\ IsInjective(s.FreeList) /\ b.addr \in Nat
    BY <1>2, <1>4, <1>10
  <2> DEFINE a == b.addr
             l == s.FreeList
  <2>3. a \in Nat /\ l \in Seq(Nat) /\ IsInjective(l) /\ a \notin Range(l)
    BY <2>1, <2>2
  <2> HIDE DEF a, l
  <2>4. /\ Cons(a, l) \in Seq(Nat) /\ Len(Cons(a, l)) = Len(l) + 1
        /\ Range(Cons(a, l)) = Range(l) \cup {a} /\ IsInjective(Cons(a, l))
    BY <2>3, PushedList
  <2> QED BY <2>4 DEF a, l
<1>12. Push(s, b.addr) \in Headers
  BY <1>4, <1>9, <1>11 DEF Headers
<1>13. /\ DOMAIN slabs' = DOMAIN slabs
       /\ slabs'[p] = Push(s, b.addr)
       /\ \A q \in DOMAIN slabs : q # p => slabs'[q] = slabs[q]
       /\ \A q \in DOMAIN slabs : slabs'[q].ObjectSize = slabs[q].ObjectSize
  BY <1>1, <1>9 DEF s
<1>14. HeapShape'
  <2>1. /\ heapPages \subseteq lent /\ DOMAIN slabs \subseteq heapPages
        /\ slabs \in [DOMAIN slabs -> Headers] /\ live \subseteq [addr : Nat, bytes : Nat]
    BY DEF HeapInv, HeapShape
  <2>2. slabs' \in [DOMAIN slabs' -> Headers]
    BY <1>1, <1>12, <1>13, <2>1
  <2> QED BY <1>1, <1>13, <2>1, <2>2 DEF HeapShape, vars
<1>15. CachesListSlabs'
  BY <1>1, <1>13 DEF HeapInv, CachesListSlabs, vars
<1>16. ObjectsAccountedFor'
  <2> SUFFICES ASSUME NEW q \in DOMAIN slabs' PROVE Consistent(q, slabs[q])'
    BY DEF ObjectsAccountedFor
  <2>1. CASE q = p
    <3>1. Push(s, b.addr).FreeCount = Len(Push(s, b.addr).FreeList)
      BY <1>9, <1>10, <1>11
    <3>2. Range(Push(s, b.addr).FreeList) \cup Held(p)' = SlabObjects(p, s.ObjectSize)
      BY <1>5, <1>7, <1>9, <1>10, <1>11
    <3>3. Range(Push(s, b.addr).FreeList) \cap Held(p)' = {}
      BY <1>5, <1>7, <1>9, <1>10, <1>11
    <3>4. IsInjective(Push(s, b.addr).FreeList)
      BY <1>9, <1>11
    <3> QED BY <1>9, <1>13, <2>1, <3>1, <3>2, <3>3, <3>4 DEF Consistent
  <2>2. CASE q # p
    <3>1. q \in DOMAIN slabs /\ slabs'[q] = slabs[q] /\ Held(q)' = Held(q)
      BY <1>8, <1>13, <2>2
    <3>2. Consistent(q, slabs[q])
      BY <3>1 DEF HeapInv, ObjectsAccountedFor
    <3> QED BY <3>1, <3>2 DEF Consistent
  <2> QED BY <2>1, <2>2
<1>17. \A c : IsLarge(c)' <=> IsLarge(c)
  BY <1>13 DEF IsLarge
<1>18. BlocksInPlace'
  <2> SUFFICES ASSUME NEW c \in live
               PROVE  IF IsLarge(c)
                      THEN /\ c.addr = (c.addr \div PageSize) * PageSize
                           /\ c.bytes > 0 /\ c.bytes = (c.bytes \div PageSize) * PageSize
                           /\ PagesOf(c.addr, c.bytes) \subseteq heapPages' \ DOMAIN slabs'
                      ELSE c.bytes = slabs'[c.addr \div PageSize].ObjectSize
    BY <1>17 DEF BlocksInPlace
  <2>1. CASE IsLarge(c)
    BY <1>1, <1>13, <2>1 DEF HeapInv, BlocksInPlace
  <2>2. CASE ~ IsLarge(c)
    <3>1. c.addr \div PageSize \in DOMAIN slabs
      BY <2>2 DEF IsLarge
    <3>2. c.bytes = slabs[c.addr \div PageSize].ObjectSize
      BY <2>2 DEF HeapInv, BlocksInPlace
    <3> QED BY <1>13, <2>2, <3>1, <3>2
  <2> QED BY <2>1, <2>2
<1>19. LargeBlocksDisjoint'
  BY <1>17 DEF HeapInv, LargeBlocksDisjoint
<1> QED
  BY <1>14, <1>15, <1>16, <1>18, <1>19 DEF HeapInv

\* KFree of a large block returns its first page; the other blocks have no
\* part in that page.
LEMMA KFreeLargeStep ==
  ASSUME HeapInv, heapPages \subseteq Nat, NEW b \in live,
         live' = live \ {b}, KFreeLarge(b)
  PROVE  HeapInv'
<1> DEFINE p == b.addr \div PageSize
<1>1. /\ p \notin DOMAIN slabs /\ heapPages' = heapPages \ {p}
      /\ Caches' = Caches /\ slabs' = slabs /\ phase' = phase
      /\ lent' = lent \/ lent' = lent \ FreedPage(b.addr)
  BY DEF KFreeLarge, FreePage
<1>2. FreedPage(b.addr) \subseteq {p}
  BY DEF FreedPage
<1>3. IsLarge(b) /\ p \in PagesOf(b.addr, b.bytes) /\ b \in [addr : Nat, bytes : Nat]
  BY <1>1, BlockFacts DEF IsLarge
<1>4. \A q : q # p => Held(q)' = Held(q)
  BY <1>3, HeldAfter
<1> HIDE DEF p
<1>5. HeapShape'
  BY <1>1, <1>2 DEF HeapInv, HeapShape
<1>6. CachesListSlabs'
  BY <1>1 DEF HeapInv, CachesListSlabs
<1>7. ObjectsAccountedFor'
  <2> SUFFICES ASSUME NEW q \in DOMAIN slabs PROVE Consistent(q, slabs[q])'
    BY <1>1 DEF ObjectsAccountedFor
  <2>1. Consistent(q, slabs[q]) /\ Held(q)' = Held(q)
    BY <1>1, <1>4 DEF HeapInv, ObjectsAccountedFor
  <2> QED BY <1>1, <2>1 DEF Consistent
<1>8. \A c : IsLarge(c)' <=> IsLarge(c)
  BY <1>1 DEF IsLarge
<1>9. BlocksInPlace'
  <2> SUFFICES ASSUME NEW c \in live, c # b
               PROVE  IF IsLarge(c)
                      THEN /\ c.addr = (c.addr \div PageSize) * PageSize
                           /\ c.bytes > 0 /\ c.bytes = (c.bytes \div PageSize) * PageSize
                           /\ PagesOf(c.addr, c.bytes) \subseteq (heapPages \ {p}) \ DOMAIN slabs
                      ELSE c.bytes = slabs[c.addr \div PageSize].ObjectSize
    BY <1>1, <1>8 DEF BlocksInPlace
  <2>1. IsLarge(c) => PagesOf(b.addr, b.bytes) \cap PagesOf(c.addr, c.bytes) = {}
    BY <1>3 DEF HeapInv, LargeBlocksDisjoint
  <2>2. IsLarge(c) => p \notin PagesOf(c.addr, c.bytes)
    BY <1>3, <2>1
  <2> QED BY <2>2 DEF HeapInv, BlocksInPlace
<1>10. LargeBlocksDisjoint'
  BY <1>8 DEF HeapInv, LargeBlocksDisjoint
<1> QED
  BY <1>5, <1>6, <1>7, <1>9, <1>10 DEF HeapInv

\* The heap keeps its invariant while others use the manager, as long as
\* they do not return its pages.
LEMMA HeapUntouched ==
  ASSUME HeapInv, UNCHANGED heapVars, heapPages \subseteq lent',
         Caches # <<>> => phase' = "ready"
  PROVE  HeapInv'
<1>1. Caches' = Caches /\ slabs' = slabs /\ live' = live /\ heapPages' = heapPages
  BY DEF heapVars
<1>2. HeapShape'
  BY <1>1 DEF HeapInv, HeapShape
<1>3. CachesListSlabs'
  BY <1>1 DEF HeapInv, CachesListSlabs
<1>4. ObjectsAccountedFor'
  BY <1>1 DEF HeapInv, ObjectsAccountedFor, Consistent, Held
<1>5. BlocksInPlace' /\ LargeBlocksDisjoint'
  BY <1>1 DEF HeapInv, BlocksInPlace, LargeBlocksDisjoint, IsLarge
<1> QED
  BY <1>2, <1>3, <1>4, <1>5 DEF HeapInv

----------------------------------------------------------------------------
(* Pages for the heap *)

\* What the heap learns from AllocPage and AllocPages: nothing changed, or a
\* run of pages is its own that nobody held.
LEMMA PagesHandedOut ==
  ASSUME PmmInv, NEW n \in Nat \ {0}, AllocPages(n) \/ (n = 1 /\ AllocPage)
  PROVE  /\ phase = "ready" /\ phase' = "ready"
         /\ last'.ret = 0 => lent' = lent
         /\ last'.ret # 0 =>
              \E start \in Nat : /\ last'.ret = start * PageSize
                                 /\ (start .. start + n - 1) \cap lent = {}
                                 /\ lent' = lent \cup (start .. start + n - 1)
<1>1. /\ phase = "ready" /\ phase' = "ready" /\ UNCHANGED <<phase, Regions, TotalPages>>
      /\ TotalPages \in Nat
  BY DEF AllocPages, AllocPage, PmmInv, TypeOK
<1>2. Free \cap lent = {} /\ Free \subseteq Nat
  BY <1>1 DEF PmmInv, EveryUsedPageAccountedFor, Free, Pages
<1>3. ASSUME NEW op \in Ops, TakeOnePage(op), n = 1
      PROVE  /\ last'.ret = 0 => lent' = lent
             /\ last'.ret # 0 =>
                  \E start \in Nat : /\ last'.ret = start * PageSize
                                     /\ (start .. start + n - 1) \cap lent = {}
                                     /\ lent' = lent \cup (start .. start + n - 1)
  <2> DEFINE p == FindFreePage
  <2>1. CASE p = NotFound
    <3>1. Return(op, 1, 0)
      BY <1>3, <2>1 DEF TakeOnePage
    <3> QED BY <3>1 DEF Return
  <2>2. CASE p # NotFound
    <3>1. p \in Free /\ p \in Nat /\ p # 0
      BY <1>1, <1>2, <2>2, FindFreePageFinds, PageZeroKept
    <3>2. Return(op, 1, p * PageSize)
      BY <1>3, <2>2 DEF TakeOnePage
    <3> HIDE DEF p
    <3>3. p * PageSize # 0 /\ (p * PageSize) \div PageSize = p
      BY <3>1, PageAddress
    <3>4. last'.ret = p * PageSize /\ lent' = lent \cup (p .. p + 1 - 1)
      BY <3>2, <3>3 DEF Return
    <3>5. p .. p + 1 - 1 = {p}
      BY <3>1
    <3>6. (p .. p + 1 - 1) \cap lent = {}
      BY <1>2, <3>1, <3>5
    <3> QED BY <1>3, <3>1, <3>3, <3>4, <3>6
  <2> QED BY <2>1, <2>2
<1>4. CASE AllocPage /\ n = 1
  BY <1>1, <1>3, <1>4 DEF AllocPage, Ops
<1>5. CASE AllocPages(n)
  <2>1. CASE n = 1 /\ TakeOnePage("AllocPages")
    BY <1>1, <1>3, <2>1 DEF Ops
  <2>2. CASE Return("AllocPages", n, 0)
    BY <1>1, <2>2 DEF Return
  <2>3. CASE /\ n > 1 /\ FreeRuns(n) # {}
             /\ LET s == Min(FreeRuns(n))
                IN  /\ Bitmap' = SetBits(Bitmap, s .. s + n - 1)
                    /\ Return("AllocPages", n, s * PageSize)
             /\ Stats' = TakenStats(n)
             /\ UNCHANGED LastAllocHint
    <3> DEFINE s == Min(FreeRuns(n))
    <3>1. FreeRuns(n) \subseteq Nat
      BY <1>1 DEF FreeRuns
    <3>2. s \in Nat
      BY <2>3, <3>1, MinNat
    <3>3. Return("AllocPages", n, s * PageSize)
      BY <2>3
    <3>4. /\ last'.ret # 0
          /\ (last'.ret \div PageSize) .. (last'.ret \div PageSize + n - 1) \subseteq Free
      BY <1>1, <2>3, TakeRunStep
    <3> HIDE DEF s
    <3>5. last'.ret = s * PageSize /\ (s * PageSize) \div PageSize = s
      BY <3>2, <3>3, PageAddress DEF Return
    <3>6. lent' = lent \cup (s .. s + n - 1)
      BY <3>3, <3>4, <3>5 DEF Return
    <3>7. (s .. s + n - 1) \cap lent = {}
      BY <1>2, <3>4, <3>5
    <3> QED BY <1>1, <3>2, <3>4, <3>5, <3>6, <3>7
  <2> QED BY <1>5, <2>1, <2>2, <2>3 DEF AllocPages
<1> QED
  BY <1>1, <1>4, <1>5

\* A block of whole pages occupies exactly these pages.
LEMMA PagesOfRun ==
  ASSUME NEW start \in Nat, NEW n \in Nat \ {0}
  PROVE  /\ start * PageSize \in Nat /\ n * PageSize \in Nat \ {0}
         /\ (start * PageSize) \div PageSize = start /\ (n * PageSize) \div PageSize = n
         /\ PagesOf(start * PageSize, n * PageSize) = start .. start + n - 1
<1>1. PageSize \in Nat \ {0}
  BY PmmAssumption
<1>2. /\ start * PageSize \in Nat /\ (start * PageSize) \div PageSize = start
      /\ n * PageSize \in Nat /\ (n * PageSize) \div PageSize = n /\ n * PageSize # 0
  BY PageAddress
<1> DEFINE end == start + n - 1
<1>3. end \in Nat /\ end + 1 = start + n
  OBVIOUS
<1>4. start * PageSize + n * PageSize = (start + n) * PageSize
  BY <1>1
<1>5. (end + 1) * PageSize = end * PageSize + PageSize /\ end * PageSize \in Nat
  BY <1>1, <1>3
<1> HIDE DEF end
<1>6. start * PageSize + n * PageSize - 1 = end * PageSize + (PageSize - 1)
  BY <1>1, <1>2, <1>3, <1>4, <1>5
<1>7. PageSize - 1 \in 0 .. PageSize - 1
  BY <1>1
<1>8. (end * PageSize + (PageSize - 1)) \div PageSize = end
  BY <1>1, <1>3, <1>7, DivModUnique
<1>9. PagesOf(start * PageSize, n * PageSize) = start .. end
  BY <1>2, <1>6, <1>8 DEF PagesOf
<1> QED
  BY <1>2, <1>9 DEF end

\* A request of more bytes than the largest object needs a page at least.
LEMMA LargeNeedsPages ==
  ASSUME NEW n \in Nat, n > LargestObject
  PROVE  PagesFor(n) \in Nat \ {0}
<1>1. LargestObject \in Nat \ {0}
  BY KHeapAssumption DEF LargestObject
<1>2. n \in Nat \ {0} /\ PageSize \in Nat \ {0}
  BY <1>1, PmmAssumption
<1>3. 0 \div PageSize < (n + PageSize - 1) \div PageSize
  <2>1. 0 \in Nat /\ n \in Nat /\ 0 < n
    BY <1>2
  <2> QED BY <1>2, <2>1, QuotientBelowCeiling
<1>6. 0 \div PageSize \in Nat
  BY <1>2, DivModNat
<1>4. (n + PageSize - 1) \in Nat
  BY <1>2
<1>5. (n + PageSize - 1) \div PageSize \in Nat
  BY <1>2, <1>4, DivModNat
<1> QED BY <1>3, <1>5, <1>6 DEF PagesFor

\* KMalloc of a large block: pages that nobody held become a block.
LEMMA KMallocLargeStep ==
  ASSUME PmmInv, HeapInv, heapPages \subseteq Nat, NEW n \in Nat, KMallocLarge(n)
  PROVE  HeapInv'
<1> DEFINE k == PagesFor(n)
<1>1. k \in Nat \ {0} /\ AllocPages(k) /\ Caches' = Caches /\ slabs' = slabs
  BY LargeNeedsPages DEF KMallocLarge
<1>2. CASE last'.ret = 0
  <2>1. lent' = lent /\ phase' = "ready"
    BY <1>1, <1>2, PagesHandedOut
  <2>2. UNCHANGED heapVars
    BY <1>1, <1>2 DEF KMallocLarge, heapVars
  <2> QED BY <2>1, <2>2, HeapUntouched DEF HeapInv, HeapShape
<1>3. CASE last'.ret # 0
  <2>0. /\ live' = live \cup {Block(last'.ret, k * PageSize)}
        /\ heapPages' = heapPages \cup PagesOf(last'.ret, k * PageSize)
    BY <1>3 DEF KMallocLarge
  <2> HIDE DEF k
  <2>1. PICK start \in Nat : /\ last'.ret = start * PageSize
                             /\ (start .. start + k - 1) \cap lent = {}
                             /\ lent' = lent \cup (start .. start + k - 1)
    BY <1>1, <1>3, PagesHandedOut
  <2>2. phase' = "ready"
    BY <1>1, PagesHandedOut
  <2> DEFINE nb == Block(start * PageSize, k * PageSize)
             run == start .. start + k - 1
  <2>3. /\ start * PageSize \in Nat /\ k * PageSize \in Nat \ {0}
        /\ (start * PageSize) \div PageSize = start /\ (k * PageSize) \div PageSize = k
        /\ PagesOf(start * PageSize, k * PageSize) = run
    BY <1>1, PagesOfRun
  <2>4. live' = live \cup {nb} /\ heapPages' = heapPages \cup run
    BY <2>0, <2>1, <2>3
  <2>5. nb \in [addr : Nat, bytes : Nat] /\ nb.addr = start * PageSize /\ nb.bytes = k * PageSize
    BY <2>3 DEF Block
  <2>6. start \in run
    BY <1>1
  <2>7. /\ heapPages \subseteq lent /\ DOMAIN slabs \subseteq heapPages
        /\ slabs \in [DOMAIN slabs -> Headers] /\ live \subseteq [addr : Nat, bytes : Nat]
    BY DEF HeapInv, HeapShape
  <2>8. run \cap heapPages = {} /\ run \cap DOMAIN slabs = {} /\ lent' = lent \cup run
    BY <2>1, <2>7
  <2> HIDE DEF nb, run
  <2>9. \A q : q # start => Held(q)' = Held(q)
    BY <2>3, <2>4, <2>5, HeldAfter
  <2>10. \A c : IsLarge(c)' <=> IsLarge(c)
    BY <1>1 DEF IsLarge
  <2>11. HeapShape'
    BY <1>1, <2>4, <2>5, <2>7, <2>8 DEF HeapShape
  <2>12. CachesListSlabs'
    BY <1>1, <2>2 DEF HeapInv, CachesListSlabs
  <2>13. ObjectsAccountedFor'
    <3> SUFFICES ASSUME NEW q \in DOMAIN slabs PROVE Consistent(q, slabs[q])'
      BY <1>1 DEF ObjectsAccountedFor
    <3>1. Consistent(q, slabs[q]) /\ Held(q)' = Held(q)
      BY <2>6, <2>8, <2>9 DEF HeapInv, ObjectsAccountedFor
    <3> QED BY <1>1, <3>1 DEF Consistent
  <2>14. IsLarge(nb) /\ PagesOf(nb.addr, nb.bytes) = run
    BY <2>3, <2>5, <2>6, <2>8 DEF IsLarge
  <2>15. BlocksInPlace'
    <3> SUFFICES ASSUME NEW c \in live \cup {nb}
                 PROVE  IF IsLarge(c)
                        THEN /\ c.addr = (c.addr \div PageSize) * PageSize
                             /\ c.bytes > 0 /\ c.bytes = (c.bytes \div PageSize) * PageSize
                             /\ PagesOf(c.addr, c.bytes) \subseteq (heapPages \cup run) \ DOMAIN slabs
                        ELSE c.bytes = slabs[c.addr \div PageSize].ObjectSize
      BY <1>1, <2>4, <2>10 DEF BlocksInPlace
    <3>1. CASE c = nb
      BY <1>1, <2>3, <2>5, <2>8, <2>14, <3>1
    <3>2. CASE c \in live
      BY <3>2 DEF HeapInv, BlocksInPlace
    <3> QED BY <3>1, <3>2
  <2>16. LargeBlocksDisjoint'
    <3> SUFFICES ASSUME NEW b \in live \cup {nb}, NEW c \in live \cup {nb},
                        IsLarge(b), IsLarge(c), b # c
                 PROVE  PagesOf(b.addr, b.bytes) \cap PagesOf(c.addr, c.bytes) = {}
      BY <2>4, <2>10 DEF LargeBlocksDisjoint
    <3>1. \A d \in live : PagesOf(d.addr, d.bytes) \subseteq heapPages
      BY BlockFacts
    <3>2. CASE b = nb \/ c = nb
      BY <2>8, <2>14, <3>1, <3>2
    <3>3. CASE b \in live /\ c \in live
      BY <3>3 DEF HeapInv, LargeBlocksDisjoint
    <3> QED BY <3>2, <3>3
  <2> QED BY <2>11, <2>12, <2>13, <2>15, <2>16 DEF HeapInv
<1> QED
  BY <1>2, <1>3

\* A small request has a cache, whose objects are large enough.
LEMMA CacheFound ==
  ASSUME NEW n \in Nat, n <= LargestObject
  PROVE  GetSlabCache(n) \in DOMAIN SlabSizes /\ n <= SlabSizes[GetSlabCache(n)]
<1> DEFINE fits == {i \in DOMAIN SlabSizes : n <= SlabSizes[i]}
<1>1. DOMAIN SlabSizes = 1 .. Len(SlabSizes) /\ Len(SlabSizes) \in Nat \ {0}
  BY KHeapAssumption
<1>2. Len(SlabSizes) \in fits /\ fits \subseteq Nat
  BY <1>1 DEF LargestObject
<1>3. Min(fits) \in fits
  BY <1>2, MinNat
<1> QED BY <1>3 DEF GetSlabCache

\* KMalloc from a slab that has room.
LEMMA KMallocObjectStep ==
  ASSUME HeapInv, heapPages \subseteq Nat, Caches # <<>>, NEW n \in Nat, KMallocObject(n)
  PROVE  HeapInv' /\ live' # live
<1> DEFINE i == GetSlabCache(n)
           j == Min(SlabsWithRoom(i))
           p == Caches[i][j]
<1>1. /\ n <= LargestObject /\ SlabsWithRoom(i) # {} /\ TakeObject(p, slabs[p])
      /\ Caches' = Caches /\ heapPages' = heapPages /\ UNCHANGED vars
  BY DEF KMallocObject
<1>2. i \in DOMAIN SlabSizes
  BY <1>1, CacheFound
<1>3. Caches \in [DOMAIN SlabSizes -> Seq(DOMAIN slabs)] /\ phase = "ready"
  BY DEF HeapInv, CachesListSlabs
<1> HIDE DEF i
<1>4. Caches[i] \in Seq(DOMAIN slabs)
  BY <1>2, <1>3
<1>5. j \in SlabsWithRoom(i)
  <2>1. SlabsWithRoom(i) \subseteq Nat
    BY <1>4 DEF SlabsWithRoom
  <2> QED BY <1>1, <2>1, MinNat
<1>6. j \in DOMAIN Caches[i] /\ slabs[p].FreeCount > 0
  BY <1>5 DEF SlabsWithRoom
<1> HIDE DEF j
<1>7. p \in DOMAIN slabs
  BY <1>4, <1>6
<1> HIDE DEF p
<1>8. /\ heapPages \subseteq lent /\ DOMAIN slabs \subseteq heapPages /\ slabs[p] \in Headers
      /\ Consistent(p, slabs[p])
  BY <1>7 DEF HeapInv, HeapShape, ObjectsAccountedFor
<1>9. p \in Nat /\ heapPages' = heapPages \cup {p} /\ heapPages' \subseteq lent'
  BY <1>1, <1>7, <1>8 DEF vars
<1>10. /\ HeapShape' /\ ObjectsAccountedFor' /\ BlocksInPlace' /\ LargeBlocksDisjoint'
       /\ DOMAIN slabs' = DOMAIN slabs \cup {p}
       /\ \A q \in DOMAIN slabs : slabs'[q].ObjectSize = slabs[q].ObjectSize
       /\ live' # live
  BY <1>1, <1>6, <1>7, <1>8, <1>9, TakeObjectStep
<1>11. DOMAIN slabs' = DOMAIN slabs /\ phase' = phase
  BY <1>1, <1>7, <1>10 DEF vars
<1>12. CachesListSlabs'
  <2>1. \A c \in DOMAIN Caches : \A d \in DOMAIN Caches[c] :
          Caches[c][d] \in DOMAIN slabs /\ slabs[Caches[c][d]].ObjectSize = SlabSizes[c]
    BY <1>3 DEF HeapInv, CachesListSlabs
  <2>2. \A q \in DOMAIN slabs : \E c \in DOMAIN Caches : \E d \in DOMAIN Caches[c] : Caches[c][d] = q
    BY DEF HeapInv, CachesListSlabs
  <2> QED BY <1>1, <1>3, <1>10, <1>11, <2>1, <2>2 DEF CachesListSlabs
<1> QED
  BY <1>10, <1>12 DEF HeapInv

\* What the caches hold after page p was put in front of the list of cache i.
AddedInFront(i, p) ==
  /\ Caches' \in [DOMAIN SlabSizes -> Seq(DOMAIN slabs \cup {p})]
  /\ 1 \in DOMAIN Caches'[i] /\ Caches'[i][1] = p
  /\ \A c \in DOMAIN Caches' : \A d \in DOMAIN Caches'[c] :
       (Caches'[c][d] = p /\ c = i) \/ \E e \in DOMAIN Caches[c] : Caches'[c][d] = Caches[c][e]
  /\ \A c \in DOMAIN Caches : \A d \in DOMAIN Caches[c] :
       \E e \in DOMAIN Caches'[c] : Caches'[c][e] = Caches[c][d]

\* The lists of the caches after a new slab (KHeap.c:88-89).
LEMMA SlabListed ==
  ASSUME Caches \in [DOMAIN SlabSizes -> Seq(DOMAIN slabs)],
         NEW i \in DOMAIN SlabSizes, NEW p, Caches' = [Caches EXCEPT ![i] = Cons(p, @)]
  PROVE  AddedInFront(i, p)
<1> DEFINE C == Caches
           D == Caches'
           S == DOMAIN slabs
           l == C[i]
           m == Cons(p, l)
<1>1. l \in Seq(S) /\ DOMAIN l = 1 .. Len(l) /\ Len(l) \in Nat
  OBVIOUS
<1>2. D[i] = m /\ DOMAIN D = DOMAIN SlabSizes /\ DOMAIN C = DOMAIN SlabSizes
      /\ \A c \in DOMAIN SlabSizes : c # i => D[c] = C[c]
  OBVIOUS
<1> HIDE DEF l
<1>3. l \in Seq(S \cup {p})
  BY <1>1
<1>4. m \in Seq(S \cup {p}) /\ Len(m) = Len(l) + 1 /\ m[1] = p
      /\ \A e \in 1 .. Len(l) : m[e + 1] = l[e]
  BY <1>3, <1>1 DEF Cons
<1> HIDE DEF m
<1>5. DOMAIN m = 1 .. Len(l) + 1
  BY <1>4
<1>6. \A d \in 1 .. Len(l) + 1 : d # 1 => d - 1 \in 1 .. Len(l) /\ m[d] = l[d - 1]
  <2> SUFFICES ASSUME NEW d \in 1 .. Len(l) + 1, d # 1
               PROVE  d - 1 \in 1 .. Len(l) /\ m[d] = l[d - 1]
    OBVIOUS
  <2>1. d - 1 \in 1 .. Len(l) /\ (d - 1) + 1 = d
    BY <1>1
  <2> QED BY <1>4, <2>1
<1>7. D \in [DOMAIN SlabSizes -> Seq(S \cup {p})]
  <2>1. \A c \in DOMAIN SlabSizes : D[c] \in Seq(S \cup {p})
    <3> SUFFICES ASSUME NEW c \in DOMAIN SlabSizes PROVE D[c] \in Seq(S \cup {p})
      OBVIOUS
    <3>1. C[c] \in Seq(S)
      OBVIOUS
    <3>2. C[c] \in Seq(S \cup {p})
      BY <3>1
    <3> QED BY <1>2, <1>4, <3>2
  <2> QED BY <2>1
<1>8. 1 \in DOMAIN D[i] /\ D[i][1] = p
  BY <1>1, <1>2, <1>4, <1>5
<1>9. ASSUME NEW c \in DOMAIN D, NEW d \in DOMAIN D[c]
      PROVE  (D[c][d] = p /\ c = i) \/ \E e \in DOMAIN C[c] : D[c][d] = C[c][e]
  <2>1. CASE c # i
    BY <1>2, <2>1
  <2>2. CASE c = i
    <3>1. d \in 1 .. Len(l) + 1 /\ D[c][d] = m[d]
      BY <1>2, <1>5, <2>2
    <3>2. CASE d = 1
      BY <1>4, <2>2, <3>1, <3>2
    <3>3. CASE d # 1
      <4>1. d - 1 \in DOMAIN l /\ m[d] = l[d - 1]
        BY <1>1, <1>6, <3>1, <3>3
      <4> QED BY <2>2, <3>1, <4>1 DEF l
    <3> QED BY <3>2, <3>3
  <2> QED BY <2>1, <2>2
<1>10. ASSUME NEW c \in DOMAIN C, NEW d \in DOMAIN C[c]
       PROVE  \E e \in DOMAIN D[c] : D[c][e] = C[c][d]
  <2>1. CASE c # i
    BY <1>2, <2>1
  <2>2. CASE c = i
    <3>1. d \in 1 .. Len(l) /\ C[c][d] = l[d]
      BY <1>1, <2>2 DEF l
    <3>2. d + 1 \in DOMAIN m /\ m[d + 1] = l[d]
      BY <1>1, <1>4, <1>5, <3>1
    <3> QED BY <1>2, <2>2, <3>1, <3>2
  <2> QED BY <2>1, <2>2
<1> QED
  BY <1>7, <1>8, <1>9, <1>10 DEF AddedInFront

\* KMalloc from a new slab, in a page that nobody held.
LEMMA KMallocNewSlabStep ==
  ASSUME PmmInv, HeapInv, heapPages \subseteq Nat, Caches # <<>>, NEW n \in Nat,
         KMallocNewSlab(n)
  PROVE  HeapInv' /\ (last'.ret # 0 => live' # live)
<1> DEFINE i == GetSlabCache(n)
           p == last'.ret \div PageSize
           size == SlabSizes[i]
           s == AllocateSlab(p, size)
<1>1. n <= LargestObject /\ AllocPage
  BY DEF KMallocNewSlab
<1>2. i \in DOMAIN SlabSizes
  BY <1>1, CacheFound
<1>3. Caches \in [DOMAIN SlabSizes -> Seq(DOMAIN slabs)] /\ phase = "ready"
  BY DEF HeapInv, CachesListSlabs
<1>4. CASE last'.ret = 0
  <2>1. UNCHANGED heapVars
    BY <1>4 DEF KMallocNewSlab
  <2>2. lent' = lent /\ phase' = "ready"
    BY <1>1, <1>4, PagesHandedOut
  <2> QED BY <1>4, <2>1, <2>2, HeapUntouched DEF HeapInv, HeapShape
<1>5. CASE last'.ret # 0
  <2>1. /\ Caches' = [Caches EXCEPT ![i] = Cons(p, @)]
        /\ TakeObject(p, s)
        /\ heapPages' = heapPages \cup {p}
    BY <1>5 DEF KMallocNewSlab
  <2>2. PICK start \in Nat : /\ last'.ret = start * PageSize
                             /\ (start .. start + 1 - 1) \cap lent = {}
                             /\ lent' = lent \cup (start .. start + 1 - 1)
    BY <1>1, <1>5, PagesHandedOut
  <2>3. phase' = "ready"
    BY <1>1, PagesHandedOut
  <2>4. p = start
    BY <2>2, PageAddress
  <2>5. start .. start + 1 - 1 = {start}
    OBVIOUS
  <2>6. p \in Nat /\ p \notin lent /\ lent' = lent \cup {p}
    BY <2>2, <2>4, <2>5
  <2>7. size \in Range(SlabSizes)
    BY <1>2 DEF Range
  <2> HIDE DEF i, p, size
  <2>8. /\ s \in Headers /\ s.ObjectSize = size
        /\ s.FreeCount = Len(s.FreeList) /\ Len(s.FreeList) > 0
        /\ IsInjective(s.FreeList)
        /\ Range(s.FreeList) = SlabObjects(p, size)
    BY <2>6, <2>7, FreshSlab
  <2> HIDE DEF s
  <2>9. heapPages \subseteq lent /\ DOMAIN slabs \subseteq heapPages
    BY DEF HeapInv, HeapShape
  <2>10. p \notin heapPages /\ p \notin DOMAIN slabs /\ heapPages' \subseteq lent'
    BY <2>1, <2>6, <2>9
  <2>11. Held(p) = {}
    <3>1. \A b \in live : b.addr \div PageSize # p
      BY <2>10, BlockFacts
    <3> QED BY <3>1 DEF Held
  <2>12. Consistent(p, s)
    BY <2>8, <2>11 DEF Consistent
  <2>13. s.FreeCount > 0
    BY <2>8
  <2>14. /\ HeapShape' /\ ObjectsAccountedFor' /\ BlocksInPlace' /\ LargeBlocksDisjoint'
         /\ DOMAIN slabs' = DOMAIN slabs \cup {p}
         /\ slabs'[p].ObjectSize = s.ObjectSize
         /\ \A q \in DOMAIN slabs : slabs'[q].ObjectSize = slabs[q].ObjectSize
         /\ live' # live
    BY <2>1, <2>6, <2>8, <2>10, <2>12, <2>13, TakeObjectStep
  <2>15. /\ Caches' \in [DOMAIN SlabSizes -> Seq(DOMAIN slabs \cup {p})]
         /\ 1 \in DOMAIN Caches'[i] /\ Caches'[i][1] = p
         /\ \A c \in DOMAIN Caches' : \A d \in DOMAIN Caches'[c] :
              (Caches'[c][d] = p /\ c = i) \/ \E e \in DOMAIN Caches[c] : Caches'[c][d] = Caches[c][e]
         /\ \A c \in DOMAIN Caches : \A d \in DOMAIN Caches[c] :
              \E e \in DOMAIN Caches'[c] : Caches'[c][e] = Caches[c][d]
    <3>1. i \in DOMAIN SlabSizes
      BY <1>2 DEF i
    <3>2. AddedInFront(i, p)
      BY <1>3, <2>1, <3>1, SlabListed
    <3> QED BY <3>2 DEF AddedInFront
  <2>16. DOMAIN Caches' = DOMAIN SlabSizes /\ DOMAIN Caches = DOMAIN SlabSizes
    BY <1>3, <2>15
  <2>17. ASSUME NEW c \in DOMAIN Caches', NEW d \in DOMAIN Caches'[c]
         PROVE  slabs'[Caches'[c][d]].ObjectSize = SlabSizes[c]
    <3>1. CASE Caches'[c][d] = p /\ c = i
      BY <2>8, <2>14, <3>1 DEF size
    <3>2. CASE \E e \in DOMAIN Caches[c] : Caches'[c][d] = Caches[c][e]
      <4>1. PICK e \in DOMAIN Caches[c] : Caches'[c][d] = Caches[c][e]
        BY <3>2
      <4>2. c \in DOMAIN Caches /\ Caches[c] \in Seq(DOMAIN slabs)
        BY <1>3, <2>16
      <4>3. Caches[c][e] \in DOMAIN slabs
        BY <4>1, <4>2
      <4>4. slabs[Caches[c][e]].ObjectSize = SlabSizes[c]
        BY <4>1, <4>2 DEF HeapInv, CachesListSlabs
      <4> QED BY <2>14, <4>1, <4>3, <4>4
    <3> QED BY <2>15, <3>1, <3>2
  <2>18. ASSUME NEW q \in DOMAIN slabs'
         PROVE  \E c \in DOMAIN Caches' : \E d \in DOMAIN Caches'[c] : Caches'[c][d] = q
    <3>1. CASE q = p
      BY <1>2, <2>15, <2>16, <3>1 DEF i
    <3>2. CASE q # p
      <4>1. PICK c \in DOMAIN Caches : \E d \in DOMAIN Caches[c] : Caches[c][d] = q
        BY <2>14, <3>2 DEF HeapInv, CachesListSlabs
      <4>2. \E e \in DOMAIN Caches'[c] : Caches'[c][e] = q
        BY <2>15, <4>1
      <4> QED BY <2>16, <4>1, <4>2
    <3> QED BY <3>1, <3>2
  <2>19. CachesListSlabs'
    BY <2>3, <2>14, <2>15, <2>17, <2>18 DEF CachesListSlabs
  <2> QED BY <2>14, <2>19 DEF HeapInv
<1> QED
  BY <1>4, <1>5

----------------------------------------------------------------------------
(* The heap and the manager together *)

\* The pages of the heap are pages of memory.
LEMMA HeapPagesNat ==
  ASSUME PmmInv, HeapInv
  PROVE  heapPages \subseteq Pages /\ lent \subseteq Pages /\ Pages \subseteq Nat /\ TotalPages \in Nat
  BY DEF PmmInv, TypeOK, HeapInv, HeapShape, Pages

\* The address of a page of memory is one that a caller may pass.
LEMMA PageIsAddress ==
  ASSUME TotalPages \in Nat, NEW p \in Pages
  PROVE  p * PageSize \in Addresses
<1>1. PageSize \in Nat \ {0} /\ p \in Nat /\ p < TotalPages
  BY PmmAssumption DEF Pages
<1>2. p * PageSize + PageSize <= TotalPages * PageSize /\ p * PageSize \in Nat
      /\ TotalPages * PageSize \in Nat
  BY <1>1, MultiplesApart
<1> QED BY <1>1, <1>2 DEF Addresses

\* Whatever the heap or its callers do is a step that the manager allows: a
\* large block is freed at an address that the manager gave out.
LEMMA HeapStepIsPmmStep ==
  ASSUME PmmInv, HeapInv, [HeapNext]_allVars
  PROVE  [Next]_vars
<1>0. heapPages \subseteq Pages /\ lent \subseteq Pages /\ Pages \subseteq Nat /\ TotalPages \in Nat
  BY HeapPagesNat
<1>1. ASSUME NEW map \in MemoryMaps, InitializePmm(map) PROVE Next
  BY <1>1 DEF Next
<1>2. CASE InitializeKHeap
  BY <1>2 DEF InitializeKHeap
<1>3. ASSUME NEW n \in Sizes, KMalloc(n) PROVE [Next]_vars
  <2>1. n \in Nat /\ PagesFor(n) <= MaxCount
    BY KHeapAssumption
  <2>2. CASE KMallocLarge(n)
    <3>1. PagesFor(n) \in Nat /\ AllocPages(PagesFor(n))
      BY <2>1, <2>2, LargeNeedsPages DEF KMallocLarge
    <3>2. PagesFor(n) \in 0 .. MaxCount
      BY <2>1, <3>1, PmmAssumption
    <3> QED BY <3>1, <3>2 DEF Next
  <2>3. CASE KMallocObject(n)
    BY <2>3 DEF KMallocObject
  <2>4. CASE KMallocNewSlab(n)
    BY <2>4 DEF KMallocNewSlab, Next
  <2> QED BY <1>3, <2>2, <2>3, <2>4 DEF KMalloc
<1>4. ASSUME NEW b \in live, KFree(b) PROVE [Next]_vars
  <2>1. CASE KFreeObject(b)
    BY <2>1 DEF KFreeObject
  <2>2. CASE KFreeLarge(b)
    <3> DEFINE p == b.addr \div PageSize
    <3>1. IsLarge(b) /\ FreePage(b.addr)
      BY <2>2 DEF KFreeLarge, IsLarge
    <3>2. p \in Pages
      BY <1>0, BlockFacts
    <3>3. b.addr = p * PageSize
      BY <3>1 DEF HeapInv, BlocksInPlace
    <3> HIDE DEF p
    <3>4. b.addr \in Addresses
      BY <1>0, <3>2, <3>3, PageIsAddress
    <3> QED BY <3>1, <3>4 DEF Next
  <2> QED BY <1>4, <2>1, <2>2 DEF KFree
<1>5. CASE OtherUsers
  <2>1. CASE AllocPage \/ \E n \in 0 .. MaxCount : AllocPages(n)
    BY <2>1 DEF Next
  <2>2. ASSUME NEW p \in lent \ heapPages, FreePage(p * PageSize) PROVE Next
    <3>1. p * PageSize \in Addresses
      BY <1>0, PageIsAddress
    <3> QED BY <2>2, <3>1 DEF Next
  <2> QED BY <1>5, <2>1, <2>2 DEF OtherUsers
<1>6. CASE UNCHANGED allVars
  BY <1>6 DEF allVars
<1> QED
  BY <1>1, <1>2, <1>3, <1>4, <1>5, <1>6 DEF HeapNext

\* Every step preserves the invariant of the heap.
LEMMA HeapStepPreservesInv ==
  ASSUME PmmInv, HeapInv, [HeapNext]_allVars
  PROVE  HeapInv'
<1>0. heapPages \subseteq Nat /\ heapPages \subseteq lent
  BY HeapPagesNat DEF HeapInv, HeapShape
<1>1. ASSUME NEW map \in MemoryMaps, InitializePmm(map), UNCHANGED heapVars PROVE HeapInv'
  <2>1. phase = "off" /\ lent' = lent
    BY <1>1 DEF InitializePmm
  <2>2. Caches = <<>>
    BY <2>1 DEF HeapInv, CachesListSlabs
  <2> QED BY <1>0, <1>1, <2>1, <2>2, HeapUntouched
<1>2. CASE InitializeKHeap
  <2>1. /\ phase = "ready" /\ Caches = <<>> /\ Caches' = [i \in DOMAIN SlabSizes |-> <<>>]
        /\ slabs' = slabs /\ live' = live /\ heapPages' = heapPages
        /\ phase' = phase /\ lent' = lent
    BY <1>2 DEF InitializeKHeap, vars
  <2>2. DOMAIN slabs = {}
    BY <2>1 DEF HeapInv, CachesListSlabs
  <2>3. Caches' \in [DOMAIN SlabSizes -> Seq(DOMAIN slabs)]
    BY <2>1
  <2>4. \A i \in DOMAIN Caches' : DOMAIN Caches'[i] = {}
    BY <2>1
  <2>5. CachesListSlabs'
    BY <2>1, <2>2, <2>3, <2>4 DEF CachesListSlabs
  <2>6. HeapShape'
    BY <2>1 DEF HeapInv, HeapShape
  <2>7. ObjectsAccountedFor'
    BY <2>1, <2>2 DEF ObjectsAccountedFor
  <2>8. BlocksInPlace' /\ LargeBlocksDisjoint'
    BY <2>1 DEF HeapInv, BlocksInPlace, LargeBlocksDisjoint, IsLarge
  <2> QED BY <2>5, <2>6, <2>7, <2>8 DEF HeapInv
<1>3. ASSUME NEW n \in Sizes, KMalloc(n) PROVE HeapInv'
  <2>1. n \in Nat
    BY KHeapAssumption
  <2> QED BY <1>0, <1>3, <2>1, KMallocLargeStep, KMallocObjectStep, KMallocNewSlabStep DEF KMalloc
<1>4. ASSUME NEW b \in live, KFree(b) PROVE HeapInv'
  BY <1>0, <1>4, KFreeObjectStep, KFreeLargeStep DEF KFree
<1>5. CASE OtherUsers
  <2>0. UNCHANGED heapVars
    BY <1>5 DEF OtherUsers
  <2>1. ASSUME NEW n \in 0 .. MaxCount, AllocPages(n) PROVE lent \subseteq lent' /\ phase' = "ready"
    <3>1. CASE n = 0
      BY <2>1, <3>1 DEF AllocPages, Return
    <3>2. CASE n # 0
      BY <2>1, <3>2, PmmAssumption, PagesHandedOut
    <3> QED BY <3>1, <3>2
  <2>2. CASE AllocPage
    BY <1>0, <2>0, <2>2, PagesHandedOut, HeapUntouched
  <2>3. ASSUME NEW p \in lent \ heapPages, FreePage(p * PageSize) PROVE HeapInv'
    <3>1. p \in Nat
      BY HeapPagesNat
    <3>2. FreedPage(p * PageSize) \subseteq {p}
      BY <3>1, PageAddress DEF FreedPage
    <3>3. /\ phase' = "ready"
          /\ lent' = lent \/ lent' = lent \ FreedPage(p * PageSize)
      BY <2>3 DEF FreePage
    <3>4. heapPages \subseteq lent'
      BY <1>0, <3>2, <3>3
    <3> QED BY <2>0, <3>3, <3>4, HeapUntouched
  <2> QED BY <1>0, <1>5, <2>0, <2>1, <2>2, <2>3, HeapUntouched DEF OtherUsers
<1>6. CASE UNCHANGED allVars
  <2>1. UNCHANGED heapVars /\ lent' = lent /\ phase' = phase
    BY <1>6 DEF allVars, vars
  <2> QED BY <1>0, <2>1, HeapUntouched DEF HeapInv, CachesListSlabs
<1> QED
  BY <1>1, <1>2, <1>3, <1>4, <1>5, <1>6 DEF HeapNext

\* An empty heap satisfies the invariant.
LEMMA HeapInitEstablishesInv == HeapInit => PmmInv /\ HeapInv
<1> SUFFICES ASSUME HeapInit PROVE PmmInv /\ HeapInv
  OBVIOUS
<1>1. /\ Init /\ Caches = <<>> /\ slabs = [p \in {} |-> 0] /\ live = {} /\ heapPages = {}
  BY DEF HeapInit
<1>2. DOMAIN slabs = {}
  BY <1>1
<1>3. HeapShape
  BY <1>1, <1>2 DEF HeapShape
<1>4. CachesListSlabs
  BY <1>1, <1>2 DEF CachesListSlabs
<1>5. ObjectsAccountedFor /\ BlocksInPlace /\ LargeBlocksDisjoint
  BY <1>1, <1>2 DEF ObjectsAccountedFor, BlocksInPlace, LargeBlocksDisjoint
<1> QED
  BY <1>1, <1>3, <1>4, <1>5, InitEstablishesInv DEF HeapInv

----------------------------------------------------------------------------
(* Theorems *)

\* The invariants of the manager and of the heap hold together.
THEOREM HeapInvariant == HeapSpec => [](PmmInv /\ HeapInv)
<1>1. PmmInv /\ HeapInv /\ [HeapNext]_allVars => (PmmInv /\ HeapInv)'
  BY HeapStepIsPmmStep, HeapStepPreservesInv, NextPreservesInv
<1> QED
  BY <1>1, HeapInitEstablishesInv, PTL DEF HeapSpec

\* The heap is a correct user of the physical memory manager: KMalloc and
\* KFree, with the other users in between, only do to it what Pmm allows, so
\* all that is proved of the manager holds below the heap.
THEOREM HeapUsesPmm == HeapSpec => Spec
<1>1. HeapInit => Init
  BY DEF HeapInit
<1>2. PmmInv /\ HeapInv /\ [HeapNext]_allVars => [Next]_vars
  BY HeapStepIsPmmStep
<1> QED
  BY <1>1, <1>2, HeapInvariant, PTL DEF HeapSpec, Spec

\* No two blocks that KMalloc has handed out overlap, none reaches into the
\* header of a slab, and all lie in pages that only the heap holds, for every
\* page size, object size and memory map.
THEOREM HeapBlocksDisjoint == HeapSpec => []BlocksDisjoint
<1>1. PmmInv /\ HeapInv => BlocksDisjoint
  BY HeapPagesNat, InvImpliesDisjoint
<1> QED
  BY <1>1, HeapInvariant, PTL

\* Every object of every slab is free once or held: KFree and KMalloc neither
\* lose an object nor hand one out twice.
THEOREM HeapObjectsAccountedFor == HeapSpec => []ObjectsAccountedFor
<1>1. HeapInv => ObjectsAccountedFor
  BY DEF HeapInv
<1> QED
  BY <1>1, HeapInvariant, PTL

\* A refusal of the manager means that there is no run of free pages.
LEMMA RefusedMeansNoRun ==
  ASSUME PmmInv, NEW n \in Nat \ {0}, last'.ret = 0,
         (n <= MaxCount /\ AllocPages(n)) \/ (n = 1 /\ AllocPage)
  PROVE  FreeRuns(n) = {}
<1>1. Next /\ TotalPages \in Nat
  <2>1. n <= MaxCount => n \in 0 .. MaxCount
    BY PmmAssumption
  <2> QED BY <2>1 DEF Next, PmmInv, TypeOK
<1>2. last'.op \in {"AllocPage", "AllocPages"} /\ last'.arg = n
  BY DEF AllocPages, AllocPage, TakeOnePage, Return
<1>3. \A s \in Pages : ~ (s .. s + n - 1 \subseteq Free)
  BY <1>1, <1>2, AllocationStep
<1>4. ASSUME NEW s \in FreeRuns(n) PROVE FALSE
  <2>1. s \in 0 .. TotalPages - n /\ \A p \in s .. s + n - 1 : ~ TestBitmapBit(Bitmap, p)
    BY DEF FreeRuns
  <2>2. s .. s + n - 1 \subseteq Pages /\ s \in Pages
    BY <1>1, <2>1 DEF Pages
  <2>3. s .. s + n - 1 \subseteq Free
    BY <2>1, <2>2 DEF Free, Used
  <2> QED BY <1>3, <2>2, <2>3
<1> QED BY <1>4

\* When no slab of a cache has room, every slab of that size is full: the
\* slabs of a size are all in the list of its cache.
LEMMA NoRoomMeansAllHeld ==
  ASSUME HeapInv, Caches # <<>>, NEW i \in DOMAIN SlabSizes, SlabsWithRoom(i) = {},
         NEW p \in DOMAIN slabs, slabs[p].ObjectSize = SlabSizes[i]
  PROVE  slabs[p].FreeList = <<>>
<1>1. Caches \in [DOMAIN SlabSizes -> Seq(DOMAIN slabs)]
  BY DEF HeapInv, CachesListSlabs
<1>2. PICK c \in DOMAIN Caches : \E d \in DOMAIN Caches[c] : Caches[c][d] = p
  BY DEF HeapInv, CachesListSlabs
<1>3. PICK d \in DOMAIN Caches[c] : Caches[c][d] = p
  BY <1>2
<1>4. slabs[p].ObjectSize = SlabSizes[c] /\ c \in DOMAIN SlabSizes
  BY <1>1, <1>2, <1>3 DEF HeapInv, CachesListSlabs
<1>5. c = i
  <2>1. c \in Nat /\ i \in Nat /\ SlabSizes[c] \in Nat /\ SlabSizes[i] \in Nat
    BY <1>4, KHeapAssumption
  <2>2. /\ c < i => SlabSizes[c] < SlabSizes[i]
        /\ i < c => SlabSizes[i] < SlabSizes[c]
    BY <1>4, KHeapAssumption
  <2> QED BY <1>4, <2>1, <2>2
<1>6. ~ (slabs[p].FreeCount > 0)
  BY <1>3, <1>5 DEF SlabsWithRoom
<1>7. slabs[p] \in Headers /\ slabs[p].FreeCount = Len(slabs[p].FreeList)
  BY DEF HeapInv, HeapShape, ObjectsAccountedFor, Consistent
<1>8. slabs[p].FreeList \in Seq(Nat) /\ Len(slabs[p].FreeList) = 0
  BY <1>6, <1>7 DEF Headers
<1> QED BY <1>8

\* A block of pages that nobody held is a new block.
LEMMA LargeBlockIsNew ==
  ASSUME PmmInv, HeapInv, NEW n \in Nat, KMallocLarge(n), last'.ret # 0
  PROVE  live' # live
<1> DEFINE k == PagesFor(n)
           b == Block(last'.ret, k * PageSize)
<1>1. k \in Nat \ {0} /\ AllocPages(k) /\ live' = live \cup {b}
  BY LargeNeedsPages DEF KMallocLarge
<1> HIDE DEF k
<1>2. PICK start \in Nat : /\ last'.ret = start * PageSize
                           /\ (start .. start + k - 1) \cap lent = {}
  BY <1>1, PagesHandedOut
<1>3. b.addr \div PageSize = start
  BY <1>2, PageAddress DEF Block
<1>4. start \in start .. start + k - 1
  BY <1>1
<1> HIDE DEF b
<1>5. b \notin live
  <2>1. heapPages \subseteq lent /\ heapPages \subseteq Nat
    BY HeapPagesNat DEF HeapInv, HeapShape
  <2>2. b \in live => start \in heapPages
    BY <1>3, <2>1, BlockFacts
  <2> QED BY <1>2, <1>4, <2>1, <2>2
<1> QED BY <1>1, <1>5

\* KMalloc fails only when memory is out, for every page size and object
\* size: it never misses an object that is free in one of the slabs of the
\* fitting size, nor a run of free pages.
THEOREM HeapFailsOnlyWhenFull == HeapSpec => KMallocFailsOnlyWhenFull
<1> DEFINE Full(n) ==
      LET need == IF n > LargestObject THEN PagesFor(n) ELSE 1
      IN  /\ FreeRuns(need) = {}
          /\ n <= LargestObject =>
               \A p \in DOMAIN slabs :
                 slabs[p].ObjectSize = SlabSizes[GetSlabCache(n)] => slabs[p].FreeList = <<>>
<1>1. ASSUME PmmInv, HeapInv, NEW n \in Sizes \ {0}, KMalloc(n), live' = live
      PROVE  Full(n)
  <2>1. n \in Nat \ {0} /\ PagesFor(n) <= MaxCount /\ LargestObject \in Nat
    BY KHeapAssumption DEF LargestObject
  <2>2. heapPages \subseteq Nat /\ Caches # <<>>
    BY <1>1, HeapPagesNat DEF KMalloc
  <2>3. CASE KMallocLarge(n)
    <3>1. last'.ret = 0 /\ n > LargestObject /\ AllocPages(PagesFor(n))
      BY <1>1, <2>1, <2>3, LargeBlockIsNew DEF KMallocLarge
    <3>2. PagesFor(n) \in Nat \ {0}
      BY <2>1, <3>1, LargeNeedsPages
    <3>3. FreeRuns(PagesFor(n)) = {}
      BY <1>1, <2>1, <3>1, <3>2, RefusedMeansNoRun
    <3>4. ~ (n <= LargestObject)
      BY <2>1, <3>1
    <3> QED BY <3>1, <3>3, <3>4
  <2>4. CASE KMallocObject(n)
    BY <1>1, <2>1, <2>2, <2>4, KMallocObjectStep
  <2>5. CASE KMallocNewSlab(n)
    <3>1. /\ last'.ret = 0 /\ n <= LargestObject /\ AllocPage
          /\ SlabsWithRoom(GetSlabCache(n)) = {}
      BY <1>1, <2>1, <2>2, <2>5, KMallocNewSlabStep DEF KMallocNewSlab
    <3>2. GetSlabCache(n) \in DOMAIN SlabSizes
      BY <2>1, <3>1, CacheFound
    <3>3. \A p \in DOMAIN slabs :
            slabs[p].ObjectSize = SlabSizes[GetSlabCache(n)] => slabs[p].FreeList = <<>>
      BY <1>1, <2>2, <3>1, <3>2, NoRoomMeansAllHeld
    <3>4. FreeRuns(1) = {}
      BY <1>1, <3>1, RefusedMeansNoRun
    <3>5. ~ (n > LargestObject)
      BY <2>1, <3>1
    <3> QED BY <3>3, <3>4, <3>5
  <2> QED BY <1>1, <2>3, <2>4, <2>5 DEF KMalloc
<1>2. PmmInv /\ HeapInv /\ [HeapNext]_allVars =>
        [\A n \in Sizes \ {0} : KMalloc(n) /\ live' = live => Full(n)]_allVars
  BY <1>1
<1> QED
  BY <1>2, HeapInvariant, PTL DEF HeapSpec, KMallocFailsOnlyWhenFull

============================================================================
