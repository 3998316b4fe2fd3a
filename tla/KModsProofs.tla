---------------------------- MODULE KModsProofs ----------------------------
(***************************************************************************)
(* Proofs about KMods: the sections of the modules that run are mapped and *)
(* do not overlap, unmapped code stays unmapped, devices have their        *)
(* drivers' code behind them, and the boot loads numbered modules in       *)
(* order, for any module files, arena size and physical memory.            *)
(***************************************************************************)
EXTENDS KMods, SequenceTheorems, FiniteSetTheorems, WellFoundedInduction, TLAPS

-----------------------------------------------------------------------------
(* Numbers *)

\* A set of naturals has a least element.
LEMMA LeastNat ==
    ASSUME NEW T \in SUBSET Nat, T # {}
    PROVE  \E x \in T : \A y \in T : x <= y
<1> DEFINE less == {ss \in Nat \X Nat : ss[1] < ss[2]}
<1>1. OpToRel(<, Nat) = less
  BY Zenon DEF OpToRel
<1>2. IsWellFoundedOn(less, Nat)
  BY <1>1, NatLessThanWellFounded, Zenon
<1> HIDE DEF less
<1>3. PICK x \in T : \A y \in T : ~ (<<y, x>> \in less)
  BY <1>2, WFMin, Zenon
<1>4. ASSUME NEW y \in T PROVE x <= y
  <2>1. <<y, x>> \in Nat \X Nat /\ <<y, x>>[1] = y /\ <<y, x>>[2] = x
    OBVIOUS
  <2>2. ~(<<y, x>>[1] < <<y, x>>[2])
    BY <1>3, <2>1, Zenon DEF less
  <2>3. ~(y < x)
    BY <2>1, <2>2
  <2> QED
    BY <2>3
<1> QED
  BY <1>4

\* Induction, for a set of naturals.
LEMMA Induction ==
    ASSUME NEW T, 0 \in T, \A n \in Nat : n \in T => n + 1 \in T
    PROVE  \A n \in Nat : n \in T
<1> SUFFICES ASSUME Nat \ T # {} PROVE FALSE
  OBVIOUS
<1>1. PICK x \in Nat \ T : \A y \in Nat \ T : x <= y
  BY LeastNat
<1>2. x # 0 /\ x - 1 \in Nat /\ x - 1 \in T
  BY <1>1
<1> QED
  BY <1>1, <1>2

Below(S, x) == {y \in S : y < x}

\* A finite set of naturals has an element with k smaller ones, if it has more
\* than k elements.
LEMMA RankExists ==
    ASSUME NEW S \in SUBSET Nat, IsFiniteSet(S)
    PROVE  \A k \in Nat : k < Cardinality(S) => \E x \in S : Cardinality(Below(S, x)) = k
<1> DEFINE T == {k \in Nat : k < Cardinality(S) => \E x \in S : Cardinality(Below(S, x)) = k}
<1>0. Cardinality(S) \in Nat /\ \A y \in S : y \in Nat
  BY FS_CardinalityType
<1>1. 0 \in T
  <2> SUFFICES ASSUME 0 < Cardinality(S) PROVE \E x \in S : Cardinality(Below(S, x)) = 0
    OBVIOUS
  <2>1. S # {}
    BY FS_EmptySet
  <2>2. PICK x \in S : \A y \in S : x <= y
    BY <2>1, LeastNat
  <2>3. Below(S, x) = {}
    <3>1. \A y \in S : ~(y < x)
      BY <1>0, <2>2
    <3> QED
      BY <3>1 DEF Below
  <2> QED
    BY <2>3, FS_EmptySet
<1>2. ASSUME NEW k \in Nat, k \in T PROVE k + 1 \in T
  <2> SUFFICES ASSUME k + 1 < Cardinality(S)
               PROVE  \E x \in S : Cardinality(Below(S, x)) = k + 1
    OBVIOUS
  <2>1. PICK x \in S : Cardinality(Below(S, x)) = k
    BY <1>0, <1>2
  <2>2. IsFiniteSet(Below(S, x)) /\ x \notin Below(S, x)
    BY FS_Subset DEF Below
  <2>3. Cardinality(Below(S, x) \cup {x}) = k + 1
    BY <2>1, <2>2, FS_AddElement
  <2> DEFINE rest == {y \in S : y > x}
  <2>4. rest # {}
    <3>1. ASSUME rest = {} PROVE S = Below(S, x) \cup {x}
      <4>1. \A y \in S : y < x \/ y = x
        BY <1>0, <3>1
      <4> QED
        BY <4>1 DEF Below
    <3> QED
      BY <1>0, <2>3, <3>1
  <2>5. PICK z \in rest : \A y \in rest : z <= y
    BY <2>4, LeastNat
  <2>6. Below(S, z) = Below(S, x) \cup {x}
    <3>1. \A y \in S : y < z <=> y < x \/ y = x
      BY <1>0, <2>5
    <3> QED
      BY <3>1 DEF Below
  <2> QED
    BY <2>3, <2>5, <2>6
<1> HIDE DEF T
<1>3. \A k \in Nat : k \in T
  BY <1>1, <1>2, Induction
<1> QED
  BY <1>3 DEF T

-----------------------------------------------------------------------------
(* The invariant of the memory of modules *)

Arenas == {"text", "data"}
SectionType == [text : BOOLEAN, pages : Nat, bss : BOOLEAN]
JobType == [mod : Mods, inst : Nat, bases : Seq(SUBSET Pages)]
RecordType == [Name : Mods, inst : Nat, pages : SUBSET Pages]

MemTypes ==
    /\ cursor \in [Arenas -> 0 .. ArenaPages]
    /\ pte \in [Pages -> Frames \cup {NoFrame}]
    /\ free \in SUBSET Frames
    /\ released \in SUBSET Pages

ListTypes ==
    /\ installs \in Nat
    /\ boot \in Seq(Mods)
    /\ job # NoJob => job \in JobType
    /\ modules \in Seq(RecordType)
    /\ unlisted \in SUBSET RecordType

\* No frame backs two pages or is free while it backs one.
FramesApart ==
    /\ \A p, q \in Pages : p # q /\ pte[p] # NoFrame => pte[p] # pte[q]
    /\ \A p \in Pages : pte[p] # NoFrame => pte[p] \notin free

\* A page that a section was given lies behind the cursor and is mapped, and
\* what is behind the cursor is never given again.
Given(p) == p[2] < cursor[p[1]] /\ pte[p] # NoFrame

PagesGiven ==
    /\ \A r \in Running : \A p \in r.pages : Given(p)
    /\ job # NoJob => \A p \in JobPages : Given(p)
    /\ \A p \in released : p[2] < cursor[p[1]] /\ pte[p] = NoFrame

Distinct(s) == \A j, k \in 1 .. Len(s) : s[j] = s[k] => j = k

\* Modules that run, and the one being installed, are told apart by their
\* installation, and have no page in common.
ModulesApart ==
    /\ \A r, s \in Running : r # s => r.pages \cap s.pages = {}
    /\ \A r \in Running : r.inst <= installs
    /\ job # NoJob => /\ job.inst <= installs
                      /\ \A r \in Running : r.inst # job.inst /\ r.pages \cap JobPages = {}
    /\ Distinct(modules)
    /\ \A i \in 1 .. Len(modules) : modules[i] \notin unlisted

ModInv == MemTypes /\ ListTypes /\ FramesApart /\ PagesGiven /\ ModulesApart

-----------------------------------------------------------------------------
(* Operators of ModMem *)

LEMMA FreeIsFinite ==
    ASSUME MemTypes
    PROVE  /\ IsFiniteSet(free) /\ Cardinality(free) \in Nat
           /\ \A x \in free : x \in Nat /\ x # NoFrame
<1>1. IsFiniteSet(Frames)
  BY KModsAssumption, FS_Interval DEF Frames
<1>2. IsFiniteSet(free)
  BY <1>1, FS_Subset DEF MemTypes
<1> QED
  BY <1>2, FS_CardinalityType, KModsAssumption DEF MemTypes, Frames

\* What AllocPage gives in turn are different free frames.
LEMMA NthFrameIs ==
    ASSUME MemTypes, NEW n \in Nat, n <= Cardinality(free)
    PROVE  /\ \A k \in 0 .. n - 1 : NthFrame(k) \in Taken(n)
           /\ \A k, l \in 0 .. n - 1 : NthFrame(k) = NthFrame(l) => k = l
           /\ Taken(n) \subseteq free
<1>1. ASSUME NEW k \in 0 .. n - 1
      PROVE  NthFrame(k) \in free /\ Cardinality(Below(free, NthFrame(k))) = k
  <2>1. \E x \in free : Cardinality(Below(free, x)) = k
    <3>1. free \in SUBSET Nat
      BY FreeIsFinite
    <3> QED
      BY <3>1, FreeIsFinite, RankExists
  <2> QED
    BY <2>1, Zenon DEF NthFrame, Below
<1>2. \A k \in 0 .. n - 1 : NthFrame(k) \in Taken(n)
  <2> TAKE k \in 0 .. n - 1
  <2>1. NthFrame(k) \in free /\ Cardinality({y \in free : y < NthFrame(k)}) < n
    BY <1>1 DEF Below
  <2> QED
    BY <2>1, Zenon DEF Taken
<1>3. \A k, l \in 0 .. n - 1 : NthFrame(k) = NthFrame(l) => k = l
  BY <1>1
<1> QED
  BY <1>2, <1>3 DEF Taken

\* What n pages of a run become: those that were mapped stay as they are, the
\* others get a free frame each.
LEMMA MappedIs ==
    ASSUME MemTypes, FramesApart, NEW sec \in SectionType,
           NEW n \in Nat, n <= Cardinality(free),
           NEW map, map = Mapped(sec, n)
    PROVE  /\ map \in [Pages -> Frames \cup {NoFrame}]
           /\ \A p \in Pages : pte[p] # NoFrame => map[p] = pte[p]
           /\ \A p \in Pages : pte[p] = NoFrame /\ map[p] # NoFrame =>
                 map[p] \in Taken(n) /\ p \in Run(Arena(sec), cursor[Arena(sec)], n)
           /\ \A p \in Run(Arena(sec), cursor[Arena(sec)], n) : p \in Pages => map[p] # NoFrame
           /\ \A p, q \in Pages : p # q /\ map[p] # NoFrame => map[p] # map[q]
           /\ Taken(n) \subseteq free
<1> DEFINE a == Arena(sec)
           run == Run(a, cursor[a], n)
           fresh(p) == p \in run /\ pte[p] = NoFrame
<1>1. a \in Arenas /\ cursor[a] \in Nat
  BY DEF Arena, Arenas, MemTypes
<1>2. \A p \in Pages : map[p] = IF fresh(p) THEN NthFrame(p[2] - cursor[a]) ELSE pte[p]
  BY DEF Mapped
<1>3. \A p \in run : p[1] = a /\ p[2] - cursor[a] \in 0 .. n - 1 /\ p[2] \in Nat
  BY <1>1 DEF Run
<1> HIDE DEF run, a
<1>4. \A p \in Pages : fresh(p) => map[p] \in Taken(n) /\ map[p] \in free
  BY <1>2, <1>3, NthFrameIs
<1>5. \A p \in Pages : ~fresh(p) => map[p] = pte[p]
  BY <1>2
<1>6. \A x \in free : x \in Frames /\ x # NoFrame
  BY FreeIsFinite DEF MemTypes
<1>7. map \in [Pages -> Frames \cup {NoFrame}]
  <2>1. map = [p \in Pages |-> map[p]]
    BY DEF Mapped
  <2>2. \A p \in Pages : map[p] \in Frames \cup {NoFrame}
    BY <1>4, <1>5, <1>6 DEF MemTypes
  <2> QED
    BY <2>1, <2>2
<1>8. ASSUME NEW p \in Pages, NEW q \in Pages, p # q, map[p] # NoFrame
      PROVE  map[p] # map[q]
  <2>1. CASE fresh(p) /\ fresh(q)
    <3>1. p[1] = a /\ q[1] = a /\ p[2] \in Nat /\ q[2] \in Nat
          /\ p[2] - cursor[a] \in 0 .. n - 1 /\ q[2] - cursor[a] \in 0 .. n - 1
      BY <1>3, <2>1
    <3>2. p = <<p[1], p[2]>> /\ q = <<q[1], q[2]>>
      BY DEF Pages
    <3>3. p[2] # q[2]
      BY <1>8, <3>1, <3>2
    <3>4. p[2] - cursor[a] # q[2] - cursor[a]
      BY <1>1, <3>1, <3>3
    <3>5. NthFrame(p[2] - cursor[a]) # NthFrame(q[2] - cursor[a])
      BY <3>1, <3>4, NthFrameIs
    <3> QED
      BY <1>2, <2>1, <3>5
  <2>2. CASE fresh(p) /\ ~fresh(q)
    BY <1>4, <1>5, <1>6, <2>2 DEF FramesApart
  <2>3. CASE ~fresh(p) /\ fresh(q)
    BY <1>4, <1>5, <1>6, <1>8, <2>3 DEF FramesApart
  <2>4. CASE ~fresh(p) /\ ~fresh(q)
    BY <1>5, <1>8, <2>4 DEF FramesApart
  <2> QED
    BY <2>1, <2>2, <2>3, <2>4
<1>9. \A p \in run : p \in Pages => map[p] # NoFrame
  BY <1>4, <1>5, <1>6
<1> QED
  BY <1>4, <1>5, <1>7, <1>8, <1>9, NthFrameIs DEF run, a

LEMMA RunIs ==
    ASSUME MemTypes, NEW sec \in SectionType, Fits(sec)
    PROVE  /\ Arena(sec) \in Arenas
           /\ cursor[Arena(sec)] + sec.pages \in 0 .. ArenaPages
           /\ NewRun(sec) \subseteq Pages
           /\ \A p \in NewRun(sec) : /\ p[1] = Arena(sec) /\ ~(p[2] < cursor[Arena(sec)])
                                     /\ p[2] < cursor[Arena(sec)] + sec.pages
<1> DEFINE a == Arena(sec)
<1>1. a \in Arenas /\ cursor[a] \in Nat /\ sec.pages \in Nat
  BY DEF Arena, Arenas, MemTypes, SectionType
<1>2. ArenaPages \in Nat /\ cursor[a] + sec.pages <= ArenaPages
  BY KModsAssumption DEF Fits
<1>3. NewRun(sec) = {<<a, i>> : i \in cursor[a] .. (cursor[a] + sec.pages - 1)}
  BY DEF NewRun, Run
<1> HIDE DEF a
<1>4. NewRun(sec) \subseteq Pages
  BY <1>1, <1>2, <1>3 DEF Pages, Arenas
<1>5. \A p \in NewRun(sec) : p[1] = a /\ p[2] \in cursor[a] .. (cursor[a] + sec.pages - 1)
  BY <1>3
<1> QED
  BY <1>1, <1>2, <1>4, <1>5 DEF a

\* ModMalloc gives a run that was not given before and keeps what was given.
LEMMA ModMallocIs ==
    ASSUME MemTypes, FramesApart, NEW sec \in SectionType, ModMalloc(sec), released' = released
    PROVE  /\ MemTypes' /\ FramesApart'
           /\ NewRun(sec) \subseteq Pages
           /\ \A p \in NewRun(sec) : /\ ~(p[2] < cursor[p[1]])
                                     /\ p[2] < cursor'[p[1]] /\ pte'[p] # NoFrame
           /\ \A p \in Pages : p[2] < cursor[p[1]] =>
                 p[2] < cursor'[p[1]] /\ pte'[p] = pte[p]
<1> DEFINE a == Arena(sec)
<1>1. /\ Fits(sec) /\ sec.pages <= Cardinality(free) /\ sec.pages \in Nat
      /\ pte' = Mapped(sec, sec.pages) /\ free' = free \ Taken(sec.pages)
      /\ cursor' = [cursor EXCEPT ![a] = @ + sec.pages]
  BY FreeIsFinite DEF ModMalloc, SectionType
<1>2. /\ pte' \in [Pages -> Frames \cup {NoFrame}]
      /\ \A p \in Pages : pte[p] # NoFrame => pte'[p] = pte[p]
      /\ \A p \in Pages : pte[p] = NoFrame /\ pte'[p] # NoFrame =>
            pte'[p] \in Taken(sec.pages) /\ p \in NewRun(sec)
      /\ \A p \in NewRun(sec) : p \in Pages => pte'[p] # NoFrame
      /\ \A p, q \in Pages : p # q /\ pte'[p] # NoFrame => pte'[p] # pte'[q]
      /\ Taken(sec.pages) \subseteq free
  BY <1>1, MappedIs DEF NewRun
<1>3. /\ a \in Arenas /\ cursor[a] + sec.pages \in 0 .. ArenaPages
      /\ NewRun(sec) \subseteq Pages
      /\ \A p \in NewRun(sec) : p[1] = a /\ ~(p[2] < cursor[a]) /\ p[2] < cursor[a] + sec.pages
  BY <1>1, RunIs
<1> HIDE DEF a
<1>4. /\ cursor' \in [Arenas -> 0 .. ArenaPages]
      /\ cursor'[a] = cursor[a] + sec.pages
      /\ \A b \in Arenas : cursor[b] <= cursor'[b]
  BY <1>1, <1>3, KModsAssumption DEF MemTypes
<1>5. MemTypes'
  BY <1>1, <1>2, <1>4 DEF MemTypes, Pages, Frames
<1>6. FramesApart'
  <2>1. \A p \in Pages : pte'[p] # NoFrame => pte'[p] \notin free'
    BY <1>1, <1>2 DEF FramesApart
  <2> QED
    BY <1>2, <2>1 DEF FramesApart
<1>7. ASSUME NEW p \in Pages, p[2] < cursor[p[1]]
      PROVE  p[2] < cursor'[p[1]] /\ pte'[p] = pte[p]
  <2>1. p[1] \in Arenas /\ p[2] \in Nat
    BY DEF Pages, Arenas
  <2>2. cursor[p[1]] \in Nat /\ cursor'[p[1]] \in Nat
    BY <1>4, <2>1, KModsAssumption DEF MemTypes
  <2>3. p \notin NewRun(sec)
    BY <1>3, <1>7
  <2>4. pte'[p] = pte[p]
    BY <1>2, <2>3
  <2> QED
    BY <1>4, <1>7, <2>1, <2>2, <2>4
<1> QED
  BY <1>2, <1>3, <1>4, <1>5, <1>6, <1>7

\* ModFree of pages that were given.
LEMMA ModFreeIs ==
    ASSUME MemTypes, NEW map \in [Pages -> Frames \cup {NoFrame}],
           \A p, q \in Pages : p # q /\ map[p] # NoFrame => map[p] # map[q],
           NEW rest \in SUBSET Frames, \A p \in Pages : map[p] # NoFrame => map[p] \notin rest,
           NEW ps \in SUBSET Pages, ModFree(map, rest, ps), cursor' = cursor
    PROVE  /\ MemTypes' /\ FramesApart'
           /\ \A p \in ps : pte'[p] = NoFrame
           /\ \A p \in Pages \ ps : pte'[p] = map[p]
           /\ released' \subseteq released \cup ps
           /\ released \subseteq released'
<1>1. /\ \A p \in ps : pte'[p] = NoFrame
      /\ \A p \in Pages \ ps : pte'[p] = map[p]
      /\ pte' \in [Pages -> Frames \cup {NoFrame}]
  BY DEF ModFree, Unmapped
<1>2. free' = rest \cup FramesOf(map, ps) /\ released' = released \cup {p \in ps : map[p] # NoFrame}
  BY DEF ModFree
<1>3. \A x \in FramesOf(map, ps) : \E q \in ps : map[q] = x /\ map[q] # NoFrame
  BY DEF FramesOf
<1>4. MemTypes'
  <2>1. free' \in SUBSET Frames
    BY <1>2, <1>3
  <2> QED
    BY <1>1, <1>2, <2>1 DEF MemTypes, Frames, Pages
<1>5. FramesApart'
  <2>1. \A p, q \in Pages : p # q /\ pte'[p] # NoFrame => pte'[p] # pte'[q]
    BY <1>1
  <2>2. ASSUME NEW p \in Pages, pte'[p] # NoFrame PROVE pte'[p] \notin free'
    <3>1. p \notin ps /\ pte'[p] = map[p]
      BY <1>1, <2>2
    <3> QED
      BY <1>2, <1>3, <2>2, <3>1
  <2> QED
    BY <2>1, <2>2 DEF FramesApart
<1> QED
  BY <1>1, <1>2, <1>4, <1>5

LEMMA GivenFreedIs ==
    ASSUME ModInv, NEW ps \in SUBSET Pages, ModFree(pte, free, ps), cursor' = cursor
    PROVE  /\ MemTypes' /\ FramesApart'
           /\ \A p \in ps : pte'[p] = NoFrame
           /\ \A p \in Pages \ ps : pte'[p] = pte[p]
           /\ released' \subseteq released \cup ps
<1>1. /\ MemTypes /\ pte \in [Pages -> Frames \cup {NoFrame}] /\ free \in SUBSET Frames
      /\ \A p, q \in Pages : p # q /\ pte[p] # NoFrame => pte[p] # pte[q]
      /\ \A p \in Pages : pte[p] # NoFrame => pte[p] \notin free
  BY DEF ModInv, MemTypes, FramesApart
<1> QED
  BY <1>1, ModFreeIs

-----------------------------------------------------------------------------
(* Lists *)

\* A list without its i-th element.
LEMMA RemoveAtIs ==
    ASSUME NEW S, NEW s \in Seq(S), NEW i \in 1 .. Len(s), NEW t, t = RemoveAt(s, i)
    PROVE  /\ t \in Seq(S) /\ Len(t) = Len(s) - 1
           /\ \A j \in 1 .. Len(t) : t[j] = IF j < i THEN s[j] ELSE s[j + 1]
<1> DEFINE n == Len(s)
           u == SubSeq(s, 1, i - 1)
           v == SubSeq(s, i + 1, n)
<1>1. n \in Nat /\ \A j \in 1 .. n : s[j] \in S
  BY LenProperties, ElementOfSeq
<1> HIDE DEF n
<1>2. i \in Nat /\ i >= 1 /\ i <= n
  BY <1>1 DEF n
<1>3. u \in Seq(S) /\ Len(u) = i - 1 /\ \A j \in 1 .. i - 1 : u[j] = s[j]
  <2>1. \A j \in 1 .. i - 1 : s[j] \in S
    BY <1>1, <1>2
  <2> QED
    BY <1>2, <2>1, SubSeqProperties
<1>4. v \in Seq(S) /\ Len(v) = n - i /\ \A j \in 1 .. n - i : v[j] = s[j + i]
  <2>1. \A j \in i + 1 .. n : s[j] \in S
    BY <1>1, <1>2
  <2>2. /\ v \in Seq(S)
        /\ Len(v) = IF i + 1 <= n THEN n - (i + 1) + 1 ELSE 0
        /\ \A j \in 1 .. n - (i + 1) + 1 : v[j] = s[(i + 1) + j - 1]
    BY <1>1, <1>2, <2>1, SubSeqProperties
  <2> QED
    BY <1>1, <1>2, <2>2
<1>5. t = u \o v
  BY DEF RemoveAt, n
<1> HIDE DEF u, v
<1>6. /\ t \in Seq(S) /\ Len(t) = n - 1
      /\ \A j \in 1 .. n - 1 : t[j] = IF j <= i - 1 THEN u[j] ELSE v[j - (i - 1)]
  <2>1. /\ u \o v \in Seq(S) /\ Len(u \o v) = Len(u) + Len(v)
        /\ \A j \in 1 .. Len(u) + Len(v) : (u \o v)[j] = IF j <= Len(u) THEN u[j] ELSE v[j - Len(u)]
    BY <1>3, <1>4, ConcatProperties
  <2>2. Len(u) = i - 1 /\ Len(u) + Len(v) = n - 1
    BY <1>1, <1>2, <1>3, <1>4
  <2> QED
    BY <1>5, <2>1, <2>2
<1>7. ASSUME NEW j \in 1 .. n - 1 PROVE t[j] = IF j < i THEN s[j] ELSE s[j + 1]
  <2>1. CASE j < i
    BY <1>2, <1>3, <1>6, <2>1
  <2>2. CASE ~(j < i)
    <3>1. j - (i - 1) \in 1 .. n - i
      BY <1>1, <1>2, <2>2
    <3>2. v[j - (i - 1)] = s[(j - (i - 1)) + i] /\ (j - (i - 1)) + i = j + 1
      BY <1>2, <1>4, <3>1
    <3> QED
      BY <1>2, <1>6, <2>2, <3>2
  <2> QED
    BY <2>1, <2>2
<1> QED
  BY <1>6, <1>7 DEF n

\* Taking an element out of a list of distinct elements.
LEMMA RangeRemoveAt ==
    ASSUME NEW S, NEW s \in Seq(S), NEW i \in 1 .. Len(s), NEW t, t = RemoveAt(s, i), Distinct(s)
    PROVE  t \in Seq(S) /\ Range(t) = Range(s) \ {s[i]} /\ Distinct(t)
<1> DEFINE n == Len(s)
<1>1. /\ t \in Seq(S) /\ Len(t) = n - 1 /\ n \in Nat
      /\ \A j \in 1 .. n - 1 : t[j] = IF j < i THEN s[j] ELSE s[j + 1]
  BY RemoveAtIs, LenProperties
<1>2. i \in 1 .. n /\ \A j, k \in 1 .. n : s[j] = s[k] => j = k
  BY DEF Distinct
<1>3. DOMAIN t = 1 .. n - 1 /\ DOMAIN s = 1 .. n
  BY <1>1
<1> HIDE DEF n
<1>4. \A j \in 1 .. n - 1 : (j < i => j \in 1 .. n /\ j # i)
                            /\ (~(j < i) => j + 1 \in 1 .. n /\ j + 1 # i)
  BY <1>1, <1>2
<1>5. ASSUME NEW x \in Range(t) PROVE x \in Range(s) /\ x # s[i]
  <2>1. PICK j \in 1 .. n - 1 : x = t[j]
    BY <1>3, <1>5 DEF Range
  <2>2. PICK k \in 1 .. n : x = s[k] /\ k # i
    <3>1. CASE j < i
      BY <1>1, <1>4, <2>1, <3>1
    <3>2. CASE ~(j < i)
      BY <1>1, <1>4, <2>1, <3>2
    <3> QED
      BY <3>1, <3>2
  <2> QED
    BY <1>2, <1>3, <2>2 DEF Range
<1>6. ASSUME NEW x \in Range(s), x # s[i] PROVE x \in Range(t)
  <2>1. PICK k \in 1 .. n : x = s[k]
    BY <1>3, <1>6 DEF Range
  <2>2. k # i
    BY <1>6, <2>1
  <2>3. \E j \in 1 .. n - 1 : t[j] = x
    <3>1. CASE k < i
      <4>1. k \in 1 .. n - 1
        BY <1>1, <1>2, <3>1
      <4> QED
        BY <1>1, <2>1, <3>1, <4>1
    <3>2. CASE ~(k < i)
      <4>1. k - 1 \in 1 .. n - 1 /\ ~(k - 1 < i) /\ (k - 1) + 1 = k
        BY <1>1, <1>2, <2>2, <3>2
      <4>2. t[k - 1] = s[(k - 1) + 1]
        BY <1>1, <4>1
      <4> QED
        BY <2>1, <4>1, <4>2
    <3> QED
      BY <3>1, <3>2
  <2> QED
    BY <1>3, <2>3 DEF Range
<1>7. \A j, k \in 1 .. n - 1 : t[j] = t[k] => j = k
  <2> SUFFICES ASSUME NEW j \in 1 .. n - 1, NEW k \in 1 .. n - 1, t[j] = t[k] PROVE j = k
    OBVIOUS
  <2> DEFINE up(l) == IF l < i THEN l ELSE l + 1
  <2>1. up(j) \in 1 .. n /\ up(k) \in 1 .. n
    BY <1>1, <1>2
  <2>2. t[j] = s[up(j)] /\ t[k] = s[up(k)]
    BY <1>1
  <2>3. up(j) = up(k)
    <3> HIDE DEF up
    <3> QED
      BY <1>2, <2>1, <2>2
  <2> QED
    BY <1>1, <1>2, <2>3
<1> QED
  BY <1>1, <1>5, <1>6, <1>7 DEF Distinct

InFront(x, s) == <<x>> \o s

\* A new element in front of a list.
LEMMA RangeInFront ==
    ASSUME NEW S, NEW s \in Seq(S), NEW x \in S, x \notin Range(s), NEW t, t = InFront(x, s), Distinct(s)
    PROVE  t \in Seq(S) /\ Range(t) = Range(s) \cup {x} /\ Distinct(t)
<1> DEFINE n == Len(s)
<1>1. /\ t \in Seq(S) /\ Len(t) = n + 1 /\ n \in Nat
      /\ \A j \in 1 .. n + 1 : t[j] = IF j <= 1 THEN x ELSE s[j - 1]
  <2>1. <<x>> \in Seq(S) /\ Len(<<x>>) = 1 /\ <<x>>[1] = x
    OBVIOUS
  <2>2. /\ t \in Seq(S) /\ Len(t) = 1 + n /\ n \in Nat
        /\ \A j \in 1 .. 1 + n : t[j] = IF j <= 1 THEN <<x>>[j] ELSE s[j - 1]
    BY <2>1, ConcatProperties, LenProperties DEF InFront
  <2> QED
    BY <2>1, <2>2
<1>2. DOMAIN t = 1 .. n + 1 /\ DOMAIN s = 1 .. n
  BY <1>1
<1>3. \A j \in 1 .. n : s[j] # x
  BY <1>2 DEF Range
<1>4. \A j, k \in 1 .. n : s[j] = s[k] => j = k
  BY DEF Distinct
<1> HIDE DEF n
<1>5. \A j \in 1 .. n + 1 : j > 1 => j - 1 \in 1 .. n
  BY <1>1
<1>6. Range(t) \subseteq Range(s) \cup {x}
  <2> SUFFICES ASSUME NEW j \in 1 .. n + 1 PROVE t[j] \in Range(s) \cup {x}
    BY <1>2 DEF Range
  <2>1. CASE j <= 1
    BY <1>1, <2>1
  <2>2. CASE ~(j <= 1)
    <3>1. j - 1 \in 1 .. n /\ t[j] = s[j - 1]
      BY <1>1, <1>5, <2>2
    <3> QED
      BY <1>2, <3>1 DEF Range
  <2> QED
    BY <2>1, <2>2
<1>7. Range(s) \cup {x} \subseteq Range(t)
  <2>1. \A j \in 1 .. n : j + 1 \in 1 .. n + 1 /\ t[j + 1] = s[j]
    BY <1>1
  <2>2. t[1] = x /\ 1 \in 1 .. n + 1
    BY <1>1
  <2> QED
    <3>1. ASSUME NEW j \in 1 .. n PROVE s[j] \in Range(t)
      <4>1. j + 1 \in DOMAIN t /\ t[j + 1] = s[j]
        BY <1>2, <2>1
      <4> QED
        BY <4>1 DEF Range
    <3>2. x \in Range(t)
      BY <1>2, <2>2 DEF Range
    <3> QED
      BY <1>2, <3>1, <3>2 DEF Range
<1>8. ASSUME NEW j \in 1 .. n + 1, NEW k \in 1 .. n + 1, t[j] = t[k] PROVE j = k
  <2>1. CASE j > 1 /\ k > 1
    <3>1. s[j - 1] = s[k - 1] /\ j - 1 \in 1 .. n /\ k - 1 \in 1 .. n
      BY <1>1, <1>5, <1>8, <2>1
    <3>2. j - 1 = k - 1
      BY <1>4, <3>1
    <3> QED
      BY <1>1, <3>2
  <2>2. CASE j <= 1 /\ k > 1
    BY <1>1, <1>3, <1>5, <1>8, <2>2
  <2>3. CASE j > 1 /\ k <= 1
    BY <1>1, <1>3, <1>5, <1>8, <2>3
  <2>4. CASE j <= 1 /\ k <= 1
    BY <1>1, <2>4
  <2> QED
    BY <1>1, <2>1, <2>2, <2>3, <2>4
<1> QED
  BY <1>1, <1>6, <1>7, <1>8 DEF Distinct

-----------------------------------------------------------------------------
(* The calls preserve the invariant *)

LEMMA JobIs ==
    ASSUME ListTypes, job # NoJob
    PROVE  /\ job \in JobType /\ job.mod \in Mods /\ job.inst \in Nat
           /\ job.bases \in Seq(SUBSET Pages) /\ JobPages \in SUBSET Pages
           /\ Sections[job.mod] \in Seq(SectionType)
           /\ Loading => NextSection \in SectionType
<1>1. job \in JobType /\ job.mod \in Mods /\ job.inst \in Nat /\ job.bases \in Seq(SUBSET Pages)
  BY DEF ListTypes, JobType
<1>2. Sections[job.mod] \in Seq(SectionType)
  BY <1>1, KModsAssumption DEF SectionType
<1>3. JobPages \in SUBSET Pages
  BY <1>1 DEF JobPages, Range
<1>4. Loading => NextSection \in SectionType
  <2> DEFINE secs == Sections[job.mod]
             k == Len(job.bases)
  <2>1. secs \in Seq(SectionType) /\ k \in Nat /\ Len(secs) \in Nat
    BY <1>1, <1>2
  <2>2. Loading => k < Len(secs)
    BY DEF Loading
  <2>3. NextSection = secs[k + 1]
    BY DEF NextSection
  <2> HIDE DEF secs, k
  <2> QED
    BY <2>1, <2>2, <2>3
<1> QED
  BY <1>1, <1>2, <1>3, <1>4

LEMMA RunningIs ==
    ASSUME ListTypes
    PROVE  Running \in SUBSET RecordType /\ DOMAIN modules = 1 .. Len(modules)
  BY DEF ListTypes, Running, Range

LEMMA BeginKeepsInv ==
    ASSUME ModInv, NEW m \in Mods, Begin(m), boot' \in Seq(Mods)
    PROVE  ModInv'
<1>1. /\ job' = [mod |-> m, inst |-> installs + 1, bases |-> <<>>] /\ installs' = installs + 1
      /\ UNCHANGED <<cursor, pte, free, modules, unlisted, released>>
  BY DEF Begin, memvars
<1>2. /\ job' \in JobType /\ job'.inst = installs + 1 /\ UNION Range(job'.bases) = {}
      /\ installs \in Nat
  <2>1. <<>> \in Seq(SUBSET Pages) /\ DOMAIN <<>> = {}
    OBVIOUS
  <2>2. installs \in Nat
    BY DEF ModInv, ListTypes
  <2> QED
    BY <1>1, <2>1, <2>2 DEF JobType, Range
<1>3. MemTypes' /\ ListTypes' /\ FramesApart'
  BY <1>1, <1>2 DEF ModInv, MemTypes, ListTypes, FramesApart, Pages, Frames
<1>4. Running' = Running /\ \A r \in Running : r.inst \in Nat
  BY <1>1, RunningIs DEF Running, ModInv, RecordType
<1>5. PagesGiven'
  BY <1>1, <1>2, <1>4 DEF ModInv, PagesGiven, Given, JobPages
<1>6. ModulesApart'
  BY <1>1, <1>2, <1>4 DEF ModInv, ModulesApart, JobPages
<1> QED
  BY <1>3, <1>5, <1>6 DEF ModInv

LEMMA LoadSectionKeepsInv ==
    ASSUME ModInv, LoadSection
    PROVE  ModInv'
<1> DEFINE run == NewRun(NextSection)
<1>1. /\ job # NoJob /\ Loading /\ ModMalloc(NextSection)
      /\ job' = [job EXCEPT !.bases = Append(@, run)]
      /\ UNCHANGED <<modules, unlisted, boot, installs, released>>
  BY DEF LoadSection, Outside, Loading
<1>2. /\ MemTypes /\ ListTypes /\ FramesApart /\ PagesGiven /\ ModulesApart
      /\ job \in JobType /\ job.bases \in Seq(SUBSET Pages) /\ JobPages \in SUBSET Pages
      /\ NextSection \in SectionType
  BY <1>1, JobIs DEF ModInv
<1>3. /\ MemTypes' /\ FramesApart'
      /\ run \in SUBSET Pages
      /\ \A p \in run : ~(p[2] < cursor[p[1]]) /\ p[2] < cursor'[p[1]] /\ pte'[p] # NoFrame
      /\ \A p \in Pages : p[2] < cursor[p[1]] => p[2] < cursor'[p[1]] /\ pte'[p] = pte[p]
  BY <1>1, <1>2, ModMallocIs
<1> HIDE DEF run
<1>4. /\ job' \in JobType /\ job'.inst = job.inst /\ job'.bases = Append(job.bases, run)
      /\ job'.mod = job.mod
  <2>1. Append(job.bases, run) \in Seq(SUBSET Pages)
    BY <1>2, <1>3
  <2> QED
    BY <1>1, <1>2, <2>1 DEF JobType
<1>5. UNION Range(job'.bases) = JobPages \cup run
  <2> DEFINE b == job.bases
             n == Len(b)
  <2>1. /\ b \in Seq(SUBSET Pages) /\ n \in Nat
        /\ Append(b, run) \in Seq(SUBSET Pages) /\ Len(Append(b, run)) = n + 1
        /\ \A i \in 1 .. n : Append(b, run)[i] = b[i]
        /\ Append(b, run)[n + 1] = run
    BY <1>2, <1>3
  <2>2. DOMAIN Append(b, run) = 1 .. n + 1 /\ DOMAIN b = 1 .. n
    BY <2>1
  <2> DEFINE c == Append(b, run)
  <2> HIDE DEF b, n
  <2>3. Range(c) = {c[i] : i \in 1 .. n} \cup {c[n + 1]}
    <3>1. 1 .. n + 1 = 1 .. n \cup {n + 1}
      BY <2>1
    <3> QED
      BY <2>2, <3>1 DEF Range
  <2>4. Range(c) = Range(b) \cup {run}
    BY <2>1, <2>2, <2>3 DEF Range
  <2> QED
    BY <1>4, <2>4 DEF b, JobPages
<1>6. Running' = Running /\ Running \in SUBSET RecordType
  BY <1>1, <1>2, RunningIs DEF Running
<1>7. ListTypes'
  BY <1>1, <1>2, <1>4 DEF ListTypes, RecordType, JobType, Pages
<1>8. \A r \in Running : r.pages \in SUBSET Pages
  BY <1>6 DEF RecordType
<1>9. PagesGiven'
  <2>1. \A r \in Running : \A p \in r.pages : p[2] < cursor'[p[1]] /\ pte'[p] # NoFrame
    BY <1>2, <1>3, <1>8 DEF PagesGiven, Given
  <2>2. \A p \in JobPages \cup run : p[2] < cursor'[p[1]] /\ pte'[p] # NoFrame
    BY <1>1, <1>2, <1>3 DEF PagesGiven, Given
  <2>3. \A p \in released : p[2] < cursor'[p[1]] /\ pte'[p] = NoFrame
    BY <1>2, <1>3 DEF PagesGiven, MemTypes
  <2> QED
    BY <1>1, <1>5, <1>6, <2>1, <2>2, <2>3 DEF PagesGiven, Given, JobPages
<1>10. ModulesApart'
  <2>1. \A r \in Running : r.pages \cap run = {}
    BY <1>2, <1>3, <1>8 DEF PagesGiven, Given
  <2>2. \A r \in Running : r.inst # job.inst /\ r.pages \cap (JobPages \cup run) = {}
    BY <1>1, <1>2, <2>1 DEF ModulesApart
  <2> QED
    BY <1>1, <1>2, <1>4, <1>5, <1>6, <2>2 DEF ModulesApart, JobPages
<1> QED
  BY <1>3, <1>7, <1>9, <1>10 DEF ModInv

LEMMA PayloadFailsKeepsInv ==
    ASSUME ModInv, PayloadFails
    PROVE  ModInv'
<1>1. /\ job # NoJob /\ Loading /\ ModMalloc(NextSection) /\ job' = NoJob
      /\ UNCHANGED <<modules, unlisted, boot, installs, released>>
  BY DEF PayloadFails, Outside, Loading
<1>2. /\ MemTypes /\ ListTypes /\ FramesApart /\ PagesGiven /\ ModulesApart
      /\ NextSection \in SectionType
  BY <1>1, JobIs DEF ModInv
<1>3. /\ MemTypes' /\ FramesApart'
      /\ \A p \in Pages : p[2] < cursor[p[1]] => p[2] < cursor'[p[1]] /\ pte'[p] = pte[p]
  BY <1>1, <1>2, ModMallocIs
<1>4. Running' = Running /\ Running \in SUBSET RecordType
  BY <1>1, <1>2, RunningIs DEF Running
<1>5. ListTypes'
  BY <1>1, <1>2 DEF ListTypes, RecordType, JobType, Pages
<1>6. \A r \in Running : r.pages \in SUBSET Pages
  BY <1>4 DEF RecordType
<1>7. PagesGiven'
  <2>1. \A r \in Running : \A p \in r.pages : p[2] < cursor'[p[1]] /\ pte'[p] # NoFrame
    BY <1>2, <1>3, <1>6 DEF PagesGiven, Given
  <2>2. \A p \in released : p[2] < cursor'[p[1]] /\ pte'[p] = NoFrame
    BY <1>2, <1>3 DEF PagesGiven, MemTypes
  <2> QED
    BY <1>1, <1>4, <2>1, <2>2 DEF PagesGiven, Given
<1>8. ModulesApart'
  BY <1>1, <1>2, <1>4 DEF ModulesApart
<1> QED
  BY <1>3, <1>5, <1>7, <1>8 DEF ModInv

\* Freeing the sections of a failed installation.
LEMMA JobFreedKeepsInv ==
    ASSUME ModInv, job # NoJob, job' = NoJob,
           NEW map \in [Pages -> Frames \cup {NoFrame}],
           \A p, q \in Pages : p # q /\ map[p] # NoFrame => map[p] # map[q],
           \A p \in Pages : p[2] < cursor[p[1]] => map[p] = pte[p],
           NEW rest \in SUBSET Frames, \A p \in Pages : map[p] # NoFrame => map[p] \notin rest,
           ModFree(map, rest, JobPages),
           UNCHANGED <<cursor, modules, unlisted, boot, installs>>
    PROVE  ModInv'
<1>1. /\ MemTypes /\ ListTypes /\ FramesApart /\ PagesGiven /\ ModulesApart
      /\ JobPages \in SUBSET Pages
  BY JobIs DEF ModInv
<1>2. /\ MemTypes' /\ FramesApart'
      /\ \A p \in JobPages : pte'[p] = NoFrame
      /\ \A p \in Pages \ JobPages : pte'[p] = map[p]
      /\ released' \subseteq released \cup JobPages
  BY <1>1, ModFreeIs
<1>3. Running' = Running /\ Running \in SUBSET RecordType
  BY <1>1, RunningIs DEF Running
<1>4. ListTypes'
  BY <1>1 DEF ListTypes, RecordType, JobType, Pages
<1>5. \A r \in Running : \A p \in r.pages : p \in Pages \ JobPages
  BY <1>1, <1>3 DEF RecordType, ModulesApart
<1>6. PagesGiven'
  <2>1. \A r \in Running : \A p \in r.pages : p[2] < cursor'[p[1]] /\ pte'[p] # NoFrame
    BY <1>1, <1>2, <1>5 DEF PagesGiven, Given
  <2>2. \A p \in released' : p[2] < cursor'[p[1]] /\ pte'[p] = NoFrame
    <3>1. ASSUME NEW p \in released' PROVE p[2] < cursor'[p[1]] /\ pte'[p] = NoFrame
      <4>1. CASE p \in JobPages
        BY <1>1, <1>2, <4>1 DEF PagesGiven, Given
      <4>2. CASE p \notin JobPages
        <5>1. p \in released /\ p \in Pages \ JobPages
          BY <1>1, <1>2, <3>1, <4>2 DEF MemTypes
        <5> QED
          BY <1>1, <1>2, <5>1 DEF PagesGiven
      <4> QED
        BY <4>1, <4>2
    <3> QED
      BY <3>1
  <2> QED
    BY <1>3, <2>1, <2>2 DEF PagesGiven, Given
<1>7. ModulesApart'
  BY <1>1, <1>3 DEF ModulesApart
<1> QED
  BY <1>2, <1>4, <1>6, <1>7 DEF ModInv

LEMMA SectionFailsKeepsInv ==
    ASSUME ModInv, SectionFails
    PROVE  ModInv'
<1>1. /\ job # NoJob /\ Loading /\ job' = NoJob
      /\ UNCHANGED <<cursor, modules, unlisted, boot, installs>>
      /\ \/ ModFree(pte, free, JobPages)
         \/ \E n \in MappedBefore(NextSection) :
               Fits(NextSection) /\ ModFree(Mapped(NextSection, n), {}, JobPages)
  BY DEF SectionFails, Outside, Loading
<1>2. /\ MemTypes /\ FramesApart /\ NextSection \in SectionType
  BY <1>1, JobIs DEF ModInv
<1>3. CASE ModFree(pte, free, JobPages)
  BY <1>1, <1>2, <1>3, JobFreedKeepsInv DEF MemTypes, FramesApart
<1>4. CASE \E n \in MappedBefore(NextSection) :
               Fits(NextSection) /\ ModFree(Mapped(NextSection, n), {}, JobPages)
  <2>1. PICK n \in MappedBefore(NextSection) :
               Fits(NextSection) /\ ModFree(Mapped(NextSection, n), {}, JobPages)
    BY <1>4
  <2>2. n \in Nat /\ n <= NextSection.pages /\ n <= Cardinality(free)
    <3>1. NextSection.pages \in Nat /\ Cardinality(free) \in Nat
      BY <1>2, FreeIsFinite DEF SectionType
    <3>2. n \in 0 .. (NextSection.pages - 1) /\ n \in {Cardinality(free), Cardinality(free) - 1}
      BY <2>1 DEF MappedBefore
    <3> QED
      BY <3>1, <3>2
  <2> DEFINE map == Mapped(NextSection, n)
             a == Arena(NextSection)
  <2>3. /\ map \in [Pages -> Frames \cup {NoFrame}]
        /\ \A p \in Pages : pte[p] # NoFrame => map[p] = pte[p]
        /\ \A p \in Pages : pte[p] = NoFrame /\ map[p] # NoFrame => p \in Run(a, cursor[a], n)
        /\ \A p, q \in Pages : p # q /\ map[p] # NoFrame => map[p] # map[q]
    BY <1>2, <2>2, MappedIs
  <2>4. cursor[a] \in Nat
    BY <1>2 DEF MemTypes, Arena, Arenas
  <2>5. \A p \in Run(a, cursor[a], n) : p[1] = a /\ ~(p[2] < cursor[a])
    BY <2>2, <2>4 DEF Run
  <2>6. ModFree(map, {}, JobPages)
    BY <2>1
  <2> HIDE DEF map, a
  <2>7. \A p \in Pages : p[2] < cursor[p[1]] => map[p] = pte[p]
    BY <2>3, <2>5
  <2> QED
    BY <1>1, <2>3, <2>6, <2>7, JobFreedKeepsInv
<1> QED
  BY <1>1, <1>3, <1>4

LEMMA NoInitKeepsInv ==
    ASSUME ModInv, NoInit
    PROVE  ModInv'
<1>1. /\ job # NoJob /\ job' = NoJob
      /\ UNCHANGED <<cursor, modules, unlisted, boot, installs>>
      /\ ModFree(pte, free, JobPages)
  BY DEF NoInit, Outside, Complete
<1> QED
  BY <1>1, JobFreedKeepsInv DEF ModInv, MemTypes, FramesApart

LEMMA FinishInstallKeepsInv ==
    ASSUME ModInv, FinishInstall
    PROVE  ModInv' /\ Running' = Running \cup {Record}
<1> DEFINE rec == Record
<1>1. /\ job # NoJob /\ job' = NoJob
      /\ UNCHANGED <<cursor, pte, free, boot, installs, released>>
      /\ \/ modules' = <<rec>> \o modules /\ unlisted' = unlisted
         \/ unlisted' = unlisted \cup {rec} /\ modules' = modules
  BY DEF FinishInstall, Complete, RecordAdded, RecordFails, memvars
<1>2. /\ MemTypes /\ ListTypes /\ FramesApart /\ PagesGiven /\ ModulesApart
      /\ JobPages \in SUBSET Pages
  BY <1>1, JobIs DEF ModInv
<1>3. /\ rec \in RecordType /\ rec.inst = job.inst /\ rec.pages = JobPages
      /\ rec.inst <= installs
  BY <1>1, <1>2, JobIs DEF Record, RecordType, ModulesApart
<1> HIDE DEF rec
<1>4. \A r \in Running : r # rec /\ r.pages \cap rec.pages = {}
  BY <1>1, <1>2, <1>3 DEF ModulesApart
<1>5. Running \in SUBSET RecordType /\ DOMAIN modules = 1 .. Len(modules)
  BY <1>2, RunningIs
<1>6. rec \notin Range(modules) /\ rec \notin unlisted
  BY <1>4 DEF Running
<1>7. /\ modules' \in Seq(RecordType) /\ unlisted' \in SUBSET RecordType
      /\ Running' = Running \cup {rec}
      /\ Distinct(modules')
      /\ \A i \in 1 .. Len(modules') : modules'[i] \notin unlisted'
  <2>1. modules \in Seq(RecordType) /\ unlisted \in SUBSET RecordType
        /\ Distinct(modules)
        /\ \A i \in 1 .. Len(modules) : modules[i] \notin unlisted
    BY <1>2 DEF ListTypes, ModulesApart
  <2>2. CASE modules' = <<rec>> \o modules /\ unlisted' = unlisted
    <3> DEFINE t == <<rec>> \o modules
    <3>0. rec \in RecordType /\ rec \notin Range(modules) /\ modules \in Seq(RecordType)
      BY <1>3, <1>6, <2>1
    <3>5. t = InFront(rec, modules) /\ Distinct(modules)
      BY <2>1 DEF InFront
    <3> HIDE DEF t
    <3>1. /\ t \in Seq(RecordType) /\ Range(t) = Range(modules) \cup {rec}
          /\ Distinct(t)
      BY <3>0, <3>5, RangeInFront
    <3>2. \A x \in Range(t) : x \notin unlisted
      <4>1. \A x \in Range(modules) : x \notin unlisted
        BY <1>5, <2>1 DEF Range
      <4> QED
        BY <1>6, <3>1, <4>1
    <3>4. modules' = t
      BY <2>2 DEF t
    <3>3. \A i \in 1 .. Len(t) : t[i] \in Range(t)
      BY <3>1 DEF Range
    <3> QED
      BY <2>1, <2>2, <3>1, <3>2, <3>3, <3>4 DEF Running
  <2>3. CASE unlisted' = unlisted \cup {rec} /\ modules' = modules
    <3>1. \A i \in 1 .. Len(modules) : modules[i] \in Range(modules)
      BY <1>5 DEF Range
    <3> QED
      BY <1>3, <1>6, <2>1, <2>3, <3>1 DEF Running
  <2> QED
    BY <1>1, <2>2, <2>3
<1>8. ListTypes'
  BY <1>1, <1>2, <1>7 DEF ListTypes, RecordType, JobType, Pages
<1>9. MemTypes' /\ FramesApart'
  BY <1>1, <1>2 DEF MemTypes, FramesApart, Pages, Frames
<1>10. PagesGiven'
  BY <1>1, <1>2, <1>3, <1>7 DEF PagesGiven, Given
<1>11. ModulesApart'
  <2>1. \A r, s \in Running' : r # s => r.pages \cap s.pages = {}
    BY <1>2, <1>4, <1>7 DEF ModulesApart
  <2>2. \A r \in Running' : r.inst <= installs
    BY <1>2, <1>3, <1>7 DEF ModulesApart
  <2> QED
    BY <1>1, <1>7, <2>1, <2>2 DEF ModulesApart
<1> QED
  BY <1>7, <1>8, <1>9, <1>10, <1>11 DEF ModInv, rec

LEMMA UnInstallKeepsInv ==
    ASSUME ModInv, NEW m \in Mods, UnInstallModule(m)
    PROVE  /\ ModInv'
           /\ \E r \in Running : /\ Running' = Running \ {r}
                                 /\ loaded' = loaded \ {r.inst} /\ removed' = removed \cup {r.inst}
<1>1. PICK i \in DOMAIN modules :
        /\ ModFree(pte, free, modules[i].pages) /\ modules' = RemoveAt(modules, i)
        /\ loaded' = loaded \ {modules[i].inst} /\ removed' = removed \cup {modules[i].inst}
  <2>1. \E i \in DOMAIN modules : i = ModuleRegistryFind(m)
    <3>1. PICK u \in DOMAIN modules : modules[u].Name = m
      BY DEF UnInstallModule
    <3> DEFINE T == {k \in DOMAIN modules : modules[k].Name = m}
    <3>2. DOMAIN modules = 1 .. Len(modules) /\ Len(modules) \in Nat
      BY DEF ModInv, ListTypes
    <3>3. T \in SUBSET Nat /\ T # {}
      BY <3>1, <3>2
    <3>4. PICK x \in T : \A y \in T : x <= y
      BY <3>3, LeastNat
    <3>5. \A j \in 1 .. (x - 1) : modules[j].Name # m
      <4>1. ASSUME NEW j \in 1 .. (x - 1), modules[j].Name = m PROVE FALSE
        <5>1. j \in T /\ j < x
          BY <3>2, <4>1
        <5> QED
          BY <3>2, <3>4, <5>1
      <4> QED
        BY <4>1
    <3>6. \E k \in DOMAIN modules : modules[k].Name = m /\ \A j \in 1 .. (k - 1) : modules[j].Name # m
      BY <3>4, <3>5
    <3> QED
      BY <3>6, Zenon DEF ModuleRegistryFind
  <2> QED
    BY <2>1, Zenon DEF UnInstallModule
<1>2. /\ job = NoJob /\ UNCHANGED <<cursor, job, unlisted, boot, installs>>
  BY DEF UnInstallModule
<1>3. MemTypes /\ ListTypes /\ FramesApart /\ PagesGiven /\ ModulesApart
  BY DEF ModInv
<1> DEFINE rec == modules[i]
<1>4. /\ Running \in SUBSET RecordType /\ DOMAIN modules = 1 .. Len(modules)
      /\ rec \in Running /\ rec \in RecordType /\ rec.pages \in SUBSET Pages /\ rec \notin unlisted
  BY <1>3, RunningIs DEF Running, Range, RecordType, ModulesApart
<1>5. /\ modules' \in Seq(RecordType) /\ Range(modules') = Range(modules) \ {rec}
      /\ Distinct(modules')
  <2> DEFINE t == RemoveAt(modules, i)
  <2>1. /\ modules \in Seq(RecordType) /\ i \in 1 .. Len(modules) /\ t = RemoveAt(modules, i)
        /\ Distinct(modules)
    BY <1>3, <1>4 DEF ListTypes, ModulesApart
  <2>2. modules' = t
    BY <1>1
  <2> HIDE DEF t
  <2>3. /\ t \in Seq(RecordType) /\ Range(t) = Range(modules) \ {modules[i]}
        /\ Distinct(t)
    BY <2>1, RangeRemoveAt
  <2> QED
    BY <2>2, <2>3
<1>6. /\ ModFree(pte, free, rec.pages)
      /\ loaded' = loaded \ {rec.inst} /\ removed' = removed \cup {rec.inst}
  BY <1>1
<1> HIDE DEF rec
<1>7. Running' = Running \ {rec}
  BY <1>2, <1>4, <1>5 DEF Running
<1>8. /\ MemTypes' /\ FramesApart'
      /\ \A p \in rec.pages : pte'[p] = NoFrame
      /\ \A p \in Pages \ rec.pages : pte'[p] = pte[p]
      /\ released' \subseteq released \cup rec.pages
  <2> DEFINE ps == rec.pages
  <2>1. ps \in SUBSET Pages /\ ModFree(pte, free, ps)
    BY <1>4, <1>6
  <2>2. cursor' = cursor
    BY <1>2
  <2> HIDE DEF ps
  <2>3. /\ MemTypes' /\ FramesApart'
        /\ \A p \in ps : pte'[p] = NoFrame
        /\ \A p \in Pages \ ps : pte'[p] = pte[p]
        /\ released' \subseteq released \cup ps
    BY <2>1, <2>2, GivenFreedIs
  <2> QED
    BY <2>3 DEF ps
<1>9. ListTypes'
  BY <1>2, <1>3, <1>5 DEF ListTypes, RecordType, JobType, Pages
<1>10. PagesGiven'
  <2>1. ASSUME NEW r \in Running', NEW p \in r.pages
        PROVE  p[2] < cursor'[p[1]] /\ pte'[p] # NoFrame
    <3>1. r \in Running /\ r # rec /\ p \in Pages
      BY <1>4, <1>7, <2>1 DEF RecordType
    <3>2. p \notin rec.pages
      BY <1>3, <1>4, <2>1, <3>1 DEF ModulesApart
    <3> QED
      BY <1>2, <1>3, <1>8, <2>1, <3>1, <3>2 DEF PagesGiven, Given
  <2>2. ASSUME NEW p \in released' PROVE p[2] < cursor'[p[1]] /\ pte'[p] = NoFrame
    <3>1. CASE p \in rec.pages
      BY <1>2, <1>3, <1>4, <1>8, <3>1 DEF PagesGiven, Given
    <3>2. CASE p \notin rec.pages
      <4>1. p \in released /\ p \in Pages \ rec.pages
        BY <1>3, <1>8, <2>2, <3>2 DEF MemTypes
      <4> QED
        BY <1>2, <1>3, <1>8, <4>1 DEF PagesGiven
    <3> QED
      BY <3>1, <3>2
  <2> QED
    BY <1>2, <2>1, <2>2 DEF PagesGiven, Given
<1>11. ModulesApart'
  <2>1. \A j \in 1 .. Len(modules') : modules'[j] \notin unlisted
    <3>1. \A j \in 1 .. Len(modules') : modules'[j] \in Range(modules)
      <4>1. \A j \in 1 .. Len(modules') : modules'[j] \in Range(modules')
        BY <1>5 DEF Range
      <4> QED
        BY <1>5, <4>1
    <3>2. \A x \in Range(modules) : x \notin unlisted
      BY <1>3, <1>4 DEF Range, ModulesApart
    <3> QED
      BY <3>1, <3>2
  <2> QED
    BY <1>2, <1>3, <1>5, <1>7, <2>1 DEF ModulesApart
<1> QED
  BY <1>4, <1>6, <1>7, <1>8, <1>9, <1>10, <1>11 DEF ModInv

-----------------------------------------------------------------------------
(* The order of loading *)

\* The sequences that result from loading a directory of n files.
Listing(n) == {t \in Seq(Mods) : Len(t) = n}

Numbered(m) == Seq0[m] >= 0
NotAfter(m, o) == Numbered(o) => Numbered(m) /\ Seq0[m] <= Seq0[o]

LEMMA ExchangeIs ==
    ASSUME NEW n \in Nat, NEW s \in Listing(n), NEW i \in 1 .. n, NEW j \in i + 1 .. n,
           NEW t, t = Exchange(s, <<i, j>>)
    PROVE  /\ t \in Listing(n)
           /\ \A k \in 1 .. n : k # i /\ k # j => t[k] = s[k]
           /\ (t[i] = s[i] /\ t[j] = s[j]) \/ (t[i] = s[j] /\ t[j] = s[i])
           /\ NotAfter(t[i], s[i]) /\ NotAfter(t[i], t[j])
<1>1. i \in 1 .. n /\ j \in 1 .. n /\ i # j /\ s \in Seq(Mods) /\ Len(s) = n
      /\ s[i] \in Mods /\ s[j] \in Mods
  BY DEF Listing
<1>2. Seq0[s[i]] \in Int /\ Seq0[s[j]] \in Int
  BY <1>1, KModsAssumption
<1> DEFINE a == Seq0[s[i]]
           b == Seq0[s[j]]
<1>3. t = IF a < 0 \/ (b >= 0 /\ b < a) THEN Swapped(s, i, j) ELSE s
  BY DEF Exchange
<1>4. CASE a < 0 \/ (b >= 0 /\ b < a)
  <2>1. t = [s EXCEPT ![i] = s[j], ![j] = s[i]]
    BY <1>3, <1>4 DEF Swapped
  <2>2. t \in Seq(Mods) /\ Len(t) = n
        /\ t[i] = s[j] /\ t[j] = s[i] /\ \A k \in 1 .. n : k # i /\ k # j => t[k] = s[k]
    <3>1. /\ t \in [1 .. n -> Mods] /\ t[i] = s[j] /\ t[j] = s[i]
          /\ \A k \in 1 .. n : k # i /\ k # j => t[k] = s[k]
      <4>1. s \in [1 .. n -> Mods]
        BY <1>1, LenProperties
      <4> QED
        BY <1>1, <2>1, <4>1
    <3> HIDE DEF Exchange
    <3> QED
      BY <3>1, SMTT(30)
  <2>3. NotAfter(t[i], s[i]) /\ NotAfter(t[i], t[j])
    BY <1>2, <1>4, <2>2 DEF NotAfter, Numbered
  <2> QED
    BY <2>2, <2>3 DEF Listing
<1>5. CASE ~(a < 0 \/ (b >= 0 /\ b < a))
  <2>1. t = s
    BY <1>3, <1>5
  <2>2. NotAfter(s[i], s[i]) /\ NotAfter(s[i], s[j])
    BY <1>2, <1>5 DEF NotAfter, Numbered
  <2> QED
    BY <2>1, <2>2
<1> QED
  BY <1>4, <1>5

LEMMA NotAfterIs ==
    /\ \A m \in Mods : NotAfter(m, m)
    /\ \A m, o, q \in Mods : NotAfter(m, o) /\ NotAfter(o, q) => NotAfter(m, q)
  BY KModsAssumption DEF NotAfter, Numbered

\* What a round leaves after comparing the module at i with those up to j.
RoundUpTo(s, n, i, j, t) ==
    /\ t \in Listing(n)
    /\ \A k \in 1 .. i - 1 : t[k] = s[k]
    /\ \A k \in i .. n : \E l \in i .. n : t[k] = s[l]
    /\ \A k \in i .. j : NotAfter(t[i], t[k])

LEMMA RoundStep ==
    ASSUME NEW n \in Nat, NEW s \in Listing(n), NEW i \in 1 .. n, NEW j \in i + 1 .. n,
           NEW t, RoundUpTo(s, n, i, j - 1, t), NEW u, u = Exchange(t, <<i, j>>)
    PROVE  RoundUpTo(s, n, i, j, u)
<1>1. /\ t \in Listing(n) /\ i \in Nat /\ j \in Nat /\ i \in i .. n /\ j \in i .. n
      /\ \A k \in 1 .. i - 1 : t[k] = s[k]
      /\ \A k \in i .. n : \E l \in i .. n : t[k] = s[l]
      /\ \A k \in i .. j - 1 : NotAfter(t[i], t[k])
  BY DEF RoundUpTo
<1>2. /\ u \in Listing(n)
      /\ \A k \in 1 .. n : k # i /\ k # j => u[k] = t[k]
      /\ (u[i] = t[i] /\ u[j] = t[j]) \/ (u[i] = t[j] /\ u[j] = t[i])
      /\ NotAfter(u[i], t[i]) /\ NotAfter(u[i], u[j])
  BY <1>1, ExchangeIs
<1>3. \A k \in 1 .. i - 1 : u[k] = s[k]
  BY <1>1, <1>2
<1>4. ASSUME NEW k \in i .. n PROVE \E l \in i .. n : u[k] = s[l]
  <2>1. \E l \in i .. n : u[k] = t[l]
    <3>1. CASE k = i \/ k = j
      BY <1>1, <1>2, <3>1
    <3>2. CASE k # i /\ k # j
      BY <1>2, <3>2
    <3> QED
      BY <3>1, <3>2
  <2> QED
    BY <1>1, <2>1
<1>5. ASSUME NEW k \in i .. j PROVE NotAfter(u[i], u[k])
  <2>1. k \in 1 .. n /\ i \in 1 .. n
    BY <1>1
  <2>2. u[i] \in Mods /\ t[i] \in Mods /\ t[k] \in Mods /\ u[k] \in Mods
    BY <1>1, <1>2, <2>1, SMTT(30) DEF Listing
  <2>3. CASE k = i
    BY <2>2, <2>3, NotAfterIs
  <2>4. CASE k = j
    BY <1>2, <2>4
  <2>5. CASE k # i /\ k # j
    <3>1. u[k] = t[k] /\ NotAfter(t[i], t[k])
      BY <1>1, <1>2, <2>1, <2>5
    <3> QED
      BY <1>2, <2>2, <3>1, NotAfterIs
  <2> QED
    BY <2>3, <2>4, <2>5
<1> QED
  BY <1>2, <1>3, <1>4, <1>5 DEF RoundUpTo

\* One round: what stands before i stays, and no module behind i belongs
\* before the one that is now at i.
LEMMA RoundIs ==
    ASSUME NEW n \in Nat, NEW s \in Listing(n), NEW i \in 1 .. n
    PROVE  RoundUpTo(s, n, i, n, Round(s, i))
<1> DEFINE P(f, m) == f = [j \in i .. m |-> IF j = i THEN s ELSE Exchange(f[j - 1], <<i, j>>)]
           T == {d \in Nat : \E f : P(f, i + d)}
           upTo == CHOOSE f : P(f, n)
<1>0. i \in Nat /\ n - i \in Nat /\ i + (n - i) = n /\ Len(s) = n
  BY DEF Listing
<1>1. 0 \in T
  <2> DEFINE f == [j \in i .. i |-> s]
  <2>1. P(f, i + 0)
    BY <1>0
  <2> QED
    BY <2>1
<1>2. ASSUME NEW d \in Nat, d \in T PROVE d + 1 \in T
  <2>1. PICK f : P(f, i + d)
    BY <1>2
  <2> DEFINE m == i + d
             g == [j \in i .. m + 1 |-> IF j = m + 1 THEN Exchange(f[m], <<i, j>>) ELSE f[j]]
  <2>2. m \in Nat /\ i <= m /\ i + (d + 1) = m + 1
    BY <1>0
  <2>3. \A j \in i .. m : f[j] = IF j = i THEN s ELSE Exchange(f[j - 1], <<i, j>>)
    BY <2>1
  <2> HIDE DEF m
  <2>4. \A j \in i .. m + 1 : g[j] = IF j = i THEN s ELSE Exchange(g[j - 1], <<i, j>>)
    <3> TAKE j \in i .. m + 1
    <3>1. CASE j = m + 1
      <4>1. g[j] = Exchange(f[m], <<i, j>>) /\ j # i /\ j - 1 = m /\ m \in i .. m + 1 /\ m # m + 1
        BY <1>0, <2>2, <3>1
      <4>2. g[m] = f[m]
        BY <4>1
      <4> QED
        BY <4>1, <4>2
    <3>2. CASE j = i
      BY <1>0, <2>2, <2>3, <3>2
    <3>3. CASE j # i /\ j # m + 1
      <4>1. j \in i .. m /\ j - 1 \in i .. m + 1 /\ j - 1 # m + 1
        BY <1>0, <2>2, <3>3
      <4>2. g[j] = f[j] /\ g[j - 1] = f[j - 1]
        BY <3>3, <4>1
      <4> QED
        BY <2>3, <3>3, <4>1, <4>2
    <3> QED
      BY <3>1, <3>2, <3>3
  <2>5. g = [j \in i .. m + 1 |-> g[j]]
    OBVIOUS
  <2> HIDE DEF g
  <2>6. P(g, m + 1)
    BY <2>4, <2>5
  <2> QED
    BY <2>2, <2>6
<1>3. \E f : P(f, n)
  <2> HIDE DEF T
  <2>1. \A d \in Nat : d \in T
    BY <1>1, <1>2, Induction
  <2>2. n - i \in T
    BY <1>0, <2>1
  <2> QED
    BY <1>0, <2>2 DEF T
<1>4. P(upTo, n)
  <2> HIDE DEF P
  <2> QED
    BY <1>3, Zenon
<1>5. Round(s, i) = upTo[n]
  BY <1>0 DEF Round
<1>6. \A j \in i .. n : upTo[j] = IF j = i THEN s ELSE Exchange(upTo[j - 1], <<i, j>>)
  BY <1>4
<1> HIDE DEF upTo, P, T
<1> DEFINE U == {d \in Nat : i + d <= n => RoundUpTo(s, n, i, i + d, upTo[i + d])}
<1>7. 0 \in U
  <2>1. upTo[i] = s
    <3>1. i \in i .. n
      BY <1>0
    <3> QED
      BY <1>6, <3>1
  <2>2. NotAfter(s[i], s[i])
    BY NotAfterIs DEF Listing
  <2> QED
    BY <1>0, <2>1, <2>2 DEF RoundUpTo
<1>8. ASSUME NEW d \in Nat, d \in U PROVE d + 1 \in U
  <2> SUFFICES ASSUME i + (d + 1) <= n
               PROVE  RoundUpTo(s, n, i, i + (d + 1), upTo[i + (d + 1)])
    OBVIOUS
  <2> DEFINE j == i + (d + 1)
  <2>1. j \in i + 1 .. n /\ j \in i .. n /\ j # i /\ j - 1 = i + d /\ i + d <= n
    BY <1>0
  <2>2. RoundUpTo(s, n, i, j - 1, upTo[j - 1])
    BY <1>8, <2>1
  <2>3. upTo[j] = Exchange(upTo[j - 1], <<i, j>>)
    BY <1>6, <2>1
  <2> HIDE DEF j
  <2>4. RoundUpTo(s, n, i, j, upTo[j])
    BY <2>1, <2>2, <2>3, RoundStep
  <2> QED
    BY <2>4 DEF j
<1>9. n - i \in U
  <2> HIDE DEF U
  <2>1. \A d \in Nat : d \in U
    BY <1>7, <1>8, Induction
  <2> QED
    BY <1>0, <2>1
<1> QED
  BY <1>0, <1>5, <1>9

\* The first i modules are in order and no module behind belongs before them.
Ordered(n, i, t) == t \in Listing(n) /\ \A p \in 1 .. i : \A q \in p .. n : NotAfter(t[p], t[q])

LEMMA OrderedStep ==
    ASSUME NEW n \in Nat, NEW i \in 1 .. n, NEW t, Ordered(n, i - 1, t)
    PROVE  Ordered(n, i, Round(t, i))
<1> DEFINE u == Round(t, i)
<1>1. i \in Nat /\ t \in Listing(n) /\ \A p \in 1 .. i - 1 : \A q \in p .. n : NotAfter(t[p], t[q])
  BY DEF Ordered
<1>2. RoundUpTo(t, n, i, n, u)
  BY <1>1, RoundIs
<1> HIDE DEF u
<1>3. /\ u \in Listing(n)
      /\ \A k \in 1 .. i - 1 : u[k] = t[k]
      /\ \A k \in i .. n : \E l \in i .. n : u[k] = t[l]
      /\ \A k \in i .. n : NotAfter(u[i], u[k])
  BY <1>2 DEF RoundUpTo
<1>4. ASSUME NEW p \in 1 .. i, NEW q \in p .. n PROVE NotAfter(u[p], u[q])
  <2>1. CASE p = i
    BY <1>3, <2>1
  <2>2. CASE p # i
    <3>1. p \in 1 .. i - 1
      BY <1>1, <2>2
    <3>2. \E l \in p .. n : u[q] = t[l]
      <4>1. CASE q < i
        BY <1>1, <1>3, <4>1
      <4>2. CASE ~(q < i)
        <5>1. q \in i .. n
          BY <1>1, <4>2
        <5>2. PICK l \in i .. n : u[q] = t[l]
          BY <1>3, <5>1
        <5>3. l \in p .. n
          BY <1>1, <3>1
        <5> QED
          BY <5>2, <5>3
      <4> QED
        BY <4>1, <4>2
    <3> QED
      BY <1>1, <1>3, <3>1, <3>2
  <2> QED
    BY <2>1, <2>2
<1>5. Ordered(n, i, u)
  BY <1>3, <1>4 DEF Ordered
<1> QED
  BY <1>5 DEF u

LEMMA LoadOrderIs ==
    ASSUME NEW n \in Nat, NEW s \in Listing(n)
    PROVE  Ordered(n, n, LoadOrder(s))
<1> DEFINE P(f, m) == f = [i \in 0 .. m |-> IF i = 0 THEN s ELSE Round(f[i - 1], i)]
           T == {m \in Nat : \E f : P(f, m)}
           after == CHOOSE f : P(f, n)
<1>0. Len(s) = n
  BY DEF Listing
<1>1. 0 \in T
  <2> DEFINE f == [i \in 0 .. 0 |-> s]
  <2>1. P(f, 0)
    OBVIOUS
  <2> QED
    BY <2>1
<1>2. ASSUME NEW m \in Nat, m \in T PROVE m + 1 \in T
  <2>1. PICK f : P(f, m)
    BY <1>2
  <2> DEFINE g == [i \in 0 .. m + 1 |-> IF i = m + 1 THEN Round(f[m], i) ELSE f[i]]
  <2>2. \A i \in 0 .. m : f[i] = IF i = 0 THEN s ELSE Round(f[i - 1], i)
    BY <2>1
  <2>3. \A i \in 0 .. m + 1 : g[i] = IF i = 0 THEN s ELSE Round(g[i - 1], i)
    <3> TAKE i \in 0 .. m + 1
    <3>1. CASE i = m + 1
      <4>1. g[i] = Round(f[m], i) /\ i # 0 /\ i - 1 = m /\ m \in 0 .. m + 1 /\ m # m + 1
        BY <3>1
      <4>2. g[m] = f[m]
        BY <4>1
      <4> QED
        BY <4>1, <4>2
    <3>2. CASE i = 0
      BY <2>2, <3>2
    <3>3. CASE i # 0 /\ i # m + 1
      <4>1. i \in 0 .. m /\ i - 1 \in 0 .. m + 1 /\ i - 1 # m + 1
        BY <3>3
      <4>2. g[i] = f[i] /\ g[i - 1] = f[i - 1]
        BY <3>3, <4>1
      <4> QED
        BY <2>2, <3>3, <4>1, <4>2
    <3> QED
      BY <3>1, <3>2, <3>3
  <2>4. g = [i \in 0 .. m + 1 |-> g[i]]
    OBVIOUS
  <2> HIDE DEF g
  <2>5. P(g, m + 1)
    BY <2>3, <2>4
  <2> QED
    BY <2>5
<1>3. \E f : P(f, n)
  <2> HIDE DEF T
  <2>1. \A m \in Nat : m \in T
    BY <1>1, <1>2, Induction
  <2> QED
    BY <2>1 DEF T
<1>4. P(after, n)
  <2> HIDE DEF P
  <2> QED
    BY <1>3, Zenon
<1>5. LoadOrder(s) = after[n]
  BY <1>0 DEF LoadOrder
<1>6. \A i \in 0 .. n : after[i] = IF i = 0 THEN s ELSE Round(after[i - 1], i)
  BY <1>4
<1> HIDE DEF after, P, T
<1> DEFINE U == {i \in Nat : i <= n => Ordered(n, i, after[i])}
<1>7. 0 \in U
  <2>1. after[0] = s
    BY <1>6
  <2> QED
    BY <2>1 DEF Ordered
<1>8. ASSUME NEW i \in Nat, i \in U PROVE i + 1 \in U
  <2> SUFFICES ASSUME i + 1 <= n PROVE Ordered(n, i + 1, after[i + 1])
    OBVIOUS
  <2> DEFINE j == i + 1
  <2>1. j \in 1 .. n /\ j \in 0 .. n /\ j # 0 /\ j - 1 = i /\ i <= n
    OBVIOUS
  <2>2. Ordered(n, j - 1, after[j - 1])
    BY <1>8, <2>1
  <2>3. after[j] = Round(after[j - 1], j)
    BY <1>6, <2>1
  <2> HIDE DEF j
  <2>4. Ordered(n, j, after[j])
    BY <2>1, <2>2, <2>3, OrderedStep
  <2> QED
    BY <2>4 DEF j
<1>9. n \in U
  <2> HIDE DEF U
  <2> QED
    BY <1>7, <1>8, Induction
<1> QED
  BY <1>5, <1>9

-----------------------------------------------------------------------------
(* The memory of modules *)

BootInv == Ordered(Len(boot), Len(boot), boot)

LEMMA ModInitInv == Init => ModInv /\ BootInv
<1> SUFFICES ASSUME Init PROVE ModInv /\ BootInv
  OBVIOUS
<1>1. /\ cursor = [a \in {"text", "data"} |-> 0] /\ pte = [p \in Pages |-> NoFrame] /\ free = Frames
      /\ job = NoJob /\ modules = <<>> /\ unlisted = {} /\ installs = 0 /\ released = {}
  BY DEF Init
<1>2. PICK dir \in SetToSeqs(Mods) : boot = LoadOrder(dir)
  BY DEF Init
<1> DEFINE n == Cardinality(Mods)
<1>3. n \in Nat /\ dir \in Listing(n)
  <2>1. n \in Nat
    BY KModsAssumption, FS_CardinalityType
  <2>2. dir \in [1 .. n -> Mods]
    BY DEF SetToSeqs
  <2> HIDE DEF n
  <2> QED
    BY <2>1, <2>2 DEF Listing
<1>4. boot \in Seq(Mods) /\ BootInv
  <2> HIDE DEF n
  <2>1. Ordered(n, n, boot)
    BY <1>2, <1>3, LoadOrderIs
  <2>2. boot \in Seq(Mods) /\ Len(boot) = n
    BY <2>1 DEF Ordered, Listing
  <2> QED
    BY <2>1, <2>2 DEF BootInv
<1>5. MemTypes /\ FramesApart
  BY <1>1, KModsAssumption DEF MemTypes, FramesApart, Arenas
<1>6. Running = {} /\ Len(modules) = 0 /\ ListTypes
  BY <1>1, <1>4 DEF Running, Range, ListTypes
<1>7. PagesGiven /\ ModulesApart
  BY <1>1, <1>6 DEF PagesGiven, ModulesApart, Distinct
<1> QED
  BY <1>4, <1>5, <1>6, <1>7 DEF ModInv

LEMMA BootIs ==
    ASSUME ListTypes, BootInv, boot # <<>>
    PROVE  /\ Head(boot) \in Mods /\ Tail(boot) \in Seq(Mods)
           /\ Ordered(Len(Tail(boot)), Len(Tail(boot)), Tail(boot))
<1> DEFINE n == Len(boot)
           t == Tail(boot)
<1>1. /\ boot \in Seq(Mods) /\ n \in Nat
      /\ Head(boot) \in Mods /\ t \in Seq(Mods) /\ Len(t) = n - 1
      /\ \A i \in 1 .. n - 1 : t[i] = boot[i + 1]
  <2>1. boot \in Seq(Mods)
    BY DEF ListTypes
  <2>2. /\ Head(boot) \in Mods /\ t \in Seq(Mods) /\ Len(t) = n - 1
        /\ \A i \in 1 .. Len(t) : t[i] = boot[i + 1]
    BY <2>1, HeadTailProperties
  <2> QED
    BY <2>1, <2>2
<1>2. \A p \in 1 .. n : \A q \in p .. n : NotAfter(boot[p], boot[q])
  BY DEF BootInv, Ordered
<1> HIDE DEF n, t
<1>3. ASSUME NEW p \in 1 .. n - 1, NEW q \in p .. n - 1 PROVE NotAfter(t[p], t[q])
  <2>1. p + 1 \in 1 .. n /\ q + 1 \in p + 1 .. n /\ q \in 1 .. n - 1
    BY <1>1
  <2> QED
    BY <1>1, <1>2, <2>1
<1>4. Len(t) \in Nat /\ t \in Listing(Len(t))
  BY <1>1 DEF Listing
<1>5. Ordered(Len(t), Len(t), t)
  BY <1>1, <1>3, <1>4 DEF Ordered
<1> QED
  BY <1>1, <1>5 DEF t

LEMMA ModStepInv == ModInv /\ BootInv /\ [Next]_vars => (ModInv /\ BootInv)'
<1> SUFFICES ASSUME ModInv, BootInv, [Next]_vars PROVE ModInv' /\ BootInv'
  OBVIOUS
<1> USE DEF BootInv
<1>1. CASE InitRamDiskDevDrvs
  <2>1. boot # <<>> /\ Begin(Head(boot)) /\ boot' = Tail(boot)
    BY <1>1 DEF InitRamDiskDevDrvs
  <2>2. Head(boot) \in Mods /\ boot' \in Seq(Mods) /\ BootInv'
    BY <2>1, BootIs DEF ModInv
  <2> QED
    BY <2>1, <2>2, BeginKeepsInv
<1>2. ASSUME NEW m \in Mods, InstallModule(m) PROVE ModInv' /\ BootInv'
  <2>1. Begin(m) /\ boot' = boot
    BY <1>2 DEF InstallModule
  <2>2. boot' \in Seq(Mods)
    BY <2>1 DEF ModInv, ListTypes
  <2> QED
    BY <2>1, <2>2, BeginKeepsInv
<1>3. ASSUME NEW m \in Mods, UnInstallModule(m) PROVE ModInv' /\ BootInv'
  BY <1>3, UnInstallKeepsInv DEF UnInstallModule
<1>4. CASE LoadSection
  BY <1>4, LoadSectionKeepsInv DEF LoadSection, Outside
<1>5. CASE PayloadFails
  BY <1>5, PayloadFailsKeepsInv DEF PayloadFails, Outside
<1>6. CASE SectionFails
  BY <1>6, SectionFailsKeepsInv DEF SectionFails, Outside
<1>7. CASE NoInit
  BY <1>7, NoInitKeepsInv DEF NoInit, Outside
<1>8. CASE FinishInstall
  BY <1>8, FinishInstallKeepsInv DEF FinishInstall
<1>9. ASSUME UNCHANGED kmodvars PROVE ModInv' /\ BootInv'
  BY <1>9 DEF kmodvars, ModInv, MemTypes, ListTypes, FramesApart, PagesGiven, ModulesApart,
              Running, JobPages, Given, Pages, Frames, RecordType, JobType
<1> QED
  BY <1>1, <1>2, <1>3, <1>4, <1>5, <1>6, <1>7, <1>8, <1>9 DEF Next, InstallStep, vars

\* What InstallModule, ModMalloc, ModFree and UnInstallModule keep in every
\* reachable state.
THEOREM ModulesInvariant == Spec => [](ModInv /\ BootInv)
  BY ModInitInv, ModStepInv, PTL DEF Spec

\* The sections of the modules that run are mapped to frames of their own and
\* no two modules overlap, whatever ran out of memory, failed to load or was
\* uninstalled before (InstallModule, UnInstallModule, ModMalloc, ModFree).
THEOREM ModulesAreMapped == Spec => []SectionsAreMapped
<1>1. ModInv => SectionsAreMapped
  <2> SUFFICES ASSUME ModInv PROVE SectionsAreMapped
    OBVIOUS
  <2>1. \A r \in Running, p \in Pages : p \in r.pages => pte[p] \in Frames \ free
    BY DEF ModInv, PagesGiven, Given, FramesApart, MemTypes
  <2> QED
    BY <2>1 DEF ModInv, ModulesApart, FramesApart, SectionsAreMapped
<1> QED
  BY <1>1, ModulesInvariant, PTL

\* An address that ModFree unmapped is never mapped again, since the cursors
\* of ModMem only move forward.
THEOREM ModulesStayRemoved == Spec => []RemovedCodeStaysUnmapped
<1>1. ModInv => RemovedCodeStaysUnmapped
  BY DEF ModInv, PagesGiven, RemovedCodeStaysUnmapped
<1> QED
  BY <1>1, ModulesInvariant, PTL

\* The exchange sort of InitRamDiskDevDrvs puts numbered modules in the order
\* of their numbers and before the others, for every directory.
THEOREM ModulesNumberedFirst == Spec => []NumberedFirst
<1>1. ModInv /\ BootInv => NumberedFirst
  <2> SUFFICES ASSUME ModInv, BootInv, NEW i \in DOMAIN boot, NEW j \in DOMAIN boot,
                      i < j, Seq0[boot[j]] >= 0
               PROVE  Seq0[boot[i]] \in 0 .. Seq0[boot[j]]
    BY DEF NumberedFirst
  <2>1. boot \in Seq(Mods) /\ i \in 1 .. Len(boot) /\ j \in i .. Len(boot)
    BY DEF ModInv, ListTypes
  <2>2. NotAfter(boot[i], boot[j])
    BY <2>1 DEF BootInv, Ordered
  <2>3. boot[i] \in Mods /\ boot[j] \in Mods
    BY <2>1
  <2> QED
    BY <2>2, <2>3, KModsAssumption DEF NotAfter, Numbered
<1> QED
  BY <1>1, ModulesInvariant, PTL

-----------------------------------------------------------------------------
(* Devices *)

EntryType == [dev : Devices, owner : Nat]

\* A table of devices with different names whose owners are in W.
TableOf(t, W) ==
    /\ t \in Seq(EntryType)
    /\ \A i, j \in 1 .. Len(t) : t[i].dev.Name = t[j].dev.Name => i = j
    /\ \A i \in 1 .. Len(t) : t[i].owner \in W

LEMMA RegisterIs ==
    ASSUME NEW tab, NEW W, TableOf(tab, W), NEW d \in Devices, NEW o \in W \cap Nat
    PROVE  TableOf(Register(tab, d, o), W)
<1> DEFINE n == Len(tab)
           e == Entry(d, o)
           t == Append(tab, e)
<1>1. /\ tab \in Seq(EntryType) /\ n \in Nat /\ DOMAIN tab = 1 .. n
      /\ \A i \in 1 .. n : tab[i] \in EntryType /\ tab[i].owner \in W
      /\ \A i, j \in 1 .. n : tab[i].dev.Name = tab[j].dev.Name => i = j
  BY DEF TableOf
<1>2. e \in EntryType /\ e.dev = d /\ e.owner = o
  BY DEF Entry, EntryType
<1>3. CASE Len(tab) >= MaxDevices \/ dev_find(tab, d.Name)
  BY <1>3 DEF Register
<1>4. CASE ~(Len(tab) >= MaxDevices \/ dev_find(tab, d.Name))
  <2>1. Register(tab, d, o) = t
    BY <1>4 DEF Register
  <2>2. /\ t \in Seq(EntryType) /\ Len(t) = n + 1 /\ t[n + 1] = e
        /\ \A i \in 1 .. n : t[i] = tab[i]
    BY <1>1, <1>2
  <2>3. \A i \in 1 .. n : tab[i].dev.Name # d.Name
    BY <1>1, <1>4 DEF dev_find
  <2> HIDE DEF t, e, n
  <2>4. \A i \in 1 .. n + 1 : i \in 1 .. n \/ i = n + 1
    BY <1>1
  <2>5. \A i \in 1 .. n + 1 : t[i].owner \in W
    BY <1>1, <1>2, <2>2, <2>4
  <2>6. ASSUME NEW i \in 1 .. n + 1, NEW j \in 1 .. n + 1, t[i].dev.Name = t[j].dev.Name
        PROVE  i = j
    <3>1. CASE i \in 1 .. n /\ j \in 1 .. n
      BY <1>1, <2>2, <2>6, <3>1
    <3>2. CASE i = n + 1 /\ j \in 1 .. n
      BY <1>2, <2>2, <2>3, <2>6, <3>2
    <3>3. CASE i \in 1 .. n /\ j = n + 1
      BY <1>2, <2>2, <2>3, <2>6, <3>3
    <3> QED
      BY <2>4, <3>1, <3>2, <3>3
  <2> QED
    BY <2>1, <2>2, <2>5, <2>6 DEF TableOf
<1> QED
  BY <1>3, <1>4

LEMMA UnregisterIs ==
    ASSUME NEW tab, NEW W, TableOf(tab, W), NEW i \in 1 .. Len(tab)
    PROVE  TableOf(RemoveAt(tab, i), W)
<1> DEFINE n == Len(tab)
           t == RemoveAt(tab, i)
           from(j) == IF j < i THEN j ELSE j + 1
<1>1. /\ tab \in Seq(EntryType) /\ n \in Nat
      /\ \A k \in 1 .. n : tab[k].owner \in W
      /\ \A k, l \in 1 .. n : tab[k].dev.Name = tab[l].dev.Name => k = l
  BY DEF TableOf
<1>2. t = RemoveAt(tab, i)
  OBVIOUS
<1>3. i \in 1 .. Len(tab) /\ n = Len(tab)
  OBVIOUS
<1> HIDE DEF t
<1>4. /\ t \in Seq(EntryType) /\ Len(t) = Len(tab) - 1
      /\ \A j \in 1 .. Len(t) : t[j] = IF j < i THEN tab[j] ELSE tab[j + 1]
  <2>1. tab \in Seq(EntryType) /\ i \in 1 .. Len(tab)
    BY <1>1
  <2> QED
    BY <1>2, <2>1, RemoveAtIs, ZenonT(40)
<1> HIDE DEF n
<1>5. \A j \in 1 .. n - 1 : t[j] = tab[from(j)] /\ from(j) \in 1 .. n
  BY <1>1, <1>3, <1>4
<1>6. \A j, k \in 1 .. n - 1 : from(j) = from(k) => j = k
  BY <1>1, <1>3
<1> HIDE DEF from
<1>7. \A j \in 1 .. n - 1 : t[j].owner \in W
  BY <1>1, <1>5
<1>8. ASSUME NEW j \in 1 .. n - 1, NEW k \in 1 .. n - 1, t[j].dev.Name = t[k].dev.Name
      PROVE  j = k
  <2>1. tab[from(j)].dev.Name = tab[from(k)].dev.Name
    BY <1>5, <1>8
  <2>2. from(j) = from(k)
    BY <1>1, <1>5, <2>1
  <2> QED
    BY <1>6, <2>2
<1>9. TableOf(t, W)
  BY <1>3, <1>4, <1>7, <1>8 DEF TableOf
<1> QED
  BY <1>2, <1>9

\* What a module's module_init leaves in the table.
LEMMA RegisteredIs ==
    ASSUME NEW tab, NEW W, TableOf(tab, W), NEW ds \in Seq(Devices), NEW o \in W \cap Nat, NEW got
    PROVE  TableOf(Registered(tab, ds, o, got), W)
<1> DEFINE n == Len(ds)
           Step(t, k) == IF k \in got THEN Register(t, ds[k], o) ELSE t
           P(f, m) == f = [k \in 0 .. m |-> IF k = 0 THEN tab ELSE Step(f[k - 1], k)]
           T == {m \in Nat : \E f : P(f, m)}
           upTo == CHOOSE f : P(f, n)
<1>0. n \in Nat /\ \A k \in 1 .. n : ds[k] \in Devices
  OBVIOUS
<1>1. 0 \in T
  <2> DEFINE f == [k \in 0 .. 0 |-> tab]
  <2>1. P(f, 0)
    OBVIOUS
  <2> QED
    BY <2>1
<1>2. ASSUME NEW m \in Nat, m \in T PROVE m + 1 \in T
  <2>1. PICK f : P(f, m)
    BY <1>2
  <2> DEFINE g == [k \in 0 .. m + 1 |-> IF k = m + 1 THEN Step(f[m], k) ELSE f[k]]
  <2>2. \A k \in 0 .. m : f[k] = IF k = 0 THEN tab ELSE Step(f[k - 1], k)
    BY <2>1
  <2>3. \A k \in 0 .. m + 1 : g[k] = IF k = 0 THEN tab ELSE Step(g[k - 1], k)
    <3> TAKE k \in 0 .. m + 1
    <3>1. CASE k = m + 1
      <4>1. g[k] = Step(f[m], k) /\ k # 0 /\ k - 1 = m /\ m \in 0 .. m + 1 /\ m # m + 1
        BY <3>1
      <4>2. g[m] = f[m]
        BY <4>1
      <4> QED
        BY <4>1, <4>2
    <3>2. CASE k = 0
      BY <2>2, <3>2
    <3>3. CASE k # 0 /\ k # m + 1
      <4>1. k \in 0 .. m /\ k - 1 \in 0 .. m + 1 /\ k - 1 # m + 1
        BY <3>3
      <4>2. g[k] = f[k] /\ g[k - 1] = f[k - 1]
        BY <3>3, <4>1
      <4> QED
        BY <2>2, <3>3, <4>1, <4>2
    <3> QED
      BY <3>1, <3>2, <3>3
  <2>4. g = [k \in 0 .. m + 1 |-> g[k]]
    OBVIOUS
  <2> HIDE DEF g
  <2>5. P(g, m + 1)
    BY <2>3, <2>4
  <2> QED
    BY <2>5
<1>3. \E f : P(f, n)
  <2> HIDE DEF T, n
  <2>1. \A m \in Nat : m \in T
    BY <1>1, <1>2, Induction
  <2> QED
    BY <1>0, <2>1 DEF T
<1>4. P(upTo, n)
  <2> HIDE DEF P
  <2> QED
    BY <1>3, Zenon
<1>5. Registered(tab, ds, o, got) = upTo[n]
  BY DEF Registered
<1> HIDE DEF n, Step
<1>6. \A k \in 0 .. n : upTo[k] = IF k = 0 THEN tab ELSE Step(upTo[k - 1], k)
  BY <1>4
<1> HIDE DEF upTo, P, T
<1> DEFINE U == {k \in Nat : k <= n => TableOf(upTo[k], W)}
<1>7. 0 \in U
  <2>1. upTo[0] = tab
    BY <1>0, <1>6
  <2> QED
    BY <2>1
<1>8. ASSUME NEW k \in Nat, k \in U PROVE k + 1 \in U
  <2> SUFFICES ASSUME k + 1 <= n PROVE TableOf(upTo[k + 1], W)
    OBVIOUS
  <2> DEFINE j == k + 1
  <2>1. j \in 1 .. n /\ j \in 0 .. n /\ j # 0 /\ j - 1 = k /\ k <= n
    BY <1>0
  <2>2. TableOf(upTo[j - 1], W)
    BY <1>8, <2>1
  <2>3. upTo[j] = Step(upTo[j - 1], j) /\ ds[j] \in Devices
    BY <1>0, <1>6, <2>1
  <2> HIDE DEF j
  <2>4. TableOf(upTo[j], W)
    BY <2>1, <2>2, <2>3, RegisterIs DEF Step
  <2> QED
    BY <2>4 DEF j
<1>9. n \in U
  <2> HIDE DEF U
  <2> QED
    BY <1>0, <1>7, <1>8, Induction
<1> QED
  BY <1>0, <1>5, <1>9

-----------------------------------------------------------------------------
(* The invariant of /dev *)

Owners == {KernelOwner} \cup {r.inst : r \in Running}
Known == removed \cup Owners

FileType == [entry : EntryType, Lba : Nat, Off : Nat, Pos : Nat]
CallType == [f : Files, op : {"read", "write"}, left : Nat \ {0}, total : Nat, val : Byte]

\* A file of a block device stands inside its current block.
FileOk(x) == x # NoFile => x \in FileType /\ (x.entry.dev.Type = "block" => x.Off < Blk)

FilesOk == file \in [Files -> FileType \cup {NoFile}] /\ \A f \in Files : FileOk(file[f])

CallOk == call # NoCall => call \in CallType /\ OnDisk(call.f)

DiskOk == bytes \in [0 .. (TotalBlocks * Blk - 1) -> Byte]

OutOk == Files = {} => out = <<>>

OwnersOk == loaded \subseteq Owners /\ Owners \subseteq Nat /\ removed \subseteq Nat

DevInv == FilesOk /\ CallOk /\ DiskOk /\ OutOk /\ OwnersOk /\ TableOf(DevTable, Known)

-----------------------------------------------------------------------------
(* Arithmetic of blocks *)

LEMMA MinOfTwo ==
    ASSUME NEW a \in Int, NEW b \in Int
    PROVE  Min({a, b}) = IF a <= b THEN a ELSE b
<1> DEFINE m == IF a <= b THEN a ELSE b
<1>1. m \in {a, b} /\ \A y \in {a, b} : m <= y
  OBVIOUS
<1>2. \A x \in {a, b} : (\A y \in {a, b} : x <= y) => x = m
  OBVIOUS
<1> QED
  BY <1>1, <1>2 DEF Min

LEMMA MaxOfTwo ==
    ASSUME NEW a \in Int, NEW b \in Int
    PROVE  Max({a, b}) = IF a >= b THEN a ELSE b
<1> DEFINE m == IF a >= b THEN a ELSE b
<1>1. m \in {a, b} /\ \A y \in {a, b} : m >= y
  OBVIOUS
<1>2. \A x \in {a, b} : (\A y \in {a, b} : x >= y) => x = m
  OBVIOUS
<1> QED
  BY <1>1, <1>2 DEF Max

LEMMA TimesIsMonotonic ==
    ASSUME NEW a \in Nat, NEW b \in Nat, a <= b, NEW k \in Nat
    PROVE  a * k <= b * k /\ a * k \in Nat /\ b * k \in Nat /\ (a + 1) * k = a * k + k
  OBVIOUS

LEMMA DivisionIs ==
    ASSUME NEW x \in Nat, NEW k \in Nat, k > 0
    PROVE  x = k * (x \div k) + (x % k)
  OBVIOUS

\* x is m past the start of block q.
Splits(x, k, q, m) == x = q * k + m

LEMMA RemainderIs ==
    ASSUME NEW x \in Nat, NEW k \in Nat \ {0}, NEW q, q = x \div k, NEW m, m = x % k
    PROVE  q \in Nat /\ m \in 0 .. k - 1 /\ Splits(x, k, q, m)
<1>1. k \in Nat /\ k > 0
  OBVIOUS
<1>2. x = k * (x \div k) + (x % k)
  BY <1>1, DivisionIs
<1>3. q \in Int /\ m \in 0 .. k - 1
  BY <1>1
<1> DEFINE y == k * q
<1>4. x = y + m
  BY <1>2
<1>5. q >= 0
  <2> SUFFICES ASSUME q < 0 PROVE FALSE
    BY <1>3
  <2>1. q + 1 <= 0
    BY <1>3
  <2>2. k * (q + 1) <= 0
    BY <1>1, <1>3, <2>1
  <2>3. k * (q + 1) = y + k
    BY <1>1, <1>3
  <2>4. y \in Int
    BY <1>1, <1>3
  <2> HIDE DEF y
  <2> QED
    BY <1>1, <1>3, <1>4, <2>2, <2>3, <2>4
<1>6. y = q * k
  BY <1>1, <1>3
<1> HIDE DEF y
<1> QED
  BY <1>3, <1>4, <1>5, <1>6 DEF Splits

\* Which positions lie in block b.
LEMMA BlockIs ==
    ASSUME NEW x \in Nat, NEW b \in Nat, NEW k \in Nat \ {0}
    PROVE  x \div k = b <=> x \in b * k .. b * k + k - 1
<1> DEFINE q == x \div k
<1>1. q \in Nat /\ q * k <= x /\ x < q * k + k
  <2> DEFINE m == x % k
  <2>1. q = x \div k /\ m = x % k
    OBVIOUS
  <2> HIDE DEF q, m
  <2>2. q \in Nat /\ m \in 0 .. k - 1 /\ Splits(x, k, q, m)
    BY <2>1, RemainderIs
  <2>3. x = q * k + m /\ q * k \in Nat
    BY <2>2, TimesIsMonotonic DEF Splits
  <2> QED
    BY <2>2, <2>3
<1>2. b * k \in Nat /\ q * k \in Nat
  BY <1>1, TimesIsMonotonic
<1>3. ASSUME q = b PROVE x \in b * k .. b * k + k - 1
  BY <1>1, <1>2, <1>3
<1>4. ASSUME x \in b * k .. b * k + k - 1, q < b PROVE FALSE
  <2>1. (q + 1) * k <= b * k /\ (q + 1) * k = q * k + k
    BY <1>1, <1>4, TimesIsMonotonic
  <2> HIDE DEF q
  <2> QED
    BY <1>1, <1>2, <1>4, <2>1
<1>5. ASSUME x \in b * k .. b * k + k - 1, b < q PROVE FALSE
  <2>1. (b + 1) * k <= q * k /\ (b + 1) * k = b * k + k
    BY <1>1, <1>5, TimesIsMonotonic
  <2> HIDE DEF q
  <2> QED
    BY <1>1, <1>2, <1>5, <2>1
<1> QED
  BY <1>1, <1>3, <1>4, <1>5

-----------------------------------------------------------------------------
(* The operations of /dev *)

LEMMA NoFileIsNone == NoFile \notin FileType
<1>1. \A x \in FileType : x \in [entry : [dev : Records, owner : Nat], Lba : Nat, Off : Nat, Pos : Nat]
  BY DEF FileType, EntryType, Devices
<1> QED
  BY <1>1, DevFsAssumption

\* The transfer under way is on an open file of a block device, and one round of
\* it stays inside the current block.
LEMMA CallIs ==
    ASSUME DevInv, call # NoCall
    PROVE  /\ call \in CallType /\ call.f \in Files /\ call.left \in Nat \ {0}
           /\ call.total \in Nat /\ call.val \in Byte
           /\ file[call.f] \in FileType /\ OnDisk(call.f) /\ file[call.f].Off < Blk
           /\ Chunk(call) \in 1 .. Blk /\ Chunk(call) <= call.left
           /\ file[call.f].Off + Chunk(call) <= Blk
<1> DEFINE f == call.f
<1>1. call \in CallType /\ OnDisk(f)
  BY DEF DevInv, CallOk
<1>2. /\ f \in Files /\ call.left \in Nat \ {0} /\ call.total \in Nat /\ call.val \in Byte
  BY <1>1 DEF CallType
<1>3. file[f] # NoFile /\ file[f].entry.dev.Type = "block"
  BY <1>1 DEF OnDisk, Open, IsBlock, Dev
<1>4. file[f] \in FileType /\ file[f].Off < Blk
  BY <1>2, <1>3 DEF DevInv, FilesOk, FileOk
<1>5. file[f].Off \in Nat
  BY <1>4 DEF FileType
<1> DEFINE o == file[f].Off
           m == call.left
<1>6. Chunk(call) = IF m <= Blk - o THEN m ELSE Blk - o
  <2>1. Chunk(call) = Min({m, Blk - o})
    BY DEF Chunk
  <2>2. m \in Int /\ Blk - o \in Int
    BY <1>2, <1>5, DevFsAssumption
  <2> HIDE DEF m, o
  <2> QED
    BY <2>1, <2>2, MinOfTwo
<1> QED
  BY <1>1, <1>2, <1>4, <1>5, <1>6, DevFsAssumption

LEMMA AdvanceIs ==
    ASSUME NEW x \in FileType, x.Off < Blk, NEW n \in Nat, n # 0, x.Off + n <= Blk
    PROVE  /\ Advance(x, n) \in FileType /\ Advance(x, n).entry = x.entry
           /\ Advance(x, n).Off < Blk
           /\ Advance(x, n).Lba * Blk + Advance(x, n).Off = x.Lba * Blk + x.Off + n
<1>1. /\ x.entry \in EntryType /\ x.Lba \in Nat /\ x.Off \in Nat /\ x.Pos \in Nat
      /\ x = [entry |-> x.entry, Lba |-> x.Lba, Off |-> x.Off, Pos |-> x.Pos]
  BY DEF FileType
<1>2. CASE x.Off + n >= Blk
  <2> DEFINE y == [entry |-> x.entry, Lba |-> x.Lba + 1, Off |-> 0, Pos |-> x.Pos]
  <2>1. Advance(x, n) = y
    BY <1>1, <1>2 DEF Advance, FileType
  <2>2. y \in FileType /\ y.entry = x.entry /\ y.Off = 0 /\ y.Lba = x.Lba + 1
    BY <1>1 DEF FileType
  <2>3. Blk \in Nat /\ x.Lba <= x.Lba /\ x.Lba \in Nat
    BY <1>1, DevFsAssumption
  <2>4. (x.Lba + 1) * Blk = x.Lba * Blk + Blk /\ x.Lba * Blk \in Nat
    BY <2>3, TimesIsMonotonic
  <2>5. x.Off + n = Blk
    BY <1>1, <1>2, <2>3
  <2> QED
    BY <1>1, <2>1, <2>2, <2>4, <2>5, DevFsAssumption
<1>3. CASE ~(x.Off + n >= Blk)
  <2> DEFINE y == [entry |-> x.entry, Lba |-> x.Lba, Off |-> x.Off + n, Pos |-> x.Pos]
  <2>1. Advance(x, n) = y
    BY <1>1, <1>3 DEF Advance, FileType
  <2>2. y \in FileType /\ y.entry = x.entry /\ y.Off = x.Off + n /\ y.Lba = x.Lba
    BY <1>1 DEF FileType
  <2>3. Blk \in Nat /\ x.Lba <= x.Lba
    BY <1>1, DevFsAssumption
  <2>4. x.Lba * Blk \in Nat
    BY <1>1, <2>3, TimesIsMonotonic
  <2> QED
    BY <1>1, <1>3, <2>1, <2>2, <2>4, DevFsAssumption
<1> QED
  BY <1>2, <1>3

\* A step that changes one file, or none, and leaves the rest of /dev as it is.
LEMMA FileSetKeepsInv ==
    ASSUME DevInv, NEW f \in Files, NEW x \in FileType \cup {NoFile}, FileOk(x),
           file' = [file EXCEPT ![f] = x], CallOk', DiskOk', OutOk',
           UNCHANGED <<DevTable, loaded, kmodvars>>
    PROVE  DevInv'
<1>1. FilesOk'
  BY DEF DevInv, FilesOk, FileOk
<1>2. Known' = Known /\ Owners' = Owners
  BY DEF kmodvars, Known, Owners, Running
<1> QED
  BY <1>1, <1>2 DEF DevInv, OwnersOk, kmodvars

\* A step that leaves the files and the transfer as they are.
LEMMA TableSetKeepsInv ==
    ASSUME DevInv, TableOf(DevTable', Known'), OutOk', OwnersOk',
           UNCHANGED <<file, call, bytes>>
    PROVE  DevInv'
<1>1. FilesOk'
  BY DEF DevInv, FilesOk, FileOk
<1>2. CallOk'
  BY DEF DevInv, CallOk, OnDisk, Open, IsBlock, Dev
<1>3. DiskOk'
  BY DEF DevInv, DiskOk
<1> QED
  BY <1>1, <1>2, <1>3 DEF DevInv

\* The call's file moves on by d bytes inside its window and stays open on its device.
CallMoves(d) ==
    \E x \in FileType :
       /\ file' = [file EXCEPT ![call.f] = x]
       /\ x.entry = file[call.f].entry /\ x.Off < Blk
       /\ x.Lba * Blk + x.Off = file[call.f].Lba * Blk + file[call.f].Off + d

\* One round of DevVfsRead or DevVfsWrite.
LEMMA ContinueIs ==
    ASSUME DevInv, call # NoCall, Continue(call)
    PROVE  /\ CallMoves(Chunk(call))
           /\ call' = NoCall \/ (call' \in CallType /\ call'.f = call.f)
<1> DEFINE f == call.f
           n == Chunk(call)
           rest == [call EXCEPT !.left = @ - n, !.total = @ + n]
           x == Advance(file[f], n)
<1>1. /\ call \in CallType /\ f \in Files /\ call.left \in Nat \ {0} /\ call.total \in Nat
      /\ file[f] \in FileType /\ file[f].Off < Blk
      /\ n \in 1 .. Blk /\ n <= call.left /\ file[f].Off + n <= Blk
  BY CallIs
<1>2. n \in Nat /\ n # 0
  BY <1>1, DevFsAssumption
<1>3. /\ x \in FileType /\ x.entry = file[f].entry /\ x.Off < Blk
      /\ x.Lba * Blk + x.Off = file[f].Lba * Blk + file[f].Off + n
  BY <1>1, <1>2, AdvanceIs
<1>4. /\ rest.f = f /\ rest.left = call.left - n /\ rest.total = call.total + n
      /\ rest = [f |-> f, op |-> call.op, left |-> call.left - n,
                 total |-> call.total + n, val |-> call.val]
  <2> DEFINE r == [call EXCEPT !.left = call.left - n]
  <2> HIDE DEF n
  <2>1. r = [f |-> f, op |-> call.op, left |-> call.left - n, total |-> call.total, val |-> call.val]
    BY <1>1 DEF CallType
  <2>2. rest = [r EXCEPT !.total = call.total + n]
    BY <1>1 DEF CallType
  <2> HIDE DEF r, rest
  <2>3. rest = [f |-> f, op |-> call.op, left |-> call.left - n,
                total |-> call.total + n, val |-> call.val]
    BY <2>1, <2>2
  <2> QED
    BY <2>3
<1>5. rest.left # 0 => rest \in CallType
  <2> HIDE DEF rest, f, n
  <2>1. f \in Files /\ call.op \in {"read", "write"} /\ call.val \in Byte
    BY <1>1 DEF CallType
  <2> QED
    BY <1>1, <1>2, <1>4, <2>1 DEF CallType
<1>6. CASE rest.left = 0
  <2> DEFINE y == [x EXCEPT !.Pos = @ + 2 * rest.total]
  <2>1. file' = [file EXCEPT ![f] = y] /\ call' = NoCall
    <3>1. Return(rest, x, 2 * rest.total)
      BY <1>6 DEF Continue
    <3> QED
      BY <1>4, <3>1 DEF Return
  <2>2. y \in FileType /\ y.entry = x.entry /\ y.Off = x.Off /\ y.Lba = x.Lba
    <3>1. rest.total \in Nat
      BY <1>1, <1>2, <1>4
    <3> HIDE DEF x, rest
    <3> QED
      BY <1>3, <3>1 DEF FileType
  <2> HIDE DEF y
  <2> QED
    BY <1>3, <2>1, <2>2 DEF CallMoves
<1>7. CASE rest.left # 0
  <2>1. file' = [file EXCEPT ![f] = x] /\ call' = rest
    BY <1>7 DEF Continue
  <2> QED
    BY <1>3, <1>4, <1>5, <1>7, <2>1 DEF CallMoves
<1> QED
  BY <1>6, <1>7

\* A failing round: the call returns and its file stands where it stood.
LEMMA ReturnIs ==
    ASSUME DevInv, call # NoCall, NEW moved \in Nat, Return(call, file[call.f], moved)
    PROVE  CallMoves(0) /\ call' = NoCall
<1> DEFINE f == call.f
           x == [file[f] EXCEPT !.Pos = @ + moved]
<1>1. f \in Files /\ file[f] \in FileType /\ file[f].Off < Blk
  BY CallIs
<1>2. file' = [file EXCEPT ![f] = x] /\ call' = NoCall
  BY DEF Return
<1>3. x \in FileType /\ x.entry = file[f].entry /\ x.Off = file[f].Off /\ x.Lba = file[f].Lba
  BY <1>1 DEF FileType
<1> HIDE DEF x
<1> DEFINE b == file[f].Lba * Blk
<1>4. file[f].Off \in Nat /\ b \in Nat
  <2>1. file[f].Off \in Nat /\ file[f].Lba \in Nat /\ file[f].Lba <= file[f].Lba /\ Blk \in Nat
    BY <1>1, DevFsAssumption DEF FileType
  <2> QED
    BY <2>1, TimesIsMonotonic
<1>5. x.Lba * Blk = b
  BY <1>3
<1> HIDE DEF b
<1>6. x.Lba * Blk + x.Off = b + file[f].Off + 0
  BY <1>3, <1>4, <1>5
<1> QED
  BY <1>1, <1>2, <1>3, <1>6 DEF CallMoves, b

LEMMA CallMovesKeepsInv ==
    ASSUME DevInv, call # NoCall, NEW d, CallMoves(d),
           call' = NoCall \/ (call' \in CallType /\ call'.f = call.f), DiskOk',
           UNCHANGED <<DevTable, loaded, kmodvars>>
    PROVE  DevInv'
<1>0. call.f \in Files
  BY CallIs
<1> PICK f \in Files : f = call.f
  BY <1>0
<1>1. f \in Files /\ file[f] \in FileType /\ OnDisk(f)
  BY CallIs
<1>2. PICK x \in FileType : /\ file' = [file EXCEPT ![f] = x]
                            /\ x.entry = file[f].entry /\ x.Off < Blk
  BY DEF CallMoves
<1>3. file'[f] = x /\ x # NoFile
  BY <1>1, <1>2, NoFileIsNone DEF DevInv, FilesOk
<1>4. OnDisk(f)'
  <2>1. file[f].entry.dev.Type = "block"
    BY <1>1 DEF OnDisk, IsBlock, Dev
  <2>2. file'[f].entry.dev.Type = "block" /\ file'[f] # NoFile
    BY <1>2, <1>3, <2>1
  <2>3. (file[f].entry.dev.Type = "block" /\ file[f] # NoFile)'
    BY <1>2, <1>3, <2>1
  <2> QED
    BY <2>3 DEF OnDisk, Open, IsBlock, Dev
<1>5. CallOk'
  BY <1>4 DEF CallOk, OnDisk, Open, IsBlock, Dev
<1>6. FileOk(x) /\ OutOk'
  BY <1>1, <1>2 DEF FileOk, OutOk
<1> QED
  BY <1>1, <1>2, <1>5, <1>6, FileSetKeepsInv

\* What a write leaves on the disk is bytes.
LEMMA WriteBlockKeepsBytes ==
    ASSUME DevInv, WriteBlock
    PROVE  DiskOk'
<1> DEFINE h == Here(call)
           D == 0 .. (TotalBlocks * Blk - 1)
<1>1. /\ call # NoCall /\ call.val \in Byte /\ file[call.f] \in FileType
      /\ bytes \in [D -> Byte]
  BY CallIs DEF WriteBlock, DevInv, DiskOk
<1>2. PICK old \in {[i \in 0 .. (Blk - 1) |-> bytes[h + i]], [i \in 0 .. (Blk - 1) |-> 0]} :
        bytes' = [b \in D |-> IF b \in h .. (h + Blk - 1)
                              THEN Patched(call, old)[b - h] ELSE bytes[b]]
  BY <1>1 DEF WriteBlock
<1>3. h \in Int
  <2>1. file[call.f].Lba \in Nat /\ Dev(call.f).Start \in Nat
    BY <1>1 DEF FileType, EntryType, Devices, Records, Dev
  <2> QED
    BY <2>1, DevFsAssumption DEF Here, DiskLba
<1> HIDE DEF h
<1>4. ASSUME NEW b \in D, b \in h .. (h + Blk - 1) PROVE Patched(call, old)[b - h] \in Byte
  <2>1. b - h \in 0 .. (Blk - 1) /\ h + (b - h) = b
    BY <1>3, <1>4, DevFsAssumption
  <2>2. old[b - h] \in Byte
    <3>1. bytes[h + (b - h)] \in Byte
      BY <1>1, <2>1
    <3> QED
      BY <1>2, <2>1, <3>1, DevFsAssumption
  <2> DEFINE W == file[call.f].Off .. (file[call.f].Off + Chunk(call) - 1)
  <2>3. Patched(call, old)[b - h] = IF b - h \in W THEN call.val ELSE old[b - h]
    BY <2>1 DEF Patched
  <2> HIDE DEF W
  <2> QED
    BY <1>1, <2>2, <2>3
<1>5. \A b \in D : bytes'[b] \in Byte
  BY <1>1, <1>2, <1>4
<1> QED
  BY <1>2, <1>5 DEF DiskOk

-----------------------------------------------------------------------------
(* Every step keeps the invariant of /dev *)

LEMMA OpenFileIs ==
    ASSUME DevInv, NEW f \in Files, Open(f)
    PROVE  file[f] \in FileType /\ FileOk(file[f])
           /\ file[f].entry \in EntryType /\ Dev(f) \in Devices
  BY DEF DevInv, FilesOk, Open, FileType, EntryType, Dev

LEMMA CharDeviceIs ==
    ASSUME NEW n \in Names
    PROVE  CharDevice(n) \in Devices
<1> DEFINE d == [Name |-> n, Type |-> "char", Start |-> 0, Blocks |-> 0]
<1>1. d.Start + d.Blocks <= TotalBlocks
  BY DevFsAssumption
<1>2. d \in Records
  BY DEF Records
<1> QED
  BY <1>1, <1>2 DEF CharDevice, Devices

\* DevVfsLseek leaves the file on its device, inside a block.
LEMMA LseekIs ==
    ASSUME DevInv, NEW f \in Files, NEW o \in Offsets, NEW w \in {"set", "cur", "end"},
           DevVfsLseek(f, o, w)
    PROVE  \E x \in FileType : /\ x.entry = file[f].entry /\ FileOk(x)
                                /\ file' = [file EXCEPT ![f] = x]
<1> DEFINE new == Max({0, SeekBase(f, w) + o})
           x == IF IsBlock(f) THEN [file[f] EXCEPT !.Pos = new, !.Lba = new \div Blk, !.Off = new % Blk]
                              ELSE [file[f] EXCEPT !.Pos = new, !.Off = new]
<1>1. /\ Open(f) /\ file' = [file EXCEPT ![f] = x] /\ call = NoCall
  BY DEF DevVfsLseek, Idle
<1>2. file[f] \in FileType
  BY <1>1, OpenFileIs
<1>3. new \in Nat
  <2>1. file[f].Pos \in Nat /\ o \in Int /\ Blk \in Nat \ {0}
    BY <1>2, DevFsAssumption DEF FileType
  <2>2. file[f].Pos % Blk \in Int
    BY <2>1
  <2>3. SeekBase(f, w) \in Int
    BY <2>1, <2>2 DEF SeekBase
  <2>4. SeekBase(f, w) + o \in Int
    BY <2>1, <2>3
  <2> QED
    BY <2>4, MaxOfTwo
<1> HIDE DEF new
<1>4. new \div Blk \in Nat /\ new % Blk \in Nat /\ new % Blk < Blk
  <2> DEFINE q == new \div Blk
             m == new % Blk
  <2>1. q = new \div Blk /\ m = new % Blk /\ Blk \in Nat \ {0}
    BY DevFsAssumption
  <2> HIDE DEF q, m
  <2>2. q \in Nat /\ m \in 0 .. Blk - 1
    BY <1>3, <2>1, RemainderIs
  <2>3. q \in Nat /\ m \in Nat /\ m < Blk
    BY <2>1, <2>2
  <2> QED
    BY <2>1, <2>3
<1>5. x \in FileType /\ x.entry = file[f].entry /\ (IsBlock(f) => x.Off = new % Blk)
  BY <1>2, <1>3, <1>4 DEF FileType
<1> HIDE DEF x
<1>6. FileOk(x)
  BY <1>4, <1>5 DEF FileOk, IsBlock, Dev
<1> QED
  BY <1>1, <1>5, <1>6

LEMMA FileStepKeepsInv ==
    ASSUME DevInv, NEW f \in Files, FileStep(f), UNCHANGED kmodvars
    PROVE  DevInv'
<1>0. /\ OutOk' /\ (OwnersOk /\ TableOf(DevTable, Known))
      /\ Known' = Known /\ Owners' = Owners
  BY DEF OutOk, DevInv, kmodvars, Known, Owners, Running
<1>1. CASE Fault(f)
  <2>1. UNCHANGED <<DevTable, file, call, bytes, loaded>>
    BY <1>1 DEF Fault
  <2> QED
    BY <1>0, <2>1, TableSetKeepsInv DEF OwnersOk, kmodvars
<1>2. ASSUME NEW i \in DOMAIN DevTable, DevVfsOpen(f, DevTable[i].dev.Name)
      PROVE  DevInv'
  <2>1. /\ UNCHANGED <<DevTable, call, bytes, loaded>> /\ call = NoCall
        /\ \/ UNCHANGED file
           \/ \E k \in DOMAIN DevTable :
                file' = [file EXCEPT ![f] = [entry |-> DevTable[k], Lba |-> 0, Off |-> 0, Pos |-> 0]]
    BY <1>2 DEF DevVfsOpen, Idle
  <2>2. CASE UNCHANGED file
    BY <1>0, <2>1, <2>2, TableSetKeepsInv DEF OwnersOk, kmodvars
  <2>3. ASSUME NEW k \in DOMAIN DevTable,
               file' = [file EXCEPT ![f] = [entry |-> DevTable[k], Lba |-> 0, Off |-> 0, Pos |-> 0]]
        PROVE  DevInv'
    <3> DEFINE x == [entry |-> DevTable[k], Lba |-> 0, Off |-> 0, Pos |-> 0]
    <3>1. DevTable[k] \in EntryType
      BY <1>0, <2>3 DEF TableOf
    <3>2. x \in FileType /\ x.Off = 0
      BY <3>1 DEF FileType
    <3> HIDE DEF x
    <3>3. FileOk(x)
      BY <3>2, DevFsAssumption DEF FileOk
    <3>4. file' = [file EXCEPT ![f] = x]
      BY <2>3 DEF x
    <3>5. CallOk' /\ DiskOk'
      BY <2>1 DEF CallOk, DevInv, DiskOk
    <3> QED
      BY <1>0, <2>1, <3>2, <3>3, <3>4, <3>5, FileSetKeepsInv
  <2> QED
    BY <2>1, <2>2, <2>3
<1>3. CASE DevVfsClose(f)
  <2>1. /\ file' = [file EXCEPT ![f] = NoFile] /\ call = NoCall
        /\ UNCHANGED <<DevTable, call, bytes, loaded>>
    BY <1>3 DEF DevVfsClose, Reaches, Idle
  <2>2. CallOk' /\ DiskOk' /\ FileOk(NoFile)
    BY <2>1 DEF CallOk, DevInv, DiskOk, FileOk
  <2> QED
    BY <1>0, <2>1, <2>2, FileSetKeepsInv
<1>4. CASE DevVfsIoctl(f, CharDevice("tty1"))
  <2> DEFINE d == CharDevice("tty1")
             o == file[f].entry.owner
  <2>1. /\ DevTable' = DevTable \/ DevTable' = Register(DevTable, d, o)
        /\ Open(f) /\ o \in loaded
        /\ UNCHANGED <<file, call, bytes, loaded>>
    BY <1>4 DEF DevVfsIoctl, Reaches, CodeOf
  <2>2. d \in Devices
    <3>1. "tty1" \in Names
      BY DevFsAssumption
    <3> QED
      BY <3>1, CharDeviceIs
  <2>3. o \in Known \cap Nat
    BY <1>0, <2>1 DEF OwnersOk, Known
  <2> HIDE DEF d, o
  <2>4. TableOf(DevTable', Known')
    BY <1>0, <2>1, <2>2, <2>3, RegisterIs DEF DevInv
  <2> QED
    BY <1>0, <2>1, <2>4, TableSetKeepsInv DEF OwnersOk, kmodvars
<1>5. ASSUME NEW n \in Lens, NEW op \in {"read", "write"}, CharTransfer(f, op, n)
      PROVE  DevInv'
  <2>1. PICK got \in CharAnswers(f, op, n) : file' = [file EXCEPT ![f].Pos = @ + 2 * got]
    BY <1>5 DEF CharTransfer
  <2>2. /\ Open(f) /\ ~IsBlock(f) /\ call = NoCall
        /\ UNCHANGED <<DevTable, call, bytes, loaded>>
    BY <1>5 DEF CharTransfer, Reaches, Idle
  <2>3. got \in Nat
    <3>1. n \in Nat
      BY DevFsAssumption
    <3>2. CharAnswers(f, op, n) \subseteq {0, n}
      BY DEF CharAnswers
    <3> QED
      BY <2>1, <3>1, <3>2
  <2> DEFINE x == [file[f] EXCEPT !.Pos = @ + 2 * got]
  <2>4. file[f] \in FileType /\ file[f].entry.dev.Type # "block"
    BY <2>2, OpenFileIs DEF IsBlock, Dev
  <2>5. x \in FileType /\ x.entry = file[f].entry
    BY <2>3, <2>4 DEF FileType
  <2>6. file' = [file EXCEPT ![f] = x]
    BY <2>1
  <2> HIDE DEF x
  <2>7. FileOk(x) /\ CallOk' /\ DiskOk'
    BY <2>2, <2>4, <2>5 DEF FileOk, CallOk, DiskOk, DevInv
  <2> QED
    BY <1>0, <2>2, <2>5, <2>6, <2>7, FileSetKeepsInv
<1>6. ASSUME NEW n \in Lens, NEW op \in {"read", "write"}, NEW v \in Byte,
             BlockTransfer(f, op, n, v)
      PROVE  DevInv'
  <2>1. /\ Open(f) /\ IsBlock(f) /\ UNCHANGED <<DevTable, file, bytes, loaded>>
        /\ call' = [f |-> f, op |-> op, left |-> n, total |-> 0, val |-> v]
    BY <1>6 DEF BlockTransfer, Reaches
  <2>2. call' \in CallType /\ call'.f = f
    BY <2>1, DevFsAssumption DEF CallType
  <2>3. OnDisk(f)'
    BY <2>1 DEF OnDisk, Open, IsBlock, Dev
  <2>4. CallOk' /\ FilesOk' /\ DiskOk'
    BY <2>1, <2>2, <2>3 DEF CallOk, OnDisk, Open, IsBlock, Dev, DevInv, FilesOk, FileOk, DiskOk
  <2> QED
    BY <1>0, <2>1, <2>4 DEF DevInv, OwnersOk, kmodvars
<1>7. ASSUME NEW o \in Offsets, NEW w \in {"set", "cur", "end"}, DevVfsLseek(f, o, w)
      PROVE  DevInv'
  <2>1. PICK x \in FileType : FileOk(x) /\ file' = [file EXCEPT ![f] = x]
    BY <1>0, <1>7, LseekIs
  <2>2. call = NoCall /\ UNCHANGED <<DevTable, call, bytes, loaded>>
    BY <1>7 DEF DevVfsLseek, Idle
  <2>3. CallOk' /\ DiskOk'
    BY <2>2 DEF CallOk, DevInv, DiskOk
  <2> QED
    BY <1>0, <2>1, <2>2, <2>3, FileSetKeepsInv
<1> QED
  BY <1>1, <1>2, <1>3, <1>4, <1>5, <1>6, <1>7, DevFsAssumption DEF FileStep

LEMMA DevNextKeepsInv ==
    ASSUME DevInv, DevNext, UNCHANGED kmodvars
    PROVE  DevInv'
<1>0. Known' = Known /\ Owners' = Owners
  BY DEF kmodvars, Known, Owners, Running
<1>1. ASSUME NEW n \in Removable, DevFsUnregisterDevice(n) PROVE DevInv'
  <2>1. PICK i \in DOMAIN DevTable : DevTable' = RemoveAt(DevTable, i)
    BY <1>1 DEF DevFsUnregisterDevice
  <2>2. UNCHANGED <<file, call, bytes, loaded>> /\ out' = <<>>
    BY <1>1 DEF DevFsUnregisterDevice
  <2>3. TableOf(DevTable, Known) /\ i \in 1 .. Len(DevTable)
    BY <2>1 DEF DevInv, TableOf
  <2>4. TableOf(DevTable', Known')
    BY <1>0, <2>1, <2>3, UnregisterIs
  <2> QED
    BY <1>0, <2>2, <2>4, TableSetKeepsInv DEF OutOk, OwnersOk, DevInv, kmodvars
<1>2. CASE BufferFails
  <2>1. CallMoves(0) /\ call' = NoCall
    BY <1>2, ReturnIs, CallIs DEF BufferFails
  <2>2. DiskOk'
    BY <1>2 DEF BufferFails, DevInv, DiskOk
  <2> QED
    BY <1>2, <2>1, <2>2, CallMovesKeepsInv DEF BufferFails
<1>3. CASE TransferFails
  <2>1. 2 * call.total \in Nat
    BY <1>3, CallIs DEF TransferFails
  <2>2. CallMoves(0) /\ call' = NoCall
    BY <1>3, <2>1, ReturnIs DEF TransferFails
  <2>3. DiskOk'
    BY <1>3 DEF TransferFails, DevInv, DiskOk
  <2> QED
    BY <1>3, <2>2, <2>3, CallMovesKeepsInv DEF TransferFails
<1>4. CASE ReadBlock
  <2>1. DiskOk'
    BY <1>4 DEF ReadBlock, DevInv, DiskOk
  <2> QED
    BY <1>4, <2>1, ContinueIs, CallMovesKeepsInv DEF ReadBlock
<1>5. CASE WriteBlock
  <2>1. DiskOk'
    BY <1>5, WriteBlockKeepsBytes
  <2> QED
    BY <1>5, <2>1, ContinueIs, CallMovesKeepsInv DEF WriteBlock
<1> QED
  BY <1>1, <1>2, <1>3, <1>4, <1>5, FileStepKeepsInv DEF DevNext

\* What a step of installing leaves alone.
LEMMA OutsideKeepsDevInv ==
    ASSUME DevInv, UNCHANGED <<devvars, modules, unlisted, removed>>
    PROVE  DevInv'
<1>1. Known' = Known /\ Owners' = Owners
  BY DEF Known, Owners, Running
<1>2. TableOf(DevTable', Known') /\ OutOk' /\ OwnersOk'
  BY <1>1 DEF DevInv, OutOk, OwnersOk, devvars
<1> QED
  BY <1>2, TableSetKeepsInv DEF devvars

\* module_init registers its devices and its code is mapped.
LEMMA FinishInstallKeepsDevInv ==
    ASSUME ModInv, DevInv, FinishInstall
    PROVE  DevInv'
<1> DEFINE o == job.inst
           ds == Registers[job.mod]
<1>0. PICK got \in SUBSET DOMAIN ds : DevTable' = Registered(DevTable, ds, o, got)
  BY DEF FinishInstall, InitFn
<1>1. /\ DevTable' = Registered(DevTable, ds, o, got)
      /\ loaded' = loaded \cup {o} /\ job # NoJob
      /\ UNCHANGED <<file, call, bytes, out, removed>>
  BY <1>0 DEF FinishInstall, Complete
<1>2. o \in Nat /\ ds \in Seq(Devices)
  BY <1>1, KModsAssumption DEF ModInv, ListTypes, JobType
<1>3. Running' = Running \cup {Record} /\ Record.inst = o
  BY FinishInstallKeepsInv DEF Record
<1>4. Owners' = Owners \cup {o} /\ Known' = Known \cup {o}
  BY <1>1, <1>3 DEF Owners, Known
<1>5. TableOf(DevTable, Known')
  BY <1>4 DEF DevInv, TableOf
<1> HIDE DEF o, ds
<1>6. TableOf(DevTable', Known')
  BY <1>1, <1>2, <1>4, <1>5, RegisteredIs
<1>7. OutOk' /\ OwnersOk'
  BY <1>1, <1>2, <1>4 DEF DevInv, OutOk, OwnersOk
<1> QED
  BY <1>1, <1>6, <1>7, TableSetKeepsInv

LEMMA UnInstallKeepsDevInv ==
    ASSUME ModInv, DevInv, NEW m \in Mods, UnInstallModule(m)
    PROVE  DevInv'
<1>1. UNCHANGED <<DevTable, file, call, bytes, out>>
  BY DEF UnInstallModule
<1>2. PICK r \in Running : /\ Running' = Running \ {r}
                           /\ loaded' = loaded \ {r.inst} /\ removed' = removed \cup {r.inst}
  BY UnInstallKeepsInv
<1>3. r.inst \in Nat
  BY RunningIs DEF ModInv, RecordType
<1>4. Known' = Known /\ Owners' \subseteq Owners /\ Owners \subseteq Owners' \cup {r.inst}
  BY <1>2 DEF Known, Owners
<1>5. OutOk' /\ OwnersOk' /\ TableOf(DevTable', Known')
  BY <1>1, <1>2, <1>3, <1>4 DEF DevInv, OutOk, OwnersOk
<1> QED
  BY <1>1, <1>5, TableSetKeepsInv

LEMMA DevInitInv == Init => DevInv
<1> SUFFICES ASSUME Init PROVE DevInv
  OBVIOUS
<1>1. /\ DevTable = DevFsRegisterSeedDevices /\ file = [f \in Files |-> NoFile] /\ call = NoCall
      /\ bytes = [i \in 0 .. (TotalBlocks * Blk - 1) |-> 0] /\ out = <<>> /\ loaded = {KernelOwner}
      /\ removed = {} /\ modules = <<>> /\ unlisted = {}
  BY DEF Init, DevInit
<1>2. Running = {} /\ Owners = {0} /\ Known = {0}
  BY <1>1 DEF Running, Range, Owners, Known, KernelOwner
<1>3. TableOf(<<>>, Known)
  BY DEF TableOf
<1>4. CharDevice("null") \in Devices /\ CharDevice("zero") \in Devices
  <2>1. "null" \in Names /\ "zero" \in Names
    BY DevFsAssumption
  <2> QED
    BY <2>1, CharDeviceIs
<1>5. KernelOwner \in Known \cap Nat
  BY <1>2 DEF KernelOwner
<1> DEFINE t == Register(<<>>, CharDevice("null"), KernelOwner)
<1>6. TableOf(t, Known)
  BY <1>3, <1>4, <1>5, RegisterIs
<1> HIDE DEF t
<1>7. TableOf(Register(t, CharDevice("zero"), KernelOwner), Known)
  BY <1>4, <1>5, <1>6, RegisterIs
<1>8. TableOf(DevTable, Known)
  BY <1>1, <1>7 DEF DevFsRegisterSeedDevices, t
<1>9. FilesOk /\ CallOk /\ OutOk
  BY <1>1 DEF FilesOk, FileOk, CallOk, OutOk
<1>10. DiskOk
  BY <1>1, DevFsAssumption DEF DiskOk
<1> QED
  BY <1>1, <1>2, <1>8, <1>9, <1>10 DEF DevInv, OwnersOk, KernelOwner

LEMMA DevStepInv == ModInv /\ DevInv /\ [Next]_vars => DevInv'
<1> SUFFICES ASSUME ModInv, DevInv, [Next]_vars PROVE DevInv'
  OBVIOUS
<1>1. CASE InitRamDiskDevDrvs
  BY <1>1, OutsideKeepsDevInv DEF InitRamDiskDevDrvs, Begin
<1>2. ASSUME NEW m \in Mods, InstallModule(m) PROVE DevInv'
  BY <1>2, OutsideKeepsDevInv DEF InstallModule, Begin
<1>3. ASSUME NEW m \in Mods, UnInstallModule(m) PROVE DevInv'
  BY <1>3, UnInstallKeepsDevInv
<1>4. CASE LoadSection
  BY <1>4, OutsideKeepsDevInv DEF LoadSection, Outside
<1>5. CASE PayloadFails
  BY <1>5, OutsideKeepsDevInv DEF PayloadFails, Outside
<1>6. CASE SectionFails
  BY <1>6, OutsideKeepsDevInv DEF SectionFails, Outside
<1>7. CASE NoInit
  BY <1>7, OutsideKeepsDevInv DEF NoInit, Outside
<1>8. CASE FinishInstall
  BY <1>8, FinishInstallKeepsDevInv
<1>9. CASE DevNext /\ UNCHANGED kmodvars
  BY <1>9, DevNextKeepsInv
<1>10. CASE UNCHANGED vars
  BY <1>10, OutsideKeepsDevInv DEF vars, kmodvars
<1> QED
  BY <1>1, <1>2, <1>3, <1>4, <1>5, <1>6, <1>7, <1>8, <1>9, <1>10 DEF Next, InstallStep

\* What the device table, the open files and the transfer under way keep in
\* every reachable state of the registry and the modules.
THEOREM DevicesInvariant == Spec => []DevInv
  BY DevInitInv, ModInitInv, DevStepInv, ModStepInv, PTL DEF Spec

\* A device in /dev has its driver's code behind it unless the driver was
\* uninstalled, and names are unique, whatever installations failed
\* (InstallModule, UnInstallModule, DevFsRegisterCharDevice, TtyIoctl).
THEOREM DevicesKeepDrivers == Spec => []DevicesHaveDrivers
<1>1. DevInv => DevicesHaveDrivers
  BY DEF DevInv, TableOf, Known, Owners, DevicesHaveDrivers
<1> QED
  BY <1>1, DevicesInvariant, PTL

-----------------------------------------------------------------------------
(* A block device is a stream of bytes *)

\* Which files a step leaves where they are.
LEMMA PlaceIs ==
    ASSUME NEW g, file'[g] = file[g]
    PROVE  Place(g)' = Place(g) /\ Window(g)' = Window(g)
  BY DEF Place, Window, OnDisk, Open, IsBlock, Dev

\* Nothing of the stream changes in a step that leaves files, transfer and disk alone.
LEMMA StreamStutterIs ==
    ASSUME UNCHANGED <<file, call, bytes, out>>
    PROVE  UNCHANGED Stream!diskvars
<1>1. \A g \in Files : Place(g)' = Place(g) /\ Window(g)' = Window(g)
  BY PlaceIs
<1> QED
  BY <1>1 DEF Stream!diskvars, InTransfer

\* While a transfer is under way, it is on one file.
LEMMA InTransferIs ==
    ASSUME DevInv
    PROVE  /\ call = NoCall => InTransfer = {}
           /\ call # NoCall => call.f \in Files /\ InTransfer = {call.f}
<1>1. call # NoCall => call.f \in Files
  BY CallIs
<1> QED
  BY <1>1 DEF InTransfer

\* A step that moves no file of a block device.
LEMMA TurnIs ==
    ASSUME DevInv, DevInv', call = NoCall \/ call' = NoCall,
           \A g \in Files : Place(g)' = Place(g) /\ Window(g)' = Window(g),
           out' = <<>>, bytes' = bytes
    PROVE  Stream!Turn
<1>1. InTransfer = {} \/ InTransfer' = {}
  BY InTransferIs DEF InTransfer
<1>2. InTransfer' = {} \/ \E f \in Files : InTransfer' = {f}
  <2>1. call' # NoCall => call'.f \in Files
    BY DEF DevInv, CallOk, CallType
  <2> QED
    BY <2>1 DEF InTransfer
<1>3. [g \in Files |-> Place(g)]' = [g \in Files |-> Place(g)]
      /\ [g \in Files |-> Window(g)]' = [g \in Files |-> Window(g)]
  OBVIOUS
<1> QED
  BY <1>1, <1>2, <1>3 DEF Stream!Turn

\* The call's file in terms of the stream: where it stands before and after a
\* step that moves it by d bytes.
LEMMA CallMovesIs ==
    ASSUME DevInv, call # NoCall, NEW d \in Nat, CallMoves(d), NEW f \in Files, f = call.f
    PROVE  /\ [g \in Files |-> Place(g)]' = [[g \in Files |-> Place(g)] EXCEPT ![f] = @ + d]
           /\ [g \in Files |-> Window(g)]' = [g \in Files |-> Window(g)]
           /\ \A g \in Files \ {f} : file'[g] = file[g]
<1>1. PICK x \in FileType :
         /\ file' = [file EXCEPT ![f] = x]
         /\ x.entry = file[f].entry /\ x.Off < Blk
         /\ x.Lba * Blk + x.Off = file[f].Lba * Blk + file[f].Off + d
  BY DEF CallMoves
<1>2. file[f] \in FileType /\ OnDisk(f)
  BY CallIs
<1>3. file'[f] = x /\ \A g \in Files \ {f} : file'[g] = file[g]
  BY <1>1 DEF DevInv, FilesOk
<1>4. x # NoFile /\ file[f] # NoFile /\ file[f].entry.dev.Type = "block"
  BY <1>2, NoFileIsNone DEF OnDisk, Open, IsBlock, Dev
<1> DEFINE s == file[f].entry.dev.Start
<1>5. Place(f) = (s + file[f].Lba) * Blk + file[f].Off
  BY <1>2, <1>4 DEF Place, Dev
<1>6. Place(f)' = (s + x.Lba) * Blk + x.Off
  BY <1>1, <1>3, <1>4 DEF Place, OnDisk, Open, IsBlock, Dev
<1>7. Window(f)' = Window(f)
  BY <1>1, <1>3, <1>4 DEF Window, OnDisk, Open, IsBlock, Dev
<1>8. Place(f)' = Place(f) + d
  <2> DEFINE l == file[f].Lba
             o == file[f].Off
             m == x.Lba
             p == x.Off
  <2>1. /\ s \in Nat /\ l \in Nat /\ o \in Nat /\ m \in Nat /\ p \in Nat /\ Blk \in Nat
    BY <1>2, DevFsAssumption DEF FileType, EntryType, Devices, Records
  <2>2. m * Blk + p = l * Blk + o + d
    BY <1>1
  <2>3. Place(f) = (s + l) * Blk + o /\ Place(f)' = (s + m) * Blk + p
    BY <1>5, <1>6
  <2> HIDE DEF s, l, o, m, p
  <2>4. (s + l) * Blk = s * Blk + l * Blk /\ (s + m) * Blk = s * Blk + m * Blk
    BY <2>1
  <2>5. s * Blk \in Nat /\ l * Blk \in Nat /\ m * Blk \in Nat
    BY <2>1, TimesIsMonotonic
  <2> QED
    BY <2>1, <2>2, <2>3, <2>4, <2>5
<1>9. \A g \in Files \ {f} : Place(g)' = Place(g) /\ Window(g)' = Window(g)
  BY <1>3, PlaceIs
<1>10. [g \in Files |-> Place(g)]' = [[g \in Files |-> Place(g)] EXCEPT ![f] = @ + d]
  BY <1>8, <1>9
<1>11. [g \in Files |-> Window(g)]' = [g \in Files |-> Window(g)]
  BY <1>7, <1>9
<1> QED
  BY <1>3, <1>10, <1>11

LEMMA PlaceIsNat ==
    ASSUME DevInv, call # NoCall, NEW f \in Files, f = call.f
    PROVE  Place(f) \in Nat
<1>1. file[f] \in FileType /\ OnDisk(f)
  BY CallIs
<1> DEFINE b == Dev(f).Start + file[f].Lba
<1>2. b \in Nat /\ file[f].Off \in Nat /\ Blk \in Nat /\ Place(f) = b * Blk + file[f].Off
  BY <1>1, DevFsAssumption DEF FileType, EntryType, Devices, Records, Dev, Place
<1> HIDE DEF b
<1>3. b * Blk \in Nat
  BY <1>2, TimesIsMonotonic
<1> QED
  BY <1>2, <1>3

\* One round of a transfer stays inside the part of the disk that the file was
\* opened on.
LEMMA WithinIs ==
    ASSUME DevInv, call # NoCall, InRange(call), NEW f \in Files, f = call.f
    PROVE  /\ Stream!Within(f, Chunk(call))
           /\ Place(f) = Here(call) + file[f].Off
           /\ Dev(f).Start + file[f].Lba \in Nat
           /\ Here(call) = (Dev(f).Start + file[f].Lba) * Blk
<1> DEFINE s == Dev(f).Start
           b == Dev(f).Blocks
           l == file[f].Lba
           o == file[f].Off
           n == Chunk(call)
<1>1. /\ file[f] \in FileType /\ OnDisk(f) /\ n \in 1 .. Blk /\ o + n <= Blk
  BY CallIs
<1>2. s \in Nat /\ b \in Nat /\ l \in Nat /\ o \in Nat /\ Blk \in Nat
  BY <1>1, DevFsAssumption DEF FileType, EntryType, Devices, Records, Dev
<1>3. l < b
  BY DEF InRange, BlockExists
<1>4. Place(f) = (s + l) * Blk + o /\ Window(f) = <<s * Blk, (s + b) * Blk>>
  BY <1>1 DEF Place, Window
<1>5. Here(call) = (s + l) * Blk
  BY DEF Here, DiskLba
<1> HIDE DEF s, b, l, o, n
<1>6. s * Blk <= (s + l) * Blk
  BY <1>2, TimesIsMonotonic
<1>7. (s + l + 1) * Blk <= (s + b) * Blk /\ (s + l + 1) * Blk = (s + l) * Blk + Blk
  BY <1>2, <1>3, TimesIsMonotonic
<1>8. (s + l) * Blk \in Nat /\ s * Blk \in Nat /\ (s + b) * Blk \in Nat
  BY <1>2, TimesIsMonotonic
<1> DEFINE p == (s + l) * Blk
           w1 == s * Blk
           w2 == (s + b) * Blk
           k == (s + l + 1) * Blk
<1>9. w1 <= p + o /\ p + o + n <= w2
  <2>1. w1 <= p /\ k <= w2 /\ k = p + Blk /\ p \in Nat /\ w1 \in Nat /\ w2 \in Nat
    BY <1>6, <1>7, <1>8
  <2> HIDE DEF p, w1, w2, k
  <2> QED
    BY <1>1, <1>2, <2>1
<1>10. Window(f)[1] <= Place(f) /\ Place(f) + n <= Window(f)[2]
  BY <1>4, <1>9
<1>11. Stream!Within(f, n)
  BY <1>10 DEF Stream!Within
<1> QED
  BY <1>2, <1>4, <1>5, <1>11 DEF s, l, o, n

LEMMA UnderIs ==
    ASSUME DevInv, call # NoCall, NEW f \in Files, f = call.f,
           call' = NoCall \/ (call' \in CallType /\ call'.f = call.f)
    PROVE  Stream!Under(f)
<1>1. InTransfer = {f} /\ (InTransfer' = InTransfer \/ InTransfer' = {})
  BY InTransferIs DEF InTransfer
<1> QED
  BY <1>1 DEF Stream!Under

LEMMA ReadIsGet ==
    ASSUME DevInv, ReadBlock, NEW f \in Files, f = call.f
    PROVE  \E n \in 1 .. Blk : Stream!Get(f, n)
<1> DEFINE n == Chunk(call)
           at == [g \in Files |-> Place(g)]
<1>1. /\ call # NoCall /\ InRange(call) /\ bytes' = bytes
      /\ out' = [i \in 1 .. n |-> bytes[Here(call) + file[f].Off + i - 1]]
  BY DEF ReadBlock
<1>2. n \in 1 .. Blk /\ n \in Nat
  BY <1>1, CallIs, DevFsAssumption
<1>3. CallMoves(n)
  BY <1>1, ContinueIs DEF ReadBlock
<1>4. Place(f) = Here(call) + file[f].Off /\ Stream!Within(f, n)
  BY <1>1, WithinIs
<1>5. at' = [at EXCEPT ![f] = @ + n]
      /\ [g \in Files |-> Window(g)]' = [g \in Files |-> Window(g)]
  BY <1>1, <1>2, <1>3, CallMovesIs
<1> HIDE DEF n
<1>6. at[f] = Here(call) + file[f].Off
  BY <1>4
<1>7. out' = [i \in 1 .. n |-> bytes[at[f] + i - 1]]
  BY <1>1, <1>6
<1>8. Stream!Under(f)
  BY <1>1, ContinueIs, UnderIs DEF ReadBlock
<1>9. Stream!Get(f, n)
  BY <1>1, <1>4, <1>5, <1>7, <1>8 DEF Stream!Get
<1> QED
  BY <1>2, <1>9

LEMMA WriteIsPut ==
    ASSUME DevInv, WriteBlock, NEW f \in Files, f = call.f
    PROVE  \E n \in 1 .. Blk, v \in Byte : Stream!Put(f, n, v)
<1> DEFINE n == Chunk(call)
           v == call.val
           h == Here(call)
           o == file[f].Off
           b == Dev(f).Start + file[f].Lba
           D == 0 .. (TotalBlocks * Blk - 1)
           at == [g \in Files |-> Place(g)]
           a == Place(f)
<1>1. /\ call # NoCall /\ InRange(call) /\ out' = <<>> /\ Continue(call)
      /\ bytes \in [D -> Byte]
  BY DEF WriteBlock, DevInv, DiskOk
<1>2. /\ n \in 1 .. Blk /\ n \in Nat /\ o + n <= Blk /\ v \in Byte
      /\ o \in Nat /\ o < Blk /\ Blk \in Nat \ {0} /\ n # 0
  BY <1>1, CallIs, DevFsAssumption DEF FileType
<1>3. CallMoves(n)
  BY <1>1, ContinueIs
<1>4. a = h + o /\ Stream!Within(f, n) /\ b \in Nat /\ h = b * Blk
  BY <1>1, WithinIs
<1>5. at' = [at EXCEPT ![f] = @ + n]
      /\ [g \in Files |-> Window(g)]' = [g \in Files |-> Window(g)]
  BY <1>1, <1>2, <1>3, CallMovesIs
<1>6. PICK old \in {[i \in 0 .. (Blk - 1) |-> bytes[h + i]], [i \in 0 .. (Blk - 1) |-> 0]} :
        bytes' = [i \in D |-> IF i \in h .. (h + Blk - 1)
                              THEN Patched(call, old)[i - h] ELSE bytes[i]]
  BY <1>1 DEF WriteBlock
<1>7. \A k \in 0 .. (Blk - 1) : Patched(call, old)[k] = IF k \in o .. (o + n - 1) THEN v ELSE old[k]
  BY DEF Patched
<1>8. at[f] = a
  OBVIOUS
<1> HIDE DEF n, v, h, o, a, b
<1>9. h \in Nat
  BY <1>2, <1>4, TimesIsMonotonic
<1>10. a \in Nat /\ a \div Blk = b
  <2>1. a \in Nat /\ a \in b * Blk .. b * Blk + Blk - 1
    BY <1>2, <1>4, <1>9
  <2> QED
    BY <1>2, <1>4, <2>1, BlockIs
<1> DEFINE InBlock(i) == i \in h .. (h + Blk - 1)
           InChunk(i) == i \in a .. (a + n - 1)
<1>11. \A i \in D : i \in Nat
  OBVIOUS
<1>12. \A i \in D : InBlock(i) <=> i \div Blk = b
  <2> TAKE i \in D
  <2>1. i \div Blk = b <=> i \in b * Blk .. b * Blk + Blk - 1
    BY <1>2, <1>4, <1>11, BlockIs
  <2> QED
    BY <1>4, <2>1
<1>13. \A i \in D : /\ InChunk(i) => InBlock(i)
                    /\ InBlock(i) => /\ i - h \in 0 .. (Blk - 1) /\ h + (i - h) = i
                                     /\ i - h \in o .. (o + n - 1) <=> InChunk(i)
  <2> HIDE DEF D
  <2>1. \A i \in D : i \in Int
    BY <1>11
  <2> QED
    BY <1>2, <1>4, <1>9, <2>1
<1> DEFINE bs == [i \in D |-> bytes[i]]
           zs == [i \in D |-> IF i \div Blk = a \div Blk THEN 0 ELSE bytes[i]]
<1>14. \E rest \in {bs, zs} : bytes' = [i \in D |-> IF InChunk(i) THEN v ELSE rest[i]]
  <2> HIDE DEF InChunk, InBlock, D
  <2>1. ASSUME NEW i \in D, InBlock(i)
        PROVE  bytes'[i] = IF InChunk(i) THEN v ELSE old[i - h]
    BY <1>6, <1>7, <1>13, <2>1 DEF InBlock
  <2>2. ASSUME NEW i \in D, ~InBlock(i) PROVE bytes'[i] = bytes[i] /\ ~InChunk(i)
    BY <1>6, <1>13, <2>2 DEF InBlock
  <2>3. bytes' = [i \in D |-> bytes'[i]]
    BY <1>6
  <2>4. CASE old = [i \in 0 .. (Blk - 1) |-> bytes[h + i]]
    <3>1. ASSUME NEW i \in D PROVE bytes'[i] = IF InChunk(i) THEN v ELSE bs[i]
      <4>1. CASE InBlock(i)
        <5>1. old[i - h] = bytes[i]
          BY <1>13, <2>4, <4>1
        <5> QED
          BY <2>1, <4>1, <5>1
      <4>2. CASE ~InBlock(i)
        BY <2>2, <4>2
      <4> QED
        BY <4>1, <4>2
    <3> HIDE DEF bs
    <3> QED
      BY <2>3, <3>1
  <2>5. CASE old = [i \in 0 .. (Blk - 1) |-> 0]
    <3>1. ASSUME NEW i \in D PROVE bytes'[i] = IF InChunk(i) THEN v ELSE zs[i]
      <4>0. zs[i] = IF InBlock(i) THEN 0 ELSE bytes[i]
        BY <1>10, <1>12
      <4> HIDE DEF zs
      <4>1. CASE InBlock(i)
        <5>1. old[i - h] = 0
          BY <1>13, <2>5, <4>1
        <5> QED
          BY <2>1, <4>0, <4>1, <5>1
      <4>2. CASE ~InBlock(i)
        BY <2>2, <4>0, <4>2
      <4> QED
        BY <4>1, <4>2
    <3> HIDE DEF zs
    <3> QED
      BY <2>3, <3>1
  <2> QED
    BY <1>6, <2>4, <2>5
<1>15. DOMAIN bytes = D
  BY <1>1
<1>16. Stream!Put(f, n, v)
  <2>1. \E rest \in {[i \in DOMAIN bytes |-> bytes[i]],
                     [i \in DOMAIN bytes |-> IF i \div Blk = at[f] \div Blk THEN 0 ELSE bytes[i]]} :
           bytes' = [i \in DOMAIN bytes |->
                       IF i \in at[f] .. (at[f] + n - 1) THEN v ELSE rest[i]]
    <3>1. \E rest \in {[i \in D |-> bytes[i]],
                       [i \in D |-> IF i \div Blk = a \div Blk THEN 0 ELSE bytes[i]]} :
             bytes' = [i \in D |-> IF i \in a .. (a + n - 1) THEN v ELSE rest[i]]
      BY <1>14
    <3> HIDE DEF at, D
    <3> QED
      BY <1>8, <1>15, <3>1
  <2>2. Stream!Under(f)
    BY <1>1, ContinueIs, UnderIs
  <2> QED
    BY <1>1, <1>4, <1>5, <2>1, <2>2, Zenon DEF Stream!Put
<1> QED
  BY <1>2, <1>16

LEMMA StreamInit == Init => Stream!DiskInit
<1> SUFFICES ASSUME Init PROVE Stream!DiskInit
  OBVIOUS
<1>1. DevInv /\ file = [f \in Files |-> NoFile] /\ out = <<>>
  BY DevInitInv DEF Init, DevInit
<1>2. \A f \in Files : Place(f) = 0 /\ Window(f) = <<0, 0>>
  BY <1>1 DEF Place, Window, OnDisk, Open
<1>3. InTransfer = {}
  BY DEF Init, DevInit, InTransfer
<1> QED
  BY <1>1, <1>2, <1>3 DEF Stream!DiskInit, DevInv, DiskOk

\* DevVfsOpen and DevVfsClose put the file at the start of its device, or nowhere.
LEMMA OpenIs ==
    ASSUME DevInv, NEW f \in Files, NEW x \in FileType \cup {NoFile}, FileOk(x),
           x # NoFile => x.Lba = 0 /\ x.Off = 0,
           file' = [file EXCEPT ![f] = x], call = NoCall, call' = NoCall,
           out' = <<>>, bytes' = bytes
    PROVE  Stream!Open(f)
<1>1. file'[f] = x /\ \A g \in Files \ {f} : Place(g)' = Place(g) /\ Window(g)' = Window(g)
  BY PlaceIs DEF DevInv, FilesOk
<1>2. Place(f)' = Window(f)[1]'
  <2>1. CASE OnDisk(f)'
    <3>1. x # NoFile /\ x \in FileType
      BY <1>1, <2>1 DEF OnDisk, Open
    <3> DEFINE s == x.entry.dev.Start
    <3>2. s \in Nat /\ Blk \in Nat
      BY <3>1, DevFsAssumption DEF FileType, EntryType, Devices, Records
    <3>3. Place(f)' = (s + x.Lba) * Blk + x.Off /\ Window(f)[1]' = s * Blk
      BY <1>1, <2>1 DEF Place, Window, Dev
    <3>4. x.Lba = 0 /\ x.Off = 0
      BY <3>1
    <3> HIDE DEF s
    <3>5. s * Blk \in Nat /\ (s + 0) * Blk = s * Blk
      BY <3>2, TimesIsMonotonic
    <3> QED
      BY <3>3, <3>4, <3>5
  <2>2. CASE ~OnDisk(f)'
    BY <2>2 DEF Place, Window
  <2> QED
    BY <2>1, <2>2
<1>3. [g \in Files |-> Place(g)]' = [[g \in Files |-> Place(g)] EXCEPT ![f] = [g \in Files |-> Window(g)]'[f][1]]
  BY <1>1, <1>2
<1>4. [g \in Files |-> Window(g)]' = [[g \in Files |-> Window(g)] EXCEPT ![f] = [g \in Files |-> Window(g)]'[f]]
  BY <1>1
<1>5. InTransfer = {} /\ InTransfer' = {}
  BY DEF InTransfer
<1> QED
  BY <1>3, <1>4, <1>5 DEF Stream!Open

\* DevVfsLseek on a block device stays on it.
LEMMA SeekIs ==
    ASSUME DevInv, NEW f \in Files, NEW x \in FileType, Open(f), x.entry = file[f].entry,
           IsBlock(f), file' = [file EXCEPT ![f] = x], call = NoCall, call' = NoCall,
           out' = <<>>, bytes' = bytes
    PROVE  Stream!Seek(f)
<1>1. file'[f] = x /\ \A g \in Files \ {f} : Place(g)' = Place(g) /\ Window(g)' = Window(g)
  BY PlaceIs DEF DevInv, FilesOk
<1>2. x # NoFile
  BY NoFileIsNone
<1> DEFINE s == x.entry.dev.Start
<1>3. s \in Nat /\ Blk \in Nat /\ x.Lba \in Nat /\ x.Off \in Nat
  BY DevFsAssumption DEF FileType, EntryType, Devices, Records
<1>4. Place(f)' = (s + x.Lba) * Blk + x.Off /\ Window(f)' = Window(f) /\ Window(f)[1] = s * Blk
  BY <1>1, <1>2 DEF Place, Window, OnDisk, Open, IsBlock, Dev
<1>5. Place(f)' >= Window(f)[1]
  <2> DEFINE a == s * Blk
             l == (s + x.Lba) * Blk
  <2>1. a <= l /\ a \in Nat /\ l \in Nat
    <3> DEFINE t == s + x.Lba
    <3>1. s \in Nat /\ t \in Nat /\ s <= t
      BY <1>3
    <3> HIDE DEF s, t
    <3>2. s * Blk <= t * Blk /\ s * Blk \in Nat /\ t * Blk \in Nat
      BY <1>3, <3>1, TimesIsMonotonic
    <3> QED
      BY <3>2 DEF t
  <2>2. Place(f)' = l + x.Off /\ Window(f)[1] = a
    BY <1>4
  <2> HIDE DEF a, l, s
  <2> QED
    BY <1>3, <2>1, <2>2
<1>6. [g \in Files |-> Place(g)]' = [[g \in Files |-> Place(g)] EXCEPT ![f] = [g \in Files |-> Place(g)]'[f]]
      /\ [g \in Files |-> Place(g)]'[f] >= [g \in Files |-> Window(g)][f][1]
  BY <1>1, <1>5
<1>7. [g \in Files |-> Window(g)]' = [g \in Files |-> Window(g)]
  BY <1>1, <1>4
<1>8. InTransfer = {} /\ InTransfer' = {}
  BY DEF InTransfer
<1> QED
  BY <1>6, <1>7, <1>8 DEF Stream!Seek

\* A character device's file has no place, wherever its own offset goes.
LEMMA CharFileIs ==
    ASSUME DevInv, NEW f \in Files, NEW x \in FileType, Open(f), ~IsBlock(f),
           x.entry = file[f].entry, file' = [file EXCEPT ![f] = x]
    PROVE  \A g \in Files : Place(g)' = Place(g) /\ Window(g)' = Window(g)
<1>1. file'[f] = x /\ \A g \in Files \ {f} : Place(g)' = Place(g) /\ Window(g)' = Window(g)
  BY PlaceIs DEF DevInv, FilesOk
<1>2. ~OnDisk(f) /\ ~OnDisk(f)'
  BY <1>1 DEF OnDisk, Open, IsBlock, Dev
<1> QED
  BY <1>1, <1>2 DEF Place, Window

LEMMA FileStepIsStream ==
    ASSUME DevInv, DevInv', NEW f \in Files, FileStep(f)
    PROVE  Stream!Turn \/ Stream!Open(f) \/ Stream!Seek(f)
<1>1. out' = <<>> /\ bytes' = bytes /\ call = NoCall
  BY DEF FileStep, Fault, DevVfsOpen, DevVfsClose, DevVfsIoctl, CharTransfer, BlockTransfer, DevVfsLseek,
         Reaches, Idle
<1>2. CASE file' = file
  <2>1. \A g \in Files : Place(g)' = Place(g) /\ Window(g)' = Window(g)
    BY <1>2, PlaceIs
  <2> QED
    BY <1>1, <2>1, TurnIs
<1>3. ASSUME NEW i \in DOMAIN DevTable, DevVfsOpen(f, DevTable[i].dev.Name), file' # file
      PROVE  Stream!Open(f)
  <2>1. PICK j \in DOMAIN DevTable :
          file' = [file EXCEPT ![f] = [entry |-> DevTable[j], Lba |-> 0, Off |-> 0, Pos |-> 0]]
    BY <1>3 DEF DevVfsOpen
  <2> DEFINE x == [entry |-> DevTable[j], Lba |-> 0, Off |-> 0, Pos |-> 0]
  <2>2. x \in FileType /\ x.Lba = 0 /\ x.Off = 0
    BY DEF DevInv, TableOf, FileType
  <2>3. file' = [file EXCEPT ![f] = x] /\ call' = NoCall
    BY <1>1, <1>3, <2>1 DEF DevVfsOpen
  <2> HIDE DEF x
  <2>4. FileOk(x)
    BY <2>2, DevFsAssumption DEF FileOk
  <2> QED
    BY <1>1, <2>2, <2>3, <2>4, OpenIs
<1>4. CASE DevVfsClose(f)
  <2>1. file' = [file EXCEPT ![f] = NoFile] /\ call' = NoCall /\ FileOk(NoFile)
    BY <1>1, <1>4 DEF DevVfsClose, FileOk
  <2> QED
    BY <1>1, <2>1, OpenIs
<1>5. ASSUME NEW n \in Lens, NEW op \in {"read", "write"}, CharTransfer(f, op, n)
      PROVE  Stream!Turn
  <2>1. PICK got \in CharAnswers(f, op, n) : file' = [file EXCEPT ![f].Pos = @ + 2 * got]
    BY <1>5 DEF CharTransfer
  <2>2. got \in Nat
    <3>1. n \in Nat /\ CharAnswers(f, op, n) \subseteq {0, n}
      BY DevFsAssumption DEF CharAnswers
    <3> QED
      BY <2>1, <3>1
  <2> DEFINE x == [file[f] EXCEPT !.Pos = @ + 2 * got]
  <2>3. Open(f) /\ ~IsBlock(f) /\ file[f] \in FileType
    BY <1>5, OpenFileIs DEF CharTransfer, Reaches
  <2>4. x \in FileType /\ x.entry = file[f].entry
    BY <2>2, <2>3 DEF FileType
  <2>5. file' = [file EXCEPT ![f] = x]
    BY <2>1
  <2> HIDE DEF x
  <2>6. \A g \in Files : Place(g)' = Place(g) /\ Window(g)' = Window(g)
    BY <2>3, <2>4, <2>5, CharFileIs
  <2> QED
    BY <1>1, <2>6, TurnIs
<1>6. ASSUME NEW o \in Offsets, NEW w \in {"set", "cur", "end"}, DevVfsLseek(f, o, w)
      PROVE  Stream!Turn \/ Stream!Seek(f)
  <2>1. PICK x \in FileType : x.entry = file[f].entry /\ file' = [file EXCEPT ![f] = x]
    BY <1>6, LseekIs
  <2>2. Open(f) /\ call' = NoCall
    BY <1>1, <1>6 DEF DevVfsLseek
  <2>3. CASE IsBlock(f)
    BY <1>1, <2>1, <2>2, <2>3, SeekIs
  <2>4. CASE ~IsBlock(f)
    <3>1. \A g \in Files : Place(g)' = Place(g) /\ Window(g)' = Window(g)
      BY <2>1, <2>2, <2>4, CharFileIs
    <3> QED
      BY <1>1, <3>1, TurnIs
  <2> QED
    BY <2>3, <2>4
<1>7. CASE Fault(f) \/ DevVfsIoctl(f, CharDevice("tty1"))
  BY <1>2, <1>7 DEF Fault, DevVfsIoctl
<1>8. ASSUME NEW op \in {"read", "write"}, NEW n \in Lens, NEW v \in Byte, BlockTransfer(f, op, n, v)
      PROVE  Stream!Turn \/ Stream!Open(f) \/ Stream!Seek(f)
  BY <1>2, <1>8 DEF BlockTransfer
<1> QED
  BY <1>2, <1>3, <1>4, <1>5, <1>6, <1>7, <1>8, DevFsAssumption DEF FileStep

LEMMA StreamStep ==
    DevInv /\ DevInv' /\ [Next]_vars => [Stream!DiskNext]_(Stream!diskvars)
<1> SUFFICES ASSUME DevInv, DevInv', [Next]_vars
             PROVE  Stream!DiskNext \/ UNCHANGED Stream!diskvars
  OBVIOUS
<1>1. CASE UNCHANGED <<file, call, bytes, out>>
  BY <1>1, StreamStutterIs
<1>2. ASSUME NEW f \in Files, FileStep(f) PROVE Stream!DiskNext
  BY <1>2, FileStepIsStream DEF Stream!DiskNext
<1>3. ASSUME NEW n \in Removable, DevFsUnregisterDevice(n) PROVE Stream!DiskNext
  <2>1. file' = file /\ bytes' = bytes /\ out' = <<>> /\ call = NoCall
    BY <1>3 DEF DevFsUnregisterDevice, Idle
  <2>2. \A g \in Files : Place(g)' = Place(g) /\ Window(g)' = Window(g)
    BY <2>1, PlaceIs
  <2> QED
    BY <2>1, <2>2, TurnIs DEF Stream!DiskNext
<1>4. CASE BufferFails \/ TransferFails
  <2>1. call # NoCall /\ out' = <<>> /\ bytes' = bytes
    BY <1>4 DEF BufferFails, TransferFails
  <2>2. CallMoves(0) /\ call' = NoCall
    BY <1>4, <2>1, ReturnIs, CallIs DEF BufferFails, TransferFails
  <2>3. PICK f \in Files : f = call.f
    BY <2>1, CallIs
  <2>4. \A g \in Files : Place(g)' = Place(g) /\ Window(g)' = Window(g)
    <3> DEFINE at == [g \in Files |-> Place(g)]
               window == [g \in Files |-> Window(g)]
    <3>1. at' = [at EXCEPT ![f] = @ + 0] /\ window' = window
      BY <2>1, <2>2, <2>3, CallMovesIs
    <3>2. at[f] \in Nat
      BY <2>1, <2>3, PlaceIsNat
    <3>3. \A g \in Files : at'[g] = at[g]
      <4>1. at[f] + 0 = at[f]
        <5> DEFINE k == at[f]
        <5>1. k \in Nat
          BY <3>2
        <5> HIDE DEF k
        <5>2. k + 0 = k
          BY <5>1
        <5> QED
          BY <5>2 DEF k
      <4> QED
        BY <3>1, <4>1
    <3>4. \A g \in Files : window'[g] = window[g]
      BY <3>1
    <3> QED
      BY <3>3, <3>4
  <2> QED
    BY <2>1, <2>2, <2>4, TurnIs DEF Stream!DiskNext
<1>5. CASE ReadBlock
  <2>1. PICK f \in Files : f = call.f
    BY <1>5, CallIs DEF ReadBlock
  <2> QED
    BY <1>5, <2>1, ReadIsGet DEF Stream!DiskNext
<1>6. CASE WriteBlock
  <2>1. PICK f \in Files : f = call.f
    BY <1>6, CallIs DEF WriteBlock
  <2> QED
    BY <1>6, <2>1, WriteIsPut DEF Stream!DiskNext
<1>7. CASE DevNext
  BY <1>2, <1>3, <1>4, <1>5, <1>6, <1>7 DEF DevNext
<1>8. CASE InitRamDiskDevDrvs \/ \E m \in Mods : InstallModule(m) \/ UnInstallModule(m)
  BY <1>1, <1>8 DEF InitRamDiskDevDrvs, InstallModule, UnInstallModule, Begin, devvars
<1>9. CASE InstallStep
  BY <1>1, <1>9 DEF InstallStep, LoadSection, PayloadFails, SectionFails, NoInit, FinishInstall,
                    Outside, devvars
<1>10. CASE UNCHANGED vars
  BY <1>1, <1>10 DEF vars, devvars
<1> QED
  BY <1>7, <1>8, <1>9, <1>10 DEF Next

\* DevVfsRead, DevVfsWrite and DevVfsLseek show a disk, or a partition that lies
\* on it, as a stream of bytes (AbstractDisk): every step of the registry, the
\* files and the modules is a step of the stream or leaves it alone.
THEOREM DevicesImplementStream == Spec => ImplementsStream
<1>1. DevInv /\ DevInv' /\ [Next]_vars => [Stream!DiskNext]_(Stream!diskvars)
  BY StreamStep
<1> QED
  BY <1>1, StreamInit, DevicesInvariant, PTL DEF Spec, ImplementsStream, Stream!DiskSpec

=============================================================================
