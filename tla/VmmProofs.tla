----------------------------- MODULE VmmProofs -----------------------------
(***************************************************************************)
(* Proofs about Vmm for every amount of memory, every set of processes and  *)
(* every executable in the lower half: the frames that the spaces reach are *)
(* reached once each, none of them is free, no table is lost, pages hold    *)
(* nothing of strangers, the heap is mapped below the break, and a step     *)
(* leaves the pages of all processes but one alone. All of it is said up to *)
(* the first load whose misplaced chunk meets a frame in use, and there is  *)
(* none when the segments of the executable start with a page.              *)
(***************************************************************************)
EXTENDS Vmm, FiniteSetTheorems, WellFoundedInduction, TLAPS

-----------------------------------------------------------------------------
(* The places of an address space *)

\* What an entry may hold.
Entry == 0 .. NumFrames
Words == Entry \cup Pids
Mems == [Frames -> [Idx -> Words]]
Spaces == [node : Frames, pml4 : Frames] \cup {NoSpace}

\* A place of a process: <<process, level, index>>. Level 0 holds the pages,
\* levels 1 to 4 the tables, level 5 the structure of the space.
Width(level) == IF level = 0 THEN 8 ELSE IF level = 1 THEN 4 ELSE IF level = 2 THEN 2 ELSE 1
Places == {z \in Pids \X (0 .. 5) \X (0 .. 7) : z[3] < Width(z[2])}
Tables == {z \in Places : z[2] # 0}
Pages == {z \in Places : z[2] = 0}

\* The place whose table holds the entry of z, and where in that table it is.
Above(z) == <<z[1], z[2] + 1, z[3] \div 2>>
Bit(z) == z[3] % 2
Below(z, i) == <<z[1], z[2] - 1, 2 * z[3] + i>>

\* The frame at a place, 0 when there is none.
Follow(M, f, i) == IF f = 0 THEN 0 ELSE M[f][i]
At3(M, s) == Follow(M, s.pml4, 0)
At2(M, s, x) == Follow(M, At3(M, s), x)
At1(M, s, x) == Follow(M, At2(M, s, x \div 2), x % 2)
At0(M, s, x) == Follow(M, At1(M, s, x \div 2), x % 2)
At(M, sp, z) ==
  LET s == sp[z[1]]
  IN  IF z[2] = 0 THEN At0(M, s, z[3])
      ELSE IF z[2] = 1 THEN At1(M, s, z[3])
      ELSE IF z[2] = 2 THEN At2(M, s, z[3])
      ELSE IF z[2] = 3 THEN At3(M, s)
      ELSE IF z[2] = 4 THEN s.pml4
      ELSE s.node

\* Memory m and the spaces sp: whatever a space reaches it reaches in one
\* place, and it is not free; the tables given out are those reached.
Sound(m, sp) ==
  /\ m.free \subseteq Frames \ {KernelPml4, KernelPdpt}
  /\ m.mem \in Mems
  /\ sp \in [Pids -> Spaces]
  /\ \A z \in Places : At(m.mem, sp, z) # 0 =>
        At(m.mem, sp, z) \in Frames \ (m.free \cup {KernelPml4, KernelPdpt})
  /\ \A y, z \in Places : At(m.mem, sp, y) # 0 /\ At(m.mem, sp, y) = At(m.mem, sp, z) => y = z
  /\ m.tabs = {KernelPml4, KernelPdpt} \cup ({At(m.mem, sp, z) : z \in Tables} \ {0})

-----------------------------------------------------------------------------
(* Geometry *)

\* The last binary digit of an index and the others.
LEMMA HalfIndex ==
  ASSUME NEW x \in 0 .. 7
  PROVE  x \div 2 \in 0 .. 3 /\ x % 2 \in 0 .. 1 /\ 2 * (x \div 2) + (x % 2) = x
OBVIOUS

\* A place has three coordinates.
LEMMA PlaceParts ==
  ASSUME NEW z \in Places
  PROVE  /\ z = <<z[1], z[2], z[3]>>
         /\ z[1] \in Pids /\ z[2] \in 0 .. 5 /\ z[3] \in 0 .. 7 /\ z[3] < Width(z[2])
BY DEF Places

\* A place below the root is one entry of the table above it.
LEMMA PlaceAbove ==
  ASSUME NEW z \in Places, z[2] <= 3
  PROVE  /\ Above(z) \in Tables
         /\ Above(z)[1] = z[1] /\ Above(z)[2] = z[2] + 1
         /\ Bit(z) \in Idx /\ (z[2] = 3 => Bit(z) = 0)
         /\ Below(Above(z), Bit(z)) = z
<1>1. z = <<z[1], z[2], z[3]>> /\ z[1] \in Pids /\ z[2] \in 0 .. 3 /\ z[3] \in 0 .. 7 /\ z[3] < Width(z[2])
  BY PlaceParts
<1>2. Above(z) = <<z[1], z[2] + 1, z[3] \div 2>>
  BY DEF Above
<1>3. z[3] \div 2 \in 0 .. 3 /\ z[3] % 2 \in 0 .. 1 /\ 2 * (z[3] \div 2) + (z[3] % 2) = z[3]
  BY <1>1, HalfIndex
<1>4. z[3] \div 2 < Width(z[2] + 1) /\ (z[2] = 3 => z[3] % 2 = 0)
  BY <1>1, <1>3 DEF Width
<1>5. Above(z) \in Tables
  BY <1>1, <1>2, <1>3, <1>4 DEF Tables, Places
<1>6. Below(Above(z), Bit(z)) = z
  BY <1>1, <1>2, <1>3 DEF Below, Bit
<1> QED
  BY <1>1, <1>2, <1>3, <1>4, <1>5, <1>6 DEF Bit, Idx

\* The other way round: the places whose entries a table holds.
LEMMA PlaceBelow ==
  ASSUME NEW z \in Tables, z[2] <= 4, NEW i \in Idx, z[2] = 4 => i = 0
  PROVE  /\ Below(z, i) \in Places
         /\ Below(z, i)[1] = z[1] /\ Below(z, i)[2] = z[2] - 1
         /\ Above(Below(z, i)) = z /\ Bit(Below(z, i)) = i
<1>1. z = <<z[1], z[2], z[3]>> /\ z[1] \in Pids /\ z[2] \in 1 .. 4 /\ z[3] \in 0 .. 7 /\ z[3] < Width(z[2])
  BY PlaceParts DEF Tables
<1>2. Below(z, i) = <<z[1], z[2] - 1, 2 * z[3] + i>> /\ i \in 0 .. 1
  BY DEF Below, Idx
<1>3. 2 * z[3] + i < Width(z[2] - 1) /\ 2 * z[3] + i \in 0 .. 7
  BY <1>1, <1>2 DEF Width
<1>4. (2 * z[3] + i) \div 2 = z[3] /\ (2 * z[3] + i) % 2 = i
  BY <1>1, <1>2
<1>5. Below(z, i) \in Places
  BY <1>1, <1>2, <1>3 DEF Places
<1>6. Above(Below(z, i)) = z
  BY <1>1, <1>2, <1>4 DEF Above
<1> QED
  BY <1>1, <1>2, <1>4, <1>5, <1>6 DEF Bit

\* The frame at a place is the entry of the table above.
LEMMA AtAbove ==
  ASSUME NEW M, NEW sp, NEW z \in Places, z[2] <= 3
  PROVE  At(M, sp, z) = Follow(M, At(M, sp, Above(z)), Bit(z))
<1>1. z = <<z[1], z[2], z[3]>> /\ z[1] \in Pids /\ z[2] \in 0 .. 3 /\ z[3] \in 0 .. 7 /\ z[3] < Width(z[2])
  BY PlaceParts
<1>2. Above(z)[1] = z[1] /\ Above(z)[2] = z[2] + 1 /\ Above(z)[3] = z[3] \div 2 /\ Bit(z) = z[3] % 2
  BY DEF Above, Bit
<1>3. CASE z[2] = 0
  BY <1>2, <1>3 DEF At, At0
<1>4. CASE z[2] = 1
  BY <1>2, <1>4 DEF At, At1
<1>5. CASE z[2] = 2
  <2>1. z[3] \in 0 .. 1 /\ z[3] % 2 = z[3]
    BY <1>1, <1>5 DEF Width
  <2> QED
    BY <1>2, <1>5, <2>1 DEF At, At2
<1>6. CASE z[2] = 3
  <2>1. z[3] = 0 /\ z[3] % 2 = 0
    BY <1>1, <1>6 DEF Width
  <2> QED
    BY <1>2, <1>6, <2>1 DEF At, At3
<1> QED
  BY <1>1, <1>3, <1>4, <1>5, <1>6

\* The root and the structure do not depend on the memory.
LEMMA AtRoot ==
  ASSUME NEW M, NEW sp, NEW z \in Places, z[2] > 3
  PROVE  At(M, sp, z) = IF z[2] = 4 THEN sp[z[1]].pml4 ELSE sp[z[1]].node
BY PlaceParts DEF At

\* What holds of the roots, and of an entry whenever it holds of the table,
\* holds of every place.
LEMMA PlaceInduction ==
  ASSUME NEW Q,
         \A z \in Places : z[2] > 3 => z \in Q,
         \A z \in Places : z[2] <= 3 /\ Above(z) \in Q => z \in Q
  PROVE  \A z \in Places : z \in Q
<1>1. \A z \in Places : z[2] \in 0 .. 5
  BY PlaceParts
<1>2. \A z \in Places : z[2] <= 3 => Above(z) \in Places /\ Above(z)[2] = z[2] + 1
  BY PlaceAbove DEF Tables
<1>3. \A z \in Places : z[2] >= 3 => z \in Q
  BY <1>1, <1>2
<1>4. \A z \in Places : z[2] >= 2 => z \in Q
  BY <1>1, <1>2, <1>3
<1>5. \A z \in Places : z[2] >= 1 => z \in Q
  BY <1>1, <1>2, <1>4
<1> QED
  BY <1>1, <1>2, <1>5

-----------------------------------------------------------------------------
(* Writing to memory *)

\* A frame that a space reaches.
LEMMA Reached ==
  ASSUME NEW m, NEW sp, Sound(m, sp), NEW z \in Places, At(m.mem, sp, z) # 0
  PROVE  /\ At(m.mem, sp, z) \in Frames
         /\ At(m.mem, sp, z) \notin m.free \cup {KernelPml4, KernelPdpt}
         /\ At(m.mem, sp, z) \in m.tabs <=> z \in Tables
<1>1. At(m.mem, sp, z) \in Frames \ (m.free \cup {KernelPml4, KernelPdpt})
  BY DEF Sound
<1>2. m.tabs = {KernelPml4, KernelPdpt} \cup ({At(m.mem, sp, y) : y \in Tables} \ {0})
  BY DEF Sound
<1>3. z \in Tables => At(m.mem, sp, z) \in m.tabs
  BY <1>2
<1>4. ASSUME At(m.mem, sp, z) \in m.tabs PROVE z \in Tables
  <2>1. PICK y \in Tables : At(m.mem, sp, z) = At(m.mem, sp, y)
    BY <1>1, <1>2, <1>4
  <2>2. y \in Places
    BY DEF Tables
  <2>3. z = y
    BY <2>1, <2>2 DEF Sound
  <2> QED
    BY <2>3
<1> QED
  BY <1>1, <1>3, <1>4

\* As long as no table is written to, every space reaches what it reached.
LEMMA TablesUntouched ==
  ASSUME NEW m, NEW sp, Sound(m, sp), NEW M, \A h \in m.tabs : M[h] = m.mem[h]
  PROVE  \A z \in Places : At(M, sp, z) = At(m.mem, sp, z)
<1> DEFINE Q == {z \in Places : At(M, sp, z) = At(m.mem, sp, z)}
<1>1. \A z \in Places : z[2] > 3 => z \in Q
  BY AtRoot
<1>2. ASSUME NEW z \in Places, z[2] <= 3, Above(z) \in Q PROVE z \in Q
  <2>1. At(M, sp, z) = Follow(M, At(M, sp, Above(z)), Bit(z))
    BY <1>2, AtAbove
  <2>2. At(m.mem, sp, z) = Follow(m.mem, At(m.mem, sp, Above(z)), Bit(z))
    BY <1>2, AtAbove
  <2>3. Above(z) \in Tables /\ Above(z) \in Places
    BY <1>2, PlaceAbove DEF Tables
  <2>4. At(M, sp, Above(z)) = At(m.mem, sp, Above(z))
    BY <1>2
  <2>5. At(m.mem, sp, Above(z)) # 0 => At(m.mem, sp, Above(z)) \in m.tabs
    BY <2>3, Reached
  <2> QED
    BY <2>1, <2>2, <2>4, <2>5 DEF Follow
<1> HIDE DEF Q
<1>3. \A z \in Places : z \in Q
  BY <1>1, <1>2, PlaceInduction
<1> QED
  BY <1>3 DEF Q

\* One entry of a table is set to a frame f that no space reaches, or to 0;
\* a frame that becomes a table holds zeros, and the entry was empty.
LEMMA EntryWritten ==
  ASSUME NEW m, NEW sp, Sound(m, sp),
         NEW z \in Tables, z[2] <= 4, NEW i \in Idx, z[2] = 4 => i = 0,
         At(m.mem, sp, z) # 0,
         NEW f, \A y \in Places : At(m.mem, sp, y) = f => f = 0,
         NEW M, M[At(m.mem, sp, z)][i] = f,
         \A j \in Idx : j # i => M[At(m.mem, sp, z)][j] = m.mem[At(m.mem, sp, z)][j],
         \A h \in Frames : h # f /\ h # At(m.mem, sp, z) => M[h] = m.mem[h],
         z[2] = 1 \/ (m.mem[At(m.mem, sp, z)][i] = 0 /\ f # 0 /\ M[f] = ZeroPage)
  PROVE  \A y \in Places : At(M, sp, y) = IF y = Below(z, i) THEN f ELSE At(m.mem, sp, y)
<1> DEFINE c == Below(z, i)
           g == At(m.mem, sp, z)
           Q == {y \in Places : At(M, sp, y) = IF y = c THEN f ELSE At(m.mem, sp, y)}
<1>1. z \in Places /\ z[2] \in 0 .. 5 /\ z[2] # 0
  BY PlaceParts DEF Tables
<1>2. c \in Places /\ c[2] = z[2] - 1 /\ Above(c) = z /\ Bit(c) = i
  BY PlaceBelow
<1>3. g \in Frames
  BY <1>1, Reached
<1> HIDE DEF c
<1>4. \A y \in Places : y[2] > 3 => y \in Q
  <2> TAKE y \in Places
  <2> HAVE y[2] > 3
  <2>1. y # c
    BY <1>1, <1>2
  <2>2. At(M, sp, y) = At(m.mem, sp, y)
    BY AtRoot
  <2> QED
    BY <2>1, <2>2
<1>5. ASSUME NEW y \in Places, y[2] <= 3, Above(y) \in Q PROVE y \in Q
  <2> DEFINE u == Above(y)
             h == At(m.mem, sp, u)
  <2>1. At(M, sp, y) = Follow(M, At(M, sp, u), Bit(y))
    BY <1>5, AtAbove
  <2>2. At(m.mem, sp, y) = Follow(m.mem, h, Bit(y))
    BY <1>5, AtAbove
  <2>3. u \in Tables /\ u \in Places /\ Below(u, Bit(y)) = y /\ Bit(y) \in Idx /\ u[2] = y[2] + 1
    BY <1>5, PlaceAbove DEF Tables
  <2>4. At(M, sp, u) = IF u = c THEN f ELSE h
    BY <1>5
  <2> HIDE DEF u, g
  <2>5. CASE u = c
    <3>1. c[2] # 0
      BY <2>3, <2>5 DEF Tables
    <3>2. m.mem[g][i] = 0 /\ f # 0 /\ M[f] = ZeroPage
      BY <1>1, <1>2, <3>1 DEF g
    <3>3. h = 0
      <4>1. h = Follow(m.mem, g, i)
        BY <1>1, <1>2, <2>5, AtAbove DEF g
      <4> QED
        BY <3>2, <4>1 DEF Follow
    <3>4. At(M, sp, y) = 0
      BY <2>1, <2>3, <2>4, <2>5, <3>2 DEF Follow, ZeroPage
    <3>5. At(m.mem, sp, y) = 0
      BY <2>2, <3>3 DEF Follow
    <3>6. y # c
      BY <1>1, <1>2, <2>3, <2>5, PlaceParts
    <3> QED
      BY <3>4, <3>5, <3>6
  <2>6. CASE u # c /\ u = z
    <3>1. h = g /\ g # 0
      BY <2>6 DEF g
    <3>2. At(M, sp, y) = M[g][Bit(y)] /\ At(m.mem, sp, y) = m.mem[g][Bit(y)]
      BY <2>1, <2>2, <2>4, <2>6, <3>1 DEF Follow
    <3>3. y = c <=> Bit(y) = i
      BY <1>2, <2>3, <2>6 DEF c
    <3> QED
      BY <2>3, <3>2, <3>3 DEF g
  <2>7. CASE u # c /\ u # z
    <3>1. y # c
      BY <1>2, <2>7 DEF u
    <3>2. h # 0 => h \in Frames /\ h # g /\ h # f
      <4>1. h # 0 => h \in Frames
        BY <2>3, Reached
      <4>2. h # 0 => h # g
        BY <1>1, <2>3, <2>7 DEF Sound, g
      <4> QED
        BY <2>3, <4>1, <4>2
    <3>3. h # 0 => M[h] = m.mem[h]
      BY <3>2 DEF g
    <3> QED
      BY <2>1, <2>2, <2>4, <2>7, <3>1, <3>3 DEF Follow
  <2> QED
    BY <2>5, <2>6, <2>7
<1> HIDE DEF Q
<1>6. \A y \in Places : y \in Q
  BY <1>4, <1>5, PlaceInduction
<1> QED
  BY <1>6 DEF Q, c

-----------------------------------------------------------------------------
(* Numbers and loops *)

\* A set of naturals has a least element.
LEMMA LeastNat ==
  ASSUME NEW S \in SUBSET Nat, S # {}
  PROVE  Min(S) \in S /\ \A x \in S : Min(S) <= x
<1>1. \E x \in S : \A y \in S : ~ (<<y, x>> \in OpToRel(<, Nat))
  BY NatLessThanWellFounded, WFMin
<1>2. \E x \in S : \A y \in S : x =< y
  <2>1. PICK x \in S : \A y \in S : ~ (<<y, x>> \in OpToRel(<, Nat))
    BY <1>1
  <2>2. \A y \in S : ~ (y < x)
    BY <2>1 DEF OpToRel
  <2> QED
    BY <2>2
<1> QED
  BY <1>2 DEF Min

\* Induction over the naturals up to n, for a set that holds each of them.
LEMMA CountUp ==
  ASSUME NEW n \in Nat, NEW S, 0 \in S, \A k \in 1 .. n : k - 1 \in S => k \in S
  PROVE  \A k \in 0 .. n : k \in S
<1> DEFINE R == (0 .. n) \ S
<1> SUFFICES ASSUME R # {} PROVE FALSE
  OBVIOUS
<1>1. R \in SUBSET Nat
  OBVIOUS
<1>2. Min(R) \in R /\ \A x \in R : Min(R) <= x
  BY <1>1, LeastNat
<1>3. Min(R) \in 1 .. n /\ Min(R) - 1 \in 0 .. n /\ Min(R) - 1 \notin R
  BY <1>2
<1> QED
  BY <1>2, <1>3

\* f is the course of a loop of n turns that starts with a and whose turn k
\* takes w to turn[<<k, w>>].
IsCourse(f, n, a, turn) == f = [k \in 0 .. n |-> IF k = 0 THEN a ELSE turn[<<k, f[k - 1]>>]]

\* Every turn stays in S and keeps P.
TurnsKeep(n, S, turn, P) ==
  \A k \in 1 .. n : \A w \in S :
    <<k - 1, w>> \in P => turn[<<k, w>>] \in S /\ <<k, turn[<<k, w>>]>> \in P

\* A loop of n turns that starts with a and whose turn k takes w to
\* turn[<<k, w>>] has a course, if it stays in S as long as it is in P.
LEMMA LoopExists ==
  ASSUME NEW n \in Nat, NEW S, NEW a \in S, NEW turn, NEW P, <<0, a>> \in P,
         TurnsKeep(n, S, turn, P)
  PROVE  \E f \in [0 .. n -> S] : IsCourse(f, n, a, turn) /\ \A k \in 0 .. n : <<k, f[k]>> \in P
<1> DEFINE Course(f, j) ==
             /\ f \in [0 .. j -> S]
             /\ f[0] = a
             /\ \A k \in 1 .. j : f[k] = turn[<<k, f[k - 1]>>]
             /\ \A k \in 0 .. j : <<k, f[k]>> \in P
           T == {j \in Nat : \E f : Course(f, j)}
<1>1. 0 \in T
  <2> DEFINE f == [k \in 0 .. 0 |-> a]
  <2>1. Course(f, 0)
    OBVIOUS
  <2> QED
    BY <2>1
<1>2. ASSUME NEW j \in 1 .. n, j - 1 \in T PROVE j \in T
  <2>1. PICK f : Course(f, j - 1)
    BY <1>2
  <2> DEFINE v == turn[<<j, f[j - 1]>>]
             g == [k \in 0 .. j |-> IF k = j THEN v ELSE f[k]]
  <2>2. f[j - 1] \in S /\ <<j - 1, f[j - 1]>> \in P
    BY <2>1
  <2>3. v \in S /\ <<j, v>> \in P
    BY <2>2 DEF TurnsKeep
  <2>4. \A k \in 0 .. j - 1 : g[k] = f[k] /\ f[k] \in S
    BY <2>1
  <2>5. g[j] = v
    OBVIOUS
  <2>6. g \in [0 .. j -> S]
    <3>1. \A k \in 0 .. j : k = j \/ k \in 0 .. j - 1
      OBVIOUS
    <3>2. \A k \in 0 .. j : g[k] \in S
      BY <2>3, <2>4, <2>5, <3>1
    <3>3. g = [k \in 0 .. j |-> g[k]]
      OBVIOUS
    <3> HIDE DEF g
    <3> QED
      BY <3>2, <3>3
  <2> HIDE DEF g
  <2>7. ASSUME NEW k \in 1 .. j PROVE g[k] = turn[<<k, g[k - 1]>>]
    <3>1. k - 1 \in 0 .. j - 1 /\ g[k - 1] = f[k - 1]
      BY <2>4
    <3>2. CASE k = j
      BY <2>5, <3>1, <3>2
    <3>3. CASE k # j
      <4>1. k \in 1 .. j - 1 /\ k \in 0 .. j - 1
        BY <3>3
      <4> QED
        BY <2>1, <2>4, <3>1, <4>1
    <3> QED
      BY <3>2, <3>3
  <2>8. g[0] = a
    BY <2>1, <2>4
  <2>9. ASSUME NEW k \in 0 .. j PROVE <<k, g[k]>> \in P
    <3>1. CASE k = j
      BY <2>3, <2>5, <3>1
    <3>2. CASE k # j
      <4>1. k \in 0 .. j - 1
        BY <3>2
      <4> QED
        BY <2>1, <2>4, <4>1
    <3> QED
      BY <3>1, <3>2
  <2>10. Course(g, j)
    BY <2>6, <2>7, <2>8, <2>9
  <2> HIDE DEF Course
  <2> QED
    BY <2>10
<1> HIDE DEF T
<1>3. n \in T
  BY <1>1, <1>2, CountUp
<1>4. PICK f : Course(f, n)
  BY <1>3 DEF T
<1>5. \A k \in 0 .. n : f[k] = IF k = 0 THEN a ELSE turn[<<k, f[k - 1]>>]
  BY <1>4
<1>6. f = [k \in 0 .. n |-> f[k]]
  BY <1>4
<1> QED
  BY <1>4, <1>5, <1>6 DEF IsCourse

-----------------------------------------------------------------------------
(* The walk through the tables *)

Memories == [free : SUBSET Frames, mem : Mems, tabs : SUBSET Frames]
Walks == [free : SUBSET Frames, mem : Mems, tabs : SUBSET Frames, at : Entry]
Works == [free : SUBSET Frames, mem : Mems, tabs : SUBSET Frames, ok : BOOLEAN]

\* w differs from m by tables that were added: no page moved, and only
\* frames that were free or tables were written to.
Deepens(m, w, sp) ==
  /\ Sound(w, sp)
  /\ w.free \subseteq m.free
  /\ w.tabs \subseteq m.tabs \cup m.free
  /\ \A z \in Pages : At(w.mem, sp, z) = At(m.mem, sp, z)
  /\ \A h \in Frames \ (m.free \cup m.tabs) : w.mem[h] = m.mem[h]

\* Frames are positive numbers.
LEMMA FramesArePositive == Frames \in SUBSET Nat /\ 0 \notin Frames /\ Frames \cup {0} = Entry
BY VmmAssumption DEF Frames, Entry

\* PmmAllocPage answers a free frame, or 0 when there is none.
LEMMA AllocPageIsFree ==
  ASSUME NEW m, m.free \subseteq Frames
  PROVE  AllocPage(m) # 0 => AllocPage(m) \in m.free
<1>1. m.free \in SUBSET Nat
  BY FramesArePositive
<1> QED
  BY <1>1, LeastNat DEF AllocPage

\* Only three fields matter.
LEMMA SoundFields ==
  ASSUME NEW m, NEW w, NEW sp, Sound(m, sp),
         w.free = m.free, w.mem = m.mem, w.tabs = m.tabs
  PROVE  Sound(w, sp) /\ Deepens(m, w, sp)
BY DEF Sound, Deepens

\* Adding tables in two steps.
LEMMA DeepensTwice ==
  ASSUME NEW m, NEW w, NEW v, NEW sp, Deepens(m, w, sp), Deepens(w, v, sp)
  PROVE  Deepens(m, v, sp)
BY DEF Deepens

\* A new table, as GetPageTable links it.
LEMMA TableLinked ==
  ASSUME NEW m, NEW w, NEW sp, Sound(m, sp),
         NEW f \in m.free, NEW c \in Tables, w.mem \in Mems,
         w.free = m.free \ {f}, w.tabs = m.tabs \cup {f},
         At(m.mem, sp, c) = 0,
         \A h \in Frames \ (m.free \cup m.tabs) : w.mem[h] = m.mem[h],
         \A y \in Places : At(w.mem, sp, y) = IF y = c THEN f ELSE At(m.mem, sp, y)
  PROVE  Deepens(m, w, sp)
<1>1. f \in Frames /\ f # 0 /\ f \notin {KernelPml4, KernelPdpt}
  BY FramesArePositive DEF Sound
<1>2. c \in Places /\ c \notin Pages
  BY DEF Tables, Pages
<1>3. \A y \in Places : At(m.mem, sp, y) # f
  BY <1>1 DEF Sound
<1>4. Sound(w, sp)
  <2>1. w.free \subseteq Frames \ {KernelPml4, KernelPdpt} /\ sp \in [Pids -> Spaces]
    BY DEF Sound
  <2>2. \A z \in Places : At(w.mem, sp, z) # 0 =>
           At(w.mem, sp, z) \in Frames \ (w.free \cup {KernelPml4, KernelPdpt})
    BY <1>1 DEF Sound
  <2>3. \A y, z \in Places :
           At(w.mem, sp, y) # 0 /\ At(w.mem, sp, y) = At(w.mem, sp, z) => y = z
    BY <1>3 DEF Sound
  <2>4. {At(w.mem, sp, z) : z \in Tables} \ {0} = ({At(m.mem, sp, z) : z \in Tables} \ {0}) \cup {f}
    <3>1. \A z \in Tables : z \in Places
      BY DEF Tables
    <3>2. At(w.mem, sp, c) = f
      BY <1>2
    <3>3. ASSUME NEW z \in Tables, At(m.mem, sp, z) # 0
          PROVE  At(w.mem, sp, z) = At(m.mem, sp, z)
      BY <3>1, <3>3
    <3>4. ASSUME NEW z \in Tables
          PROVE  At(w.mem, sp, z) \in {f, At(m.mem, sp, z)}
      BY <3>1
    <3> QED
      BY <1>1, <3>2, <3>3, <3>4
  <2>5. w.tabs = {KernelPml4, KernelPdpt} \cup ({At(w.mem, sp, z) : z \in Tables} \ {0})
    BY <2>4 DEF Sound
  <2> QED
    BY <2>1, <2>2, <2>3, <2>5 DEF Sound
<1>5. \A z \in Pages : At(w.mem, sp, z) = At(m.mem, sp, z)
  BY <1>2 DEF Pages
<1> QED
  BY <1>4, <1>5 DEF Deepens

\* One turn of the loop, from the table at z to the one below it.
LEMMA DescendStep ==
  ASSUME NEW w \in Walks, NEW sp, Sound(w, sp),
         NEW z \in Tables, z[2] \in 2 .. 4, w.at \in {0, At(w.mem, sp, z)},
         NEW i \in Idx, z[2] = 4 => i = 0, NEW create \in BOOLEAN
  PROVE  /\ Descend(w, i, create) \in Walks
         /\ Deepens(w, Descend(w, i, create), sp)
         /\ Descend(w, i, create).at \in {0, At(Descend(w, i, create).mem, sp, Below(z, i))}
         /\ ~create => /\ Descend(w, i, create).free = w.free
                       /\ Descend(w, i, create).mem = w.mem
                       /\ Descend(w, i, create).tabs = w.tabs
<1> SUFFICES ASSUME NEW v, v = Descend(w, i, create)
             PROVE  /\ v \in Walks /\ Deepens(w, v, sp)
                    /\ v.at \in {0, At(v.mem, sp, Below(z, i))}
                    /\ ~create => v.free = w.free /\ v.mem = w.mem /\ v.tabs = w.tabs
  OBVIOUS
<1> DEFINE f == AllocPage(w)
           c == Below(z, i)
           g == w.at
<1>1. w.free \in SUBSET Frames /\ w.mem \in Mems /\ w.tabs \in SUBSET Frames /\ w.at \in Entry
  BY DEF Walks
<1>2. z \in Places /\ c \in Tables /\ c \in Places /\ Above(c) = z /\ Bit(c) = i /\ c[2] = z[2] - 1
  BY PlaceBelow DEF Tables
<1>3. At(w.mem, sp, c) = Follow(w.mem, At(w.mem, sp, z), i)
  BY <1>2, AtAbove
<1> HIDE DEF c
<1>4. CASE g = 0
  <2>1. v = w
    BY <1>4 DEF Descend
  <2> QED
    BY <1>4, <2>1, SoundFields
<1>5. CASE g # 0 /\ w.mem[g][i] # 0
  <2>1. v = [w EXCEPT !.at = w.mem[w.at][i]]
    BY <1>5 DEF Descend
  <2>2. At(w.mem, sp, c) = w.mem[g][i] /\ At(w.mem, sp, c) \in Frames
    BY <1>2, <1>3, <1>5, Reached DEF Follow
  <2>3. v.free = w.free /\ v.mem = w.mem /\ v.tabs = w.tabs /\ v.at = w.mem[g][i]
    BY <2>1 DEF Walks
  <2>4. v \in Walks
    BY <2>1, <2>2, FramesArePositive DEF Walks
  <2> QED
    BY <2>2, <2>3, <2>4, SoundFields DEF c
<1>6. CASE g # 0 /\ w.mem[g][i] = 0 /\ (~create \/ f = 0)
  <2>1. v = [w EXCEPT !.at = 0]
    BY <1>6 DEF Descend
  <2>2. v.free = w.free /\ v.mem = w.mem /\ v.tabs = w.tabs /\ v.at = 0
    BY <2>1 DEF Walks
  <2>3. v \in Walks
    BY <2>1, FramesArePositive DEF Walks
  <2> QED
    BY <2>2, <2>3, SoundFields
<1>7. CASE g # 0 /\ w.mem[g][i] = 0 /\ create /\ f # 0
  <2> DEFINE M == [w.mem EXCEPT ![f] = ZeroPage, ![w.at][i] = f]
  <2>1. v = [free |-> w.free \ {f}, mem |-> M, tabs |-> w.tabs \cup {f}, at |-> f]
    BY <1>7 DEF Descend
  <2>2. f \in w.free /\ f \in Frames
    BY <1>1, <1>7, AllocPageIsFree
  <2>3. g = At(w.mem, sp, z) /\ g \in Frames /\ g \in w.tabs /\ g \notin w.free
    BY <1>2, <1>7, Reached
  <2>4. f # g
    BY <2>2, <2>3
  <2>5. ZeroPage \in [Idx -> Words] /\ f \in Words
    BY <2>2, FramesArePositive DEF ZeroPage, Words
  <2>6. M = [h \in Frames |-> IF h = g THEN [w.mem[g] EXCEPT ![i] = f]
                              ELSE IF h = f THEN ZeroPage ELSE w.mem[h]]
    BY <1>1, <2>2, <2>3, <2>4 DEF Mems
  <2>7. w.mem[g] \in [Idx -> Words]
    BY <1>1, <2>3 DEF Mems
  <2> HIDE DEF M, f, g
  <2>8. M \in Mems
    BY <1>1, <2>5, <2>6, <2>7 DEF Mems
  <2>9. M[f] = ZeroPage /\ M[g][i] = f
    BY <2>2, <2>3, <2>4, <2>6, <2>7
  <2>10. \A j \in Idx : j # i => M[g][j] = w.mem[g][j]
    BY <2>3, <2>6, <2>7
  <2>11. \A h \in Frames : h # f /\ h # g => M[h] = w.mem[h]
    BY <2>6
  <2>12. \A y \in Places : At(w.mem, sp, y) = f => f = 0
    BY <2>2, Reached
  <2>13. \A y \in Places : At(M, sp, y) = IF y = Below(z, i) THEN f ELSE At(w.mem, sp, y)
    BY <1>7, <2>3, <2>9, <2>10, <2>11, <2>12, EntryWritten
  <2>14. At(w.mem, sp, c) = 0
    BY <1>3, <1>7, <2>3 DEF Follow
  <2>15. v.free = w.free \ {f} /\ v.mem = M /\ v.tabs = w.tabs \cup {f} /\ v.at = f
    BY <2>1
  <2>16. \A h \in Frames \ (w.free \cup w.tabs) : v.mem[h] = w.mem[h]
    BY <2>2, <2>3, <2>11, <2>15
  <2>17. Deepens(w, v, sp)
    BY <1>2, <2>2, <2>8, <2>13, <2>14, <2>15, <2>16, TableLinked DEF c
  <2>18. v \in Walks
    BY <1>1, <2>1, <2>2, <2>8, FramesArePositive DEF Walks
  <2>19. At(v.mem, sp, c) = f
    BY <1>2, <2>13, <2>15 DEF c
  <2> QED
    BY <1>7, <2>15, <2>17, <2>18, <2>19 DEF c
<1> QED
  BY <1>4, <1>5, <1>6, <1>7

-----------------------------------------------------------------------------
(* GetPageTable *)

\* The digits of an address of the lower half.
LEMMA UserDigits ==
  ASSUME NEW va \in UserPages
  PROVE  /\ Digit(va, 4) = 0 /\ Digit(va, 4) \in Idx
         /\ Digit(va, 3) = va \div 4 /\ Digit(va, 3) \in Idx
         /\ Digit(va, 2) = (va \div 2) % 2 /\ Digit(va, 2) \in Idx
         /\ Digit(va, 1) = va % 2 /\ Digit(va, 1) \in Idx
         /\ va \div 2 \in 0 .. 3 /\ (va \div 2) \div 2 = va \div 4
<1>1. va \in 0 .. 7
  BY DEF UserPages
<1>2. 2 ^ (4 - 1) = 8 /\ 2 ^ (3 - 1) = 4 /\ 2 ^ (2 - 1) = 2 /\ 2 ^ (1 - 1) = 1
  OBVIOUS
<1>3. Digit(va, 4) = (va \div 8) % 2 /\ Digit(va, 3) = (va \div 4) % 2
  BY <1>2 DEF Digit
<1>4. Digit(va, 2) = (va \div 2) % 2 /\ Digit(va, 1) = (va \div 1) % 2
  BY <1>2 DEF Digit
<1> QED
  BY <1>1, <1>3, <1>4 DEF Idx

\* The places of the tables and of the page of an address.
TableOf(p, va) == <<p, 1, va \div 2>>
PageOf(p, va) == <<p, 0, va>>

LEMMA AddressPlaces ==
  ASSUME NEW p \in Pids, NEW va \in UserPages
  PROVE  /\ <<p, 4, 0>> \in Tables
         /\ Below(<<p, 4, 0>>, Digit(va, 4)) = <<p, 3, 0>> /\ <<p, 3, 0>> \in Tables
         /\ Below(<<p, 3, 0>>, Digit(va, 3)) = <<p, 2, va \div 4>> /\ <<p, 2, va \div 4>> \in Tables
         /\ Below(<<p, 2, va \div 4>>, Digit(va, 2)) = TableOf(p, va) /\ TableOf(p, va) \in Tables
         /\ Below(TableOf(p, va), Digit(va, 1)) = PageOf(p, va)
         /\ PageOf(p, va) \in Pages /\ PageOf(p, va) \in Places
<1>1. va \in 0 .. 7 /\ va \div 2 \in 0 .. 3 /\ va \div 4 \in 0 .. 1
  BY DEF UserPages
<1>2. 2 * (va \div 2) + (va % 2) = va /\ 2 * (va \div 4) + ((va \div 2) % 2) = va \div 2
  BY <1>1
<1>3. <<p, 4, 0>> \in Tables /\ <<p, 3, 0>> \in Tables /\ <<p, 2, va \div 4>> \in Tables
  BY <1>1 DEF Tables, Places, Width
<1>4. <<p, 1, va \div 2>> \in Tables /\ <<p, 0, va>> \in Pages /\ <<p, 0, va>> \in Places
  BY <1>1 DEF Tables, Pages, Places, Width
<1>5. Below(<<p, 4, 0>>, Digit(va, 4)) = <<p, 3, 0>> /\ Below(<<p, 3, 0>>, Digit(va, 3)) = <<p, 2, va \div 4>>
  BY UserDigits, <1>1 DEF Below
<1>6. Below(<<p, 2, va \div 4>>, Digit(va, 2)) = <<p, 1, va \div 2>>
  BY UserDigits, <1>1, <1>2 DEF Below
<1>7. Below(<<p, 1, va \div 2>>, Digit(va, 1)) = <<p, 0, va>>
  BY UserDigits, <1>1, <1>2 DEF Below
<1> QED
  BY <1>3, <1>4, <1>5, <1>6, <1>7 DEF TableOf, PageOf

\* The loop of GetPageTable makes three turns.
LEMMA GetPageTableTurns ==
  ASSUME NEW m, NEW pml4, NEW va, NEW create
  PROVE  GetPageTable(m, pml4, va, create) =
           Descend(Descend(Descend([free |-> m.free, mem |-> m.mem, tabs |-> m.tabs, at |-> pml4],
                                   Digit(va, 4), create), Digit(va, 3), create), Digit(va, 2), create)
<1> DEFINE r == [free |-> m.free, mem |-> m.mem, tabs |-> m.tabs, at |-> pml4]
           turn(w, level) == Descend(w, Digit(va, level), create)
           F(w) == [level \in 1 .. 4 |-> IF level = 4 THEN r ELSE turn(w[level + 1], level + 1)]
           w3 == turn(r, 4)
           w2 == turn(w3, 3)
           w1 == turn(w2, 2)
           e == [level \in 1 .. 4 |-> IF level = 4 THEN r ELSE IF level = 3 THEN w3
                                      ELSE IF level = 2 THEN w2 ELSE w1]
           g == CHOOSE w : w = F(w)
<1>1. GetPageTable(m, pml4, va, create) = g[1]
  BY Zenon DEF GetPageTable
<1>2. e = F(e)
  <2>1. e[4] = r /\ e[3] = w3 /\ e[2] = w2 /\ e[1] = w1
    BY DEF e
  <2> HIDE DEF turn, r
  <2>2. \A level \in 1 .. 4 : e[level] = IF level = 4 THEN r ELSE turn(e[level + 1], level + 1)
    <3>1. e[1] = turn(e[1 + 1], 1 + 1) /\ e[2] = turn(e[2 + 1], 2 + 1) /\ e[3] = turn(e[3 + 1], 3 + 1)
      BY <2>1
    <3>2. \A level \in 1 .. 4 : level = 1 \/ level = 2 \/ level = 3 \/ level = 4
      OBVIOUS
    <3> HIDE DEF e
    <3> QED
      BY <2>1, <3>1, <3>2
  <2>3. e = [level \in 1 .. 4 |-> e[level]]
    OBVIOUS
  <2> HIDE DEF e
  <2> QED
    BY <2>2, <2>3
<1>3. g = F(g)
  BY <1>2, Zenon
<1> HIDE DEF turn, r, g
<1>4. g[4] = r /\ g[3] = turn(g[3 + 1], 3 + 1) /\ g[2] = turn(g[2 + 1], 2 + 1) /\ g[1] = turn(g[1 + 1], 1 + 1)
  BY <1>3
<1>5. g[4] = r /\ g[3] = turn(g[4], 4) /\ g[2] = turn(g[3], 3) /\ g[1] = turn(g[2], 2)
  BY <1>4
<1> QED
  BY <1>1, <1>5, Zenon DEF turn, r

\* GetPageTable answers the last table of an address, or nothing; without
\* create it changes nothing.
LEMMA GetPageTableWalks ==
  ASSUME NEW m, NEW sp, Sound(m, sp), m.tabs \subseteq Frames,
         NEW p \in Pids, NEW va \in UserPages, NEW create \in BOOLEAN
  PROVE  /\ GetPageTable(m, sp[p].pml4, va, create) \in Walks
         /\ Deepens(m, GetPageTable(m, sp[p].pml4, va, create), sp)
         /\ GetPageTable(m, sp[p].pml4, va, create).at
              \in {0, At(GetPageTable(m, sp[p].pml4, va, create).mem, sp, TableOf(p, va))}
         /\ ~create => /\ GetPageTable(m, sp[p].pml4, va, create).free = m.free
                       /\ GetPageTable(m, sp[p].pml4, va, create).mem = m.mem
                       /\ GetPageTable(m, sp[p].pml4, va, create).tabs = m.tabs
<1> DEFINE r == [free |-> m.free, mem |-> m.mem, tabs |-> m.tabs, at |-> sp[p].pml4]
           w3 == Descend(r, Digit(va, 4), create)
           w2 == Descend(w3, Digit(va, 3), create)
           w1 == Descend(w2, Digit(va, 2), create)
<1>1. GetPageTable(m, sp[p].pml4, va, create) = w1
  BY GetPageTableTurns, Zenon
<1>2. <<p, 4, 0>> \in Tables /\ <<p, 4, 0>> \in Places
  BY AddressPlaces DEF Tables
<1>3. r \in Walks /\ Deepens(m, r, sp) /\ Sound(r, sp) /\ r.at \in {0, At(r.mem, sp, <<p, 4, 0>>)}
  <2>1. r.free = m.free /\ r.mem = m.mem /\ r.tabs = m.tabs /\ r.at = sp[p].pml4
    OBVIOUS
  <2>2. sp[p].pml4 \in Entry
    BY FramesArePositive DEF Sound, Spaces, NoSpace
  <2>3. r \in Walks
    BY <2>2 DEF Walks, Sound
  <2>4. At(r.mem, sp, <<p, 4, 0>>) = sp[p].pml4
    BY <1>2, AtRoot
  <2> QED
    BY <2>1, <2>3, <2>4, SoundFields
<1> HIDE DEF r
<1>4. /\ w3 \in Walks /\ Deepens(r, w3, sp) /\ w3.at \in {0, At(w3.mem, sp, <<p, 3, 0>>)}
      /\ ~create => w3.free = r.free /\ w3.mem = r.mem /\ w3.tabs = r.tabs
  <2>2. <<p, 4, 0>> \in Tables /\ <<p, 4, 0>>[2] = 4 /\ Below(<<p, 4, 0>>, Digit(va, 4)) = <<p, 3, 0>> /\ Digit(va, 4) \in Idx
    BY UserDigits, AddressPlaces
  <2>3. <<p, 4, 0>>[2] = 4 => Digit(va, 4) = 0
    BY <2>2, UserDigits
  <2>4. r \in Walks /\ Sound(r, sp) /\ r.at \in {0, At(r.mem, sp, <<p, 4, 0>>)}
    BY <1>3
  <2>5. /\ w3 \in Walks /\ Deepens(r, w3, sp) /\ w3.at \in {0, At(w3.mem, sp, Below(<<p, 4, 0>>, Digit(va, 4)))}
        /\ ~create => w3.free = r.free /\ w3.mem = r.mem /\ w3.tabs = r.tabs
    <3>1. <<p, 4, 0>>[2] \in 2 .. 4
      BY <2>2
    <3> QED
      BY <2>2, <2>3, <2>4, <3>1, DescendStep
  <2> QED
    BY <2>2, <2>5
<1> HIDE DEF w3
<1>5. /\ w2 \in Walks /\ Deepens(w3, w2, sp) /\ w2.at \in {0, At(w2.mem, sp, <<p, 2, va \div 4>>)}
      /\ ~create => w2.free = w3.free /\ w2.mem = w3.mem /\ w2.tabs = w3.tabs
  <2>1. Sound(w3, sp)
    BY <1>4 DEF Deepens
  <2>2. <<p, 3, 0>> \in Tables /\ <<p, 3, 0>>[2] = 3 /\ Below(<<p, 3, 0>>, Digit(va, 3)) = <<p, 2, va \div 4>> /\ Digit(va, 3) \in Idx
    BY UserDigits, AddressPlaces
  <2>3. <<p, 3, 0>>[2] = 4 => Digit(va, 3) = 0
    BY <2>2, UserDigits
  <2>4. w3 \in Walks /\ Sound(w3, sp) /\ w3.at \in {0, At(w3.mem, sp, <<p, 3, 0>>)}
    BY <1>4, <2>1
  <2>5. /\ w2 \in Walks /\ Deepens(w3, w2, sp) /\ w2.at \in {0, At(w2.mem, sp, Below(<<p, 3, 0>>, Digit(va, 3)))}
        /\ ~create => w2.free = w3.free /\ w2.mem = w3.mem /\ w2.tabs = w3.tabs
    <3>1. <<p, 3, 0>>[2] \in 2 .. 4
      BY <2>2
    <3> QED
      BY <2>2, <2>3, <2>4, <3>1, DescendStep
  <2> QED
    BY <2>2, <2>5
<1> HIDE DEF w2
<1>6. /\ w1 \in Walks /\ Deepens(w2, w1, sp) /\ w1.at \in {0, At(w1.mem, sp, TableOf(p, va))}
      /\ ~create => w1.free = w2.free /\ w1.mem = w2.mem /\ w1.tabs = w2.tabs
  <2>1. Sound(w2, sp)
    BY <1>5 DEF Deepens
  <2>2. <<p, 2, va \div 4>> \in Tables /\ <<p, 2, va \div 4>>[2] = 2 /\ Below(<<p, 2, va \div 4>>, Digit(va, 2)) = TableOf(p, va) /\ Digit(va, 2) \in Idx
    BY UserDigits, AddressPlaces
  <2>3. <<p, 2, va \div 4>>[2] = 4 => Digit(va, 2) = 0
    BY <2>2, UserDigits
  <2>4. w2 \in Walks /\ Sound(w2, sp) /\ w2.at \in {0, At(w2.mem, sp, <<p, 2, va \div 4>>)}
    BY <1>5, <2>1
  <2>5. /\ w1 \in Walks /\ Deepens(w2, w1, sp) /\ w1.at \in {0, At(w1.mem, sp, Below(<<p, 2, va \div 4>>, Digit(va, 2)))}
        /\ ~create => w1.free = w2.free /\ w1.mem = w2.mem /\ w1.tabs = w2.tabs
    <3>1. <<p, 2, va \div 4>>[2] \in 2 .. 4
      BY <2>2
    <3> QED
      BY <2>2, <2>3, <2>4, <3>1, DescendStep
  <2> QED
    BY <2>2, <2>5
<1> HIDE DEF w1
<1>7. Deepens(m, w1, sp)
  BY <1>3, <1>4, <1>5, <1>6, DeepensTwice
<1>8. r.free = m.free /\ r.mem = m.mem /\ r.tabs = m.tabs
  BY DEF r
<1>9. ~create => w1.free = m.free /\ w1.mem = m.mem /\ w1.tabs = m.tabs
  BY <1>4, <1>5, <1>6, <1>8
<1> QED
  BY <1>1, <1>6, <1>7, <1>9

-----------------------------------------------------------------------------
(* What a space reaches *)

\* GetPhysicalAddress answers the frame at the place of the page.
LEMMA PhysicalAddress ==
  ASSUME NEW m, NEW sp, NEW p \in Pids, NEW va \in UserPages
  PROVE  GetPhysicalAddress(m, sp[p].pml4, va) = At(m.mem, sp, PageOf(p, va))
<1> DEFINE f4 == sp[p].pml4
           f3 == Follow(m.mem, f4, Digit(va, 4))
           f2 == Follow(m.mem, f3, Digit(va, 3))
           f1 == Follow(m.mem, f2, Digit(va, 2))
           f0 == Follow(m.mem, f1, Digit(va, 1))
<1>1. GetPhysicalAddress(m, sp[p].pml4, va) = f0
  BY Zenon DEF GetPhysicalAddress, Follow
<1>2. f3 = At3(m.mem, sp[p])
  BY UserDigits, Zenon DEF At3
<1>3. f2 = At2(m.mem, sp[p], va \div 4)
  BY <1>2, UserDigits, Zenon DEF At2
<1>4. f1 = At1(m.mem, sp[p], va \div 2)
  BY <1>3, UserDigits, Zenon DEF At1
<1>5. f0 = At0(m.mem, sp[p], va)
  BY <1>4, UserDigits, Zenon DEF At0
<1>6. At(m.mem, sp, PageOf(p, va)) = At0(m.mem, sp[p], va)
  BY DEF At, PageOf
<1> QED
  BY <1>1, <1>5, <1>6

\* The pages of a process are its addresses.
LEMMA PageAddress ==
  ASSUME NEW z \in Pages
  PROVE  z[1] \in Pids /\ z[3] \in UserPages /\ z = PageOf(z[1], z[3]) /\ z \in Places
BY PlaceParts DEF Pages, PageOf, UserPages

\* TablesOf is the set of the frames at the places of tables of a space.
LEMMA TablesOfReached ==
  ASSUME NEW m, NEW sp, Sound(m, sp), NEW p \in Pids, sp[p] # NoSpace
  PROVE  TablesOf(m, sp[p]) = {At(m.mem, sp, z) : z \in {y \in Tables : y[1] = p}} \ {0}
<1> DEFINE s == sp[p]
           A(level, x) == At(m.mem, sp, <<p, level, x>>)
           pdpts == {m.mem[s.pml4][0]} \ {0}
           pds == UNION {Entries(m, f) : f \in pdpts}
           pts == UNION {Entries(m, f) : f \in pds}
<1>1. TablesOf(m, s) = pdpts \cup pds \cup pts \cup {s.pml4, s.node}
  BY Zenon DEF TablesOf
<1>2. s.pml4 \in Frames /\ s.node \in Frames /\ s.pml4 # 0 /\ s.node # 0
  BY FramesArePositive DEF Sound, Spaces
<1>3. A(4, 0) = s.pml4 /\ A(5, 0) = s.node
  BY DEF At
<1>4. A(3, 0) = m.mem[s.pml4][0]
  BY <1>2 DEF At, At3, Follow
<1>5. \A x \in 0 .. 1 : A(2, x) = Follow(m.mem, A(3, 0), x)
  BY DEF At, At2, At3
<1>6. \A x \in 0 .. 3 : A(1, x) = Follow(m.mem, A(2, x \div 2), x % 2)
  BY DEF At, At1, At2
<1>7. \A y \in {z \in Tables : z[1] = p} :
         y \in {<<p, 5, 0>>, <<p, 4, 0>>, <<p, 3, 0>>} \cup {<<p, 2, x>> : x \in 0 .. 1} \cup {<<p, 1, x>> : x \in 0 .. 3}
  BY PlaceParts DEF Tables, Width
<1>8. \A y \in {<<p, 5, 0>>, <<p, 4, 0>>, <<p, 3, 0>>} \cup {<<p, 2, x>> : x \in 0 .. 1} \cup {<<p, 1, x>> : x \in 0 .. 3} :
         y \in Tables /\ y[1] = p
  BY DEF Tables, Places, Width
<1> HIDE DEF A
<1>9. pdpts = {A(3, 0)} \ {0}
  BY <1>4
<1>10. pds = {A(2, x) : x \in 0 .. 1} \ {0}
  BY <1>5, <1>9 DEF Entries, Follow, Idx
<1> HIDE DEF pdpts, pds
<1>11. pts = {A(1, x) : x \in 0 .. 3} \ {0}
  <2>1. ASSUME NEW h \in pts PROVE h \in {A(1, x) : x \in 0 .. 3} \ {0}
    <3>1. PICK f \in pds : h \in Entries(m, f)
      OBVIOUS
    <3>2. PICK x \in 0 .. 1 : f = A(2, x) /\ f # 0
      BY <1>10
    <3>3. PICK i \in 0 .. 1 : h = m.mem[f][i] /\ h # 0
      BY <3>1 DEF Entries, Idx
    <3>4. 2 * x + i \in 0 .. 3 /\ (2 * x + i) \div 2 = x /\ (2 * x + i) % 2 = i
      OBVIOUS
    <3>5. A(1, 2 * x + i) = Follow(m.mem, A(2, x), i)
      BY <1>6, <3>4
    <3> QED
      BY <3>2, <3>3, <3>4, <3>5 DEF Follow
  <2>2. ASSUME NEW x \in 0 .. 3, A(1, x) # 0 PROVE A(1, x) \in pts
    <3>1. A(1, x) = Follow(m.mem, A(2, x \div 2), x % 2) /\ x \div 2 \in 0 .. 1 /\ x % 2 \in 0 .. 1
      BY <1>6
    <3>2. A(2, x \div 2) # 0 /\ A(1, x) = m.mem[A(2, x \div 2)][x % 2]
      BY <2>2, <3>1 DEF Follow
    <3>3. A(1, x) \in Entries(m, A(2, x \div 2))
      BY <2>2, <3>1, <3>2 DEF Entries, Idx
    <3>4. A(2, x \div 2) \in pds
      BY <1>10, <3>1, <3>2
    <3> QED
      BY <3>3, <3>4
  <2> QED
    BY <2>1, <2>2
<1> HIDE DEF pts
<1>12. TablesOf(m, s) = ({A(5, 0), A(4, 0), A(3, 0)} \cup {A(2, x) : x \in 0 .. 1} \cup {A(1, x) : x \in 0 .. 3}) \ {0}
  BY <1>1, <1>2, <1>3, <1>9, <1>10, <1>11
<1>13. {At(m.mem, sp, z) : z \in {y \in Tables : y[1] = p}} =
          {A(5, 0), A(4, 0), A(3, 0)} \cup {A(2, x) : x \in 0 .. 1} \cup {A(1, x) : x \in 0 .. 3}
  BY <1>7, <1>8 DEF A
<1> QED
  BY <1>12, <1>13

-----------------------------------------------------------------------------
(* MapPage and UnmapPage *)

\* A frame in nobody's hands: neither free nor reached.
Loose(m, sp, f) ==
  /\ f \in Frames \ (m.free \cup m.tabs)
  /\ \A z \in Pages : At(m.mem, sp, z) # f

\* What MapPage may do to a memory m: add tables, and put f at the page c.
Maps(m, w, sp, c, f) ==
  /\ w \in Works
  /\ Sound(w, sp)
  /\ w.free \subseteq m.free
  /\ w.tabs \subseteq m.tabs \cup m.free
  /\ \A h \in Frames \ (m.free \cup m.tabs) : w.mem[h] = m.mem[h]
  /\ \A z \in Pages : \/ At(w.mem, sp, z) = At(m.mem, sp, z)
                      \/ z = c /\ At(m.mem, sp, z) = 0 /\ At(w.mem, sp, z) = f /\ w.ok
  /\ w.ok => At(w.mem, sp, c) # 0

\* What UnmapPage may do: take the page c away.
Unmaps(m, w, sp, c) ==
  /\ w \in Works
  /\ Sound(w, sp)
  /\ w.free = m.free
  /\ w.tabs = m.tabs
  /\ \A h \in Frames \ m.tabs : w.mem[h] = m.mem[h]
  /\ \A z \in Pages : \/ At(w.mem, sp, z) = At(m.mem, sp, z)
                      \/ z = c /\ At(w.mem, sp, z) = 0
  /\ w.ok = TRUE

\* A loose frame is reached nowhere.
LEMMA LooseNotReached ==
  ASSUME NEW m, NEW sp, Sound(m, sp), NEW f, Loose(m, sp, f)
  PROVE  \A z \in Places : At(m.mem, sp, z) # f
<1> TAKE z \in Places
<1>1. CASE z \in Pages
  BY <1>1 DEF Loose
<1>2. CASE z \notin Pages
  <2>1. z \in Tables
    BY <1>2 DEF Tables, Pages
  <2> QED
    BY <2>1, Reached, FramesArePositive DEF Loose
<1> QED
  BY <1>1, <1>2

\* Tables are frames.
LEMMA TablesAreFrames ==
  ASSUME NEW m, NEW sp, Sound(m, sp)
  PROVE  m.tabs \subseteq Frames /\ KernelPml4 \in Frames /\ KernelPdpt \in Frames
<1>1. KernelPml4 \in Frames /\ KernelPdpt \in Frames
  BY VmmAssumption DEF Frames, KernelPml4, KernelPdpt
<1>2. m.tabs = {KernelPml4, KernelPdpt} \cup ({At(m.mem, sp, z) : z \in Tables} \ {0})
  BY DEF Sound
<1>3. \A z \in Tables : At(m.mem, sp, z) # 0 => At(m.mem, sp, z) \in Frames
  BY DEF Tables, Sound
<1> QED
  BY <1>1, <1>2, <1>3

\* A page entry set to a loose frame, or cleared.
LEMMA PageLinked ==
  ASSUME NEW m, NEW w, NEW sp, Sound(m, sp),
         NEW c \in Pages, NEW f, f = 0 \/ Loose(m, sp, f),
         w.free = m.free, w.tabs = m.tabs, w.mem \in Mems,
         \A y \in Places : At(w.mem, sp, y) = IF y = c THEN f ELSE At(m.mem, sp, y)
  PROVE  Sound(w, sp)
<1>1. f # 0 => \A z \in Places : At(m.mem, sp, z) # f
  BY LooseNotReached
<1>2. f # 0 => f \in Frames \ (m.free \cup {KernelPml4, KernelPdpt})
  BY DEF Loose, Sound
<1>3. c \in Places /\ c \notin Tables
  BY DEF Tables, Pages
<1>4. w.free \subseteq Frames \ {KernelPml4, KernelPdpt} /\ sp \in [Pids -> Spaces]
  BY DEF Sound
<1>5. \A z \in Places : At(w.mem, sp, z) # 0 =>
         At(w.mem, sp, z) \in Frames \ (w.free \cup {KernelPml4, KernelPdpt})
  BY <1>2 DEF Sound
<1>6. \A y, z \in Places :
         At(w.mem, sp, y) # 0 /\ At(w.mem, sp, y) = At(w.mem, sp, z) => y = z
  BY <1>1 DEF Sound
<1>7. \A z \in Tables : At(w.mem, sp, z) = At(m.mem, sp, z)
  BY <1>3 DEF Tables
<1>8. w.tabs = {KernelPml4, KernelPdpt} \cup ({At(w.mem, sp, z) : z \in Tables} \ {0})
  BY <1>7 DEF Sound
<1> QED
  BY <1>4, <1>5, <1>6, <1>8 DEF Sound

\* Done and Failed keep the memory.
LEMMA DoneFields ==
  ASSUME NEW w, w.free \in SUBSET Frames, w.mem \in Mems, w.tabs \in SUBSET Frames
  PROVE  /\ Done(w) \in Works /\ Failed(w) \in Works
         /\ Done(w).free = w.free /\ Done(w).mem = w.mem /\ Done(w).tabs = w.tabs /\ Done(w).ok = TRUE
         /\ Failed(w).free = w.free /\ Failed(w).mem = w.mem /\ Failed(w).tabs = w.tabs
         /\ Failed(w).ok = FALSE
BY DEF Done, Failed, Works

\* The entry of a page, in the table that the walk answered.
LEMMA PageEntryWritten ==
  ASSUME NEW w \in Walks, NEW sp, Sound(w, sp), NEW p \in Pids, NEW va \in UserPages,
         w.at # 0, w.at = At(w.mem, sp, TableOf(p, va)),
         NEW f \in Entry, f = 0 \/ Loose(w, sp, f),
         NEW v, v.free = w.free, v.tabs = w.tabs, v.mem = [w.mem EXCEPT ![w.at][Digit(va, 1)] = f]
  PROVE  /\ v.mem \in Mems /\ Sound(v, sp) /\ v.free = w.free /\ v.tabs = w.tabs
         /\ \A h \in Frames \ w.tabs : v.mem[h] = w.mem[h]
         /\ \A y \in Places : At(v.mem, sp, y) = IF y = PageOf(p, va) THEN f ELSE At(w.mem, sp, y)
<1> DEFINE g == w.at
           i == Digit(va, 1)
           M == [w.mem EXCEPT ![g][i] = f]
<1>1. w.free \in SUBSET Frames /\ w.mem \in Mems /\ w.tabs \in SUBSET Frames
  BY DEF Walks
<1>2. v.free = w.free /\ v.mem = M /\ v.tabs = w.tabs
  OBVIOUS
<1>3. TableOf(p, va) \in Tables /\ TableOf(p, va) \in Places /\ TableOf(p, va)[2] = 1
      /\ Below(TableOf(p, va), i) = PageOf(p, va) /\ i \in Idx /\ PageOf(p, va) \in Pages
  BY AddressPlaces, UserDigits DEF Tables, TableOf
<1>4. g \in Frames /\ g \in w.tabs
  BY <1>3, Reached
<1>5. w.mem[g] \in [Idx -> Words] /\ f \in Words
  BY <1>1, <1>4 DEF Mems, Words
<1> HIDE DEF g, i
<1>6. M = [h \in Frames |-> IF h = g THEN [w.mem[g] EXCEPT ![i] = f] ELSE w.mem[h]]
  BY <1>1, <1>4 DEF Mems
<1> HIDE DEF M
<1>7. M \in Mems
  BY <1>1, <1>5, <1>6 DEF Mems
<1>8. M[g][i] = f /\ \A j \in Idx : j # i => M[g][j] = w.mem[g][j]
  BY <1>3, <1>4, <1>5, <1>6
<1>9. \A h \in Frames : h # g => M[h] = w.mem[h]
  BY <1>6
<1>10. \A y \in Places : At(w.mem, sp, y) = f => f = 0
  BY LooseNotReached
<1>11. \A y \in Places : At(M, sp, y) = IF y = PageOf(p, va) THEN f ELSE At(w.mem, sp, y)
  <2>1. TableOf(p, va)[2] <= 4 /\ (TableOf(p, va)[2] = 4 => i = 0)
    BY <1>3
  <2>2. At(w.mem, sp, TableOf(p, va)) = g
    BY DEF g
  <2> QED
    BY <1>3, <1>4, <1>8, <1>9, <1>10, <2>1, <2>2, EntryWritten, FramesArePositive
<1>12. Sound(v, sp)
  BY <1>2, <1>3, <1>7, <1>11, PageLinked
<1> QED
  BY <1>2, <1>4, <1>7, <1>9, <1>11, <1>12

\* MapPage, of a frame that is not in use.
LEMMA MapPageMaps ==
  ASSUME NEW m, NEW sp, Sound(m, sp), NEW p \in Pids, NEW va \in UserPages,
         NEW f, Loose(m, sp, f)
  PROVE  Maps(m, MapPage(m, sp[p].pml4, va, f), sp, PageOf(p, va), f)
<1> DEFINE c == PageOf(p, va)
           i == Digit(va, 1)
<1>1. PICK w : w = GetPageTable(m, sp[p].pml4, va, TRUE)
  OBVIOUS
<1>2. PICK v : v = PutEntry(w, i, f)
  OBVIOUS
<1>3. v = MapPage(m, sp[p].pml4, va, f)
  BY <1>1, <1>2 DEF MapPage
<1>4. w \in Walks /\ Deepens(m, w, sp) /\ w.at \in {0, At(w.mem, sp, TableOf(p, va))}
  <2>1. m.tabs \subseteq Frames
    BY TablesAreFrames
  <2> QED
    BY <1>1, <2>1, GetPageTableWalks
<1>5. Sound(w, sp) /\ w.free \subseteq m.free /\ w.tabs \subseteq m.tabs \cup m.free
      /\ (\A z \in Pages : At(w.mem, sp, z) = At(m.mem, sp, z))
      /\ (\A h \in Frames \ (m.free \cup m.tabs) : w.mem[h] = m.mem[h])
  BY <1>4 DEF Deepens
<1>6. Loose(w, sp, f) /\ f \in Entry
  BY <1>5, FramesArePositive DEF Loose
<1>7. c \in Pages /\ c \in Places /\ TableOf(p, va) \in Tables /\ Below(TableOf(p, va), i) = c
  BY AddressPlaces
<1>8. w.free \in SUBSET Frames /\ w.mem \in Mems /\ w.tabs \in SUBSET Frames
  BY <1>4 DEF Walks
<1> HIDE DEF c
<1>9. CASE w.at = 0
  <2>1. v = Failed(w)
    BY <1>2, <1>9 DEF PutEntry
  <2>2. v \in Works /\ v.free = w.free /\ v.mem = w.mem /\ v.tabs = w.tabs /\ v.ok = FALSE
    BY <1>8, <2>1, DoneFields
  <2>3. Sound(v, sp)
    BY <1>5, <2>2, SoundFields
  <2> QED
    BY <1>3, <1>5, <2>2, <2>3 DEF Maps, c
<1>10. CASE w.at # 0 /\ w.mem[w.at][i] # 0
  <2>1. v = Done(w)
    BY <1>2, <1>10 DEF PutEntry
  <2>2. v \in Works /\ v.free = w.free /\ v.mem = w.mem /\ v.tabs = w.tabs
    BY <1>8, <2>1, DoneFields
  <2>3. Sound(v, sp)
    BY <1>5, <2>2, SoundFields
  <2>4. At(w.mem, sp, c) # 0
    <3>1. c[2] = 0 /\ Above(c) = TableOf(p, va) /\ Bit(c) = i
      BY UserDigits DEF c, PageOf, Above, TableOf, Bit
    <3>2. At(w.mem, sp, c) = Follow(w.mem, At(w.mem, sp, TableOf(p, va)), i)
      BY <1>7, <3>1, AtAbove
    <3> QED
      BY <1>4, <1>10, <3>2 DEF Follow
  <2> QED
    BY <1>3, <1>5, <2>2, <2>3, <2>4 DEF Maps, c
<1>11. CASE w.at # 0 /\ w.mem[w.at][i] = 0
  <2>1. PICK x : x = [w EXCEPT !.mem[w.at][i] = f]
    OBVIOUS
  <2>11. x.free = w.free /\ x.tabs = w.tabs /\ x.mem = [w.mem EXCEPT ![w.at][i] = f]
    BY <1>4, <2>1 DEF Walks
  <2>20. v = Done(x)
    BY <1>2, <1>11, <2>1 DEF PutEntry
  <2>21. /\ x.mem \in Mems /\ Sound(x, sp) /\ x.free = w.free /\ x.tabs = w.tabs
         /\ \A h \in Frames \ w.tabs : x.mem[h] = w.mem[h]
         /\ \A y \in Places : At(x.mem, sp, y) = IF y = c THEN f ELSE At(w.mem, sp, y)
    BY <1>4, <1>5, <1>6, <1>11, <2>11, PageEntryWritten DEF c
  <2>22. v \in Works /\ v.free = x.free /\ v.mem = x.mem /\ v.tabs = x.tabs /\ v.ok
    <3>1. x.free \in SUBSET Frames /\ x.mem \in Mems /\ x.tabs \in SUBSET Frames
      BY <1>8, <2>21
    <3> QED
      BY <2>20, <3>1, DoneFields
  <2>2. /\ v \in Works /\ Sound(v, sp) /\ v.free = w.free /\ v.tabs = w.tabs
        /\ \A h \in Frames \ w.tabs : v.mem[h] = w.mem[h]
        /\ \A y \in Places : At(v.mem, sp, y) = IF y = c THEN f ELSE At(w.mem, sp, y)
    BY <2>21, <2>22, SoundFields
  <2>3. At(w.mem, sp, c) = 0
    <3>1. c[2] = 0 /\ Above(c) = TableOf(p, va) /\ Bit(c) = i
      BY UserDigits DEF c, PageOf, Above, TableOf, Bit
    <3>2. At(w.mem, sp, c) = Follow(w.mem, At(w.mem, sp, TableOf(p, va)), i)
      BY <1>7, <3>1, AtAbove
    <3> QED
      BY <1>4, <1>11, <3>2 DEF Follow
  <2>4. \A h \in Frames \ (m.free \cup m.tabs) : v.mem[h] = m.mem[h]
    BY <1>5, <2>2
  <2>5. \A z \in Pages : z \in Places
    BY DEF Pages
  <2>6. f # 0
    BY <1>6, FramesArePositive DEF Loose
  <2>7. \A z \in Pages : \/ At(v.mem, sp, z) = At(m.mem, sp, z)
                         \/ z = c /\ At(m.mem, sp, z) = 0 /\ At(v.mem, sp, z) = f
    BY <1>5, <2>2, <2>3, <2>5
  <2>10. v.ok
    BY <2>22
  <2>8. At(v.mem, sp, c) # 0
    BY <1>7, <2>2, <2>6
  <2>9. v.free \subseteq m.free /\ v.tabs \subseteq m.tabs \cup m.free
    BY <1>5, <2>2
  <2> QED
    BY <1>3, <2>2, <2>4, <2>7, <2>8, <2>9, <2>10 DEF Maps, c
<1> QED
  BY <1>9, <1>10, <1>11

\* UnmapPage.
LEMMA UnmapPageUnmaps ==
  ASSUME NEW m, NEW sp, Sound(m, sp), NEW p \in Pids, NEW va \in UserPages
  PROVE  Unmaps(m, UnmapPage(m, sp[p].pml4, va), sp, PageOf(p, va))
<1> DEFINE c == PageOf(p, va)
           i == Digit(va, 1)
<1>1. PICK w : w = GetPageTable(m, sp[p].pml4, va, FALSE)
  OBVIOUS
<1>2. PICK v : v = ClearEntry(w, i)
  OBVIOUS
<1>3. v = UnmapPage(m, sp[p].pml4, va)
  BY <1>1, <1>2 DEF UnmapPage
<1>4. /\ w \in Walks /\ Deepens(m, w, sp) /\ w.at \in {0, At(w.mem, sp, TableOf(p, va))}
      /\ w.free = m.free /\ w.mem = m.mem /\ w.tabs = m.tabs
  <2>1. m.tabs \subseteq Frames
    BY TablesAreFrames
  <2> DEFINE create == FALSE
  <2>2. create \in BOOLEAN /\ ~create /\ w = GetPageTable(m, sp[p].pml4, va, create)
    BY <1>1
  <2> HIDE DEF create
  <2> QED
    BY <2>1, <2>2, GetPageTableWalks
<1>5. Sound(w, sp)
  BY <1>4 DEF Deepens
<1>6. w.free \in SUBSET Frames /\ w.mem \in Mems /\ w.tabs \in SUBSET Frames
  BY <1>4 DEF Walks
<1> HIDE DEF c
<1>7. CASE w.at = 0
  <2>1. v = Done(w)
    BY <1>2, <1>7 DEF ClearEntry
  <2>2. v \in Works /\ v.free = w.free /\ v.mem = w.mem /\ v.tabs = w.tabs /\ v.ok = TRUE
    BY <1>6, <2>1, DoneFields
  <2>3. Sound(v, sp)
    BY <1>5, <2>2, SoundFields
  <2> QED
    BY <1>3, <1>4, <2>2, <2>3 DEF Unmaps, c
<1>8. CASE w.at # 0
  <2>1. PICK x : x = [w EXCEPT !.mem[w.at][i] = 0]
    OBVIOUS
  <2>11. x.free = w.free /\ x.tabs = w.tabs /\ x.mem = [w.mem EXCEPT ![w.at][i] = 0]
    BY <1>4, <2>1 DEF Walks
  <2>2. 0 \in Entry
    BY FramesArePositive
  <2>20. v = Done(x)
    BY <1>2, <1>8, <2>1 DEF ClearEntry
  <2>21. /\ x.mem \in Mems /\ Sound(x, sp) /\ x.free = w.free /\ x.tabs = w.tabs
         /\ \A h \in Frames \ w.tabs : x.mem[h] = w.mem[h]
         /\ \A y \in Places : At(x.mem, sp, y) = IF y = c THEN 0 ELSE At(w.mem, sp, y)
    BY <1>4, <1>5, <1>8, <2>2, <2>11, PageEntryWritten DEF c
  <2>22. v \in Works /\ v.free = x.free /\ v.mem = x.mem /\ v.tabs = x.tabs /\ v.ok = TRUE
    <3>1. x.free \in SUBSET Frames /\ x.mem \in Mems /\ x.tabs \in SUBSET Frames
      BY <1>6, <2>21
    <3> QED
      BY <2>20, <3>1, DoneFields
  <2>3. /\ v \in Works /\ Sound(v, sp) /\ v.free = w.free /\ v.tabs = w.tabs
        /\ \A h \in Frames \ w.tabs : v.mem[h] = w.mem[h]
        /\ \A y \in Places : At(v.mem, sp, y) = IF y = c THEN 0 ELSE At(w.mem, sp, y)
    BY <2>21, <2>22, SoundFields
  <2>4. \A z \in Pages : z \in Places
    BY DEF Pages
  <2> QED
    BY <1>3, <1>4, <2>3, <2>4, <2>22 DEF Unmaps, c
<1> QED
  BY <1>7, <1>8

-----------------------------------------------------------------------------
(* Unmapping a range *)

\* What munmap and a lower break do: pages of C may go, the rest stays.
Shrinks(m, w, sp, C) ==
  /\ w \in Works
  /\ Sound(w, sp)
  /\ w.tabs = m.tabs
  /\ \A h \in Frames \ m.tabs : w.mem[h] = m.mem[h]
  /\ \A z \in Pages : \/ At(w.mem, sp, z) = At(m.mem, sp, z)
                      \/ z \in C /\ At(w.mem, sp, z) = 0
  /\ w.ok = TRUE

\* The pages of process p from first on, n of them.
RangeOf(p, first, n) == {PageOf(p, va) : va \in first .. (first + n - 1)}

\* The fields of a sound memory.
LEMMA SoundTypes ==
  ASSUME NEW m, NEW sp, Sound(m, sp)
  PROVE  m.free \in SUBSET Frames /\ m.mem \in Mems /\ m.tabs \in SUBSET Frames
BY TablesAreFrames DEF Sound

\* UnmapRange takes away pages of the range only.
LEMMA UnmapRangeShrinks ==
  ASSUME NEW m, NEW sp, Sound(m, sp), NEW p \in Pids, NEW first \in 0 .. 8,
         NEW n \in Nat, first + n <= 8
  PROVE  Shrinks(m, UnmapRange(m, sp[p].pml4, first, n), sp, RangeOf(p, first, n))
<1> DEFINE pml4 == sp[p].pml4
           C == RangeOf(p, first, n)
           turn == [x \in Nat \X Works |-> UnmapPage(x[2], pml4, first + x[1] - 1)]
           P == {x \in Nat \X Works : Shrinks(m, x[2], sp, C)}
           G(f) == [k \in 0 .. n |-> IF k = 0 THEN Done(m) ELSE UnmapPage(f[k - 1], pml4, first + k - 1)]
           g == CHOOSE f : f = G(f)
<1>1. Done(m) \in Works /\ <<0, Done(m)>> \in P
  <2>1. /\ Done(m) \in Works /\ Done(m).ok = TRUE
        /\ Done(m).free = m.free /\ Done(m).mem = m.mem /\ Done(m).tabs = m.tabs
    BY SoundTypes, DoneFields
  <2>2. Sound(Done(m), sp)
    BY <2>1, SoundFields
  <2>3. Shrinks(m, Done(m), sp, C)
    BY <2>1, <2>2 DEF Shrinks
  <2> QED
    BY <2>1, <2>3
<1>2. ASSUME NEW k \in 1 .. n, NEW w \in Works, Shrinks(m, w, sp, C)
      PROVE  Shrinks(m, UnmapPage(w, pml4, first + k - 1), sp, C)
  <2>1. first + k - 1 \in UserPages /\ first + k - 1 \in first .. (first + n - 1)
    BY DEF UserPages
  <2>2. PICK v : v = UnmapPage(w, pml4, first + k - 1)
    OBVIOUS
  <2>3. Sound(w, sp)
    BY <1>2 DEF Shrinks
  <2>4. Unmaps(w, v, sp, PageOf(p, first + k - 1))
    BY <2>1, <2>2, <2>3, UnmapPageUnmaps
  <2>5. PageOf(p, first + k - 1) \in C
    BY <2>1 DEF RangeOf
  <2> HIDE DEF C
  <2>6. Shrinks(m, v, sp, C)
    BY <1>2, <2>4, <2>5 DEF Shrinks, Unmaps
  <2> QED
    BY <2>2, <2>6
<1>3. \A k \in 1 .. n : \A w \in Works : turn[<<k, w>>] = UnmapPage(w, pml4, first + k - 1)
  OBVIOUS
<1> HIDE DEF C, turn
<1>4. \A k \in 1 .. n : \A w \in Works :
        <<k - 1, w>> \in P => turn[<<k, w>>] \in Works /\ <<k, turn[<<k, w>>]>> \in P
  <2> TAKE k \in 1 .. n
  <2> TAKE w \in Works
  <2> HAVE <<k - 1, w>> \in P
  <2>1. Shrinks(m, UnmapPage(w, pml4, first + k - 1), sp, C)
    BY <1>2
  <2>2. turn[<<k, w>>] \in Works
    BY <1>3, <2>1 DEF Shrinks
  <2> QED
    BY <1>3, <2>1, <2>2
<1>5. PICK f \in [0 .. n -> Works] :
            /\ f = [k \in 0 .. n |-> IF k = 0 THEN Done(m) ELSE turn[<<k, f[k - 1]>>]]
            /\ \A k \in 0 .. n : <<k, f[k]>> \in P
  <2> HIDE DEF P
  <2>1. PICK a : a = Done(m)
    OBVIOUS
  <2>2. a \in Works /\ <<0, a>> \in P
    BY <1>1, <2>1
  <2>3. TurnsKeep(n, Works, turn, P)
    BY <1>4, Zenon DEF TurnsKeep
  <2>4. \E f \in [0 .. n -> Works] : IsCourse(f, n, a, turn) /\ \A k \in 0 .. n : <<k, f[k]>> \in P
    BY <2>2, <2>3, LoopExists
  <2> QED
    BY <2>1, <2>4 DEF IsCourse
<1>6. \A k \in 0 .. n : f[k] = IF k = 0 THEN Done(m) ELSE turn[<<k, f[k - 1]>>]
  BY <1>5
<1>7. ASSUME NEW k \in 0 .. n, k # 0
      PROVE  f[k] = UnmapPage(f[k - 1], pml4, first + k - 1)
  BY <1>3, <1>5, <1>6, <1>7
<1>8. f[0] = Done(m)
  <2>1. 0 \in 0 .. n
    OBVIOUS
  <2> QED
    BY <1>6, <2>1
<1>9. f = G(f)
  BY <1>5, <1>7, <1>8
<1>10. g = G(g)
  BY <1>9, Zenon
<1>11. UnmapRange(m, pml4, first, n) = g[n]
  BY Zenon DEF UnmapRange
<1> HIDE DEF g, pml4
<1>12. g[0] = Done(m) /\ \A k \in 1 .. n : g[k] = UnmapPage(g[k - 1], pml4, first + k - 1)
  BY <1>10
<1>13. \A k \in 0 .. n : g[k] = f[k]
  <2> DEFINE T == {j \in 0 .. n : g[j] = f[j]}
  <2>1. 0 \in T
    BY <1>8, <1>12
  <2>2. ASSUME NEW k \in 1 .. n, k - 1 \in T PROVE k \in T
    BY <1>7, <1>12, <2>2
  <2> HIDE DEF T
  <2>3. \A k \in 0 .. n : k \in T
    BY <2>1, <2>2, CountUp
  <2> QED
    BY <2>3 DEF T
<1>14. g[n] = f[n] /\ <<n, f[n]>> \in P
  BY <1>5, <1>13
<1> QED
  BY <1>11, <1>14 DEF pml4, C

-----------------------------------------------------------------------------
(* Mapping a range *)

\* What an operation for process p may do: give it pages, and change what
\* its pages hold to words of the set words.
Grows(m, w, sp, p, words) ==
  /\ w \in Works
  /\ Sound(w, sp)
  /\ \A z \in Pages : At(m.mem, sp, z) # 0 => At(w.mem, sp, z) = At(m.mem, sp, z)
  /\ \A z \in Pages : At(w.mem, sp, z) # 0 =>
        \/ /\ At(m.mem, sp, z) = At(w.mem, sp, z)
           /\ w.mem[At(w.mem, sp, z)] = m.mem[At(w.mem, sp, z)]
        \/ /\ z[1] = p
           /\ \A i \in Idx : w.mem[At(w.mem, sp, z)][i] \in words

\* Two operations for the same process.
LEMMA GrowsTwice ==
  ASSUME NEW m, NEW w, NEW v, NEW sp, NEW p, NEW A, NEW B,
         Grows(m, w, sp, p, A), Grows(w, v, sp, p, B)
  PROVE  Grows(m, v, sp, p, A \cup B)
BY DEF Grows

\* An operation that writes more.
LEMMA GrowsMore ==
  ASSUME NEW m, NEW w, NEW sp, NEW p, NEW A, NEW B, Grows(m, w, sp, p, A), A \subseteq B
  PROVE  Grows(m, w, sp, p, B)
BY DEF Grows

\* One that does nothing.
LEMMA GrowsSame ==
  ASSUME NEW m, NEW w \in Works, NEW sp, NEW p, NEW A, Sound(m, sp),
         w.free = m.free, w.mem = m.mem, w.tabs = m.tabs
  PROVE  Grows(m, w, sp, p, A)
<1>1. Sound(w, sp)
  BY SoundFields
<1> QED
  BY <1>1 DEF Grows

\* Writing to frames that are no tables.
LEMMA PagesRewritten ==
  ASSUME NEW m, NEW w, NEW sp, Sound(m, sp), w.free \subseteq m.free, w.tabs = m.tabs,
         w.mem \in Mems, \A h \in m.tabs : w.mem[h] = m.mem[h]
  PROVE  Sound(w, sp) /\ \A z \in Places : At(w.mem, sp, z) = At(m.mem, sp, z)
<1>1. \A z \in Places : At(w.mem, sp, z) = At(m.mem, sp, z)
  BY TablesUntouched
<1>2. \A z \in Tables : z \in Places
  BY DEF Tables
<1>3. {At(w.mem, sp, z) : z \in Tables} = {At(m.mem, sp, z) : z \in Tables}
  BY <1>1, <1>2
<1>4. w.tabs = {KernelPml4, KernelPdpt} \cup ({At(w.mem, sp, z) : z \in Tables} \ {0})
  BY <1>3 DEF Sound
<1>5. \A y, z \in Places : At(w.mem, sp, y) # 0 /\ At(w.mem, sp, y) = At(w.mem, sp, z) => y = z
  BY <1>1 DEF Sound
<1> QED
  BY <1>1, <1>4, <1>5 DEF Sound

\* A free frame is no table, and reached by nobody.
LEMMA FreeNotReached ==
  ASSUME NEW m, NEW sp, Sound(m, sp), NEW f \in m.free
  PROVE  f \in Frames /\ f \notin m.tabs /\ \A z \in Places : At(m.mem, sp, z) # f
<1>1. f \in Frames /\ f \notin {KernelPml4, KernelPdpt}
  BY DEF Sound
<1>2. \A z \in Places : At(m.mem, sp, z) # f
  BY <1>1, FramesArePositive, Reached
<1>3. \A z \in Tables : z \in Places
  BY DEF Tables
<1>4. m.tabs = {KernelPml4, KernelPdpt} \cup ({At(m.mem, sp, z) : z \in Tables} \ {0})
  BY DEF Sound
<1> QED
  BY <1>1, <1>2, <1>3, <1>4

\* AllocPages answers a run of free frames.
LEMMA AllocPagesAreFree ==
  ASSUME NEW m, m.free \subseteq Frames, NEW n \in Nat \ {0}, AllocPages(m, n) # 0
  PROVE  /\ AllocPages(m, n) \in Frames
         /\ AllocPages(m, n) .. (AllocPages(m, n) + n - 1) \subseteq m.free
<1> DEFINE fits == {f \in m.free : f .. (f + n - 1) \subseteq m.free}
<1>1. AllocPages(m, n) = IF fits = {} THEN 0 ELSE Min(fits)
  BY DEF AllocPages
<1>2. fits \in SUBSET Nat
  BY FramesArePositive
<1>3. fits # {}
  BY <1>1
<1> HIDE DEF fits
<1>4. Min(fits) \in fits
  BY <1>2, <1>3, LeastNat
<1> QED
  BY <1>1, <1>3, <1>4 DEF fits

\* One turn of VirtMapRangeZeroed: a loose frame f is mapped, then cleared.
LEMMA ZeroedPageMapped ==
  ASSUME NEW m \in Works, NEW sp, Sound(m, sp), NEW p \in Pids, NEW va \in UserPages,
         NEW f, Loose(m, sp, f),
         NEW w, w = Zeroed(MapPage(m, sp[p].pml4, va, f), f)
  PROVE  /\ Grows(m, w, sp, p, {0})
         /\ w.free \subseteq m.free
         /\ \A h : h # f /\ Loose(m, sp, h) => Loose(w, sp, h)
         /\ w.ok => At(w.mem, sp, PageOf(p, va)) # 0
<1> DEFINE c == PageOf(p, va)
<1>1. PICK v : v = MapPage(m, sp[p].pml4, va, f)
  OBVIOUS
<1>2. Maps(m, v, sp, c, f)
  BY <1>1, MapPageMaps
<1>3. w = IF v.ok THEN [v EXCEPT !.mem[f] = ZeroPage] ELSE v
  BY <1>1 DEF Zeroed
<1>4. c \in Pages /\ c[1] = p
  BY AddressPlaces DEF PageOf
<1>5. /\ v \in Works /\ Sound(v, sp) /\ v.free \subseteq m.free /\ v.tabs \subseteq m.tabs \cup m.free
      /\ \A h \in Frames \ (m.free \cup m.tabs) : v.mem[h] = m.mem[h]
      /\ \A z \in Pages : \/ At(v.mem, sp, z) = At(m.mem, sp, z)
                          \/ z = c /\ At(m.mem, sp, z) = 0 /\ At(v.mem, sp, z) = f /\ v.ok
      /\ v.ok => At(v.mem, sp, c) # 0
  BY <1>2 DEF Maps
<1> HIDE DEF c
<1>6. f \in Frames /\ f \notin v.free /\ f \notin v.tabs /\ \A z \in Pages : At(m.mem, sp, z) # f
  BY <1>5 DEF Loose
<1>7. /\ w \in Works /\ w.free = v.free /\ w.tabs = v.tabs /\ w.mem \in Mems /\ (w.ok => v.ok)
      /\ \A h \in Frames : h # f => w.mem[h] = v.mem[h]
      /\ v.ok => w.mem[f] = ZeroPage
  <2>1. v.mem \in Mems
    BY <1>5 DEF Works
  <2>2. CASE v.ok
    <3>1. w = [v EXCEPT !.mem[f] = ZeroPage]
      BY <1>3, <2>2
    <3>2. w.free = v.free /\ w.tabs = v.tabs /\ w.mem = [v.mem EXCEPT ![f] = ZeroPage]
      BY <1>5, <3>1 DEF Works
    <3>3. ZeroPage \in [Idx -> Words]
      BY FramesArePositive DEF ZeroPage, Words
    <3>4. [v.mem EXCEPT ![f] = ZeroPage] \in Mems
      BY <2>1, <3>3 DEF Mems
    <3>5. w \in Works
      BY <1>5, <3>1, <3>2, <3>4 DEF Works
    <3>6. \A h \in Frames : w.mem[h] = IF h = f THEN ZeroPage ELSE v.mem[h]
      BY <1>6, <2>1, <3>2 DEF Mems
    <3> QED
      BY <1>6, <2>2, <3>2, <3>4, <3>5, <3>6
  <2>3. CASE ~v.ok
    BY <1>3, <1>5, <2>1, <2>3
  <2> QED
    BY <2>2, <2>3
<1>8. Sound(w, sp) /\ \A z \in Places : At(w.mem, sp, z) = At(v.mem, sp, z)
  <2>1. \A h \in v.tabs : w.mem[h] = v.mem[h]
    BY <1>5, <1>6, <1>7, TablesAreFrames
  <2> QED
    BY <1>5, <1>7, <2>1, PagesRewritten
<1>9. \A z \in Pages : z \in Places
  BY DEF Pages
<1>10. \A z \in Pages : At(m.mem, sp, z) # 0 => At(w.mem, sp, z) = At(m.mem, sp, z)
  BY <1>5, <1>8, <1>9
<1>11. ASSUME NEW z \in Pages, At(w.mem, sp, z) # 0
       PROVE  \/ /\ At(m.mem, sp, z) = At(w.mem, sp, z)
                 /\ w.mem[At(w.mem, sp, z)] = m.mem[At(w.mem, sp, z)]
              \/ /\ z[1] = p
                 /\ \A i \in Idx : w.mem[At(w.mem, sp, z)][i] \in {0}
  <2>1. CASE At(v.mem, sp, z) = At(m.mem, sp, z)
    <3> DEFINE h == At(w.mem, sp, z)
    <3>1. h = At(m.mem, sp, z) /\ h = At(v.mem, sp, z)
      BY <1>8, <1>9, <2>1
    <3>2. z \notin Tables /\ z \in Places
      BY DEF Pages, Tables
    <3>3. h \in Frames \ (m.free \cup m.tabs)
      BY <1>11, <3>1, <3>2, Reached
    <3>4. h # f
      BY <1>6, <3>1
    <3> QED
      BY <1>5, <1>7, <3>1, <3>3, <3>4
  <2>2. CASE z = c /\ At(v.mem, sp, z) = f /\ v.ok
    <3>1. At(w.mem, sp, z) = f /\ w.mem[f] = ZeroPage
      BY <1>7, <1>8, <1>9, <2>2
    <3> QED
      BY <1>4, <2>2, <3>1 DEF ZeroPage
  <2> QED
    BY <1>5, <2>1, <2>2
<1>12. Grows(m, w, sp, p, {0})
  BY <1>7, <1>8, <1>10, <1>11 DEF Grows
<1>13. ASSUME NEW h, h # f, Loose(m, sp, h) PROVE Loose(w, sp, h)
  BY <1>5, <1>7, <1>8, <1>9, <1>13 DEF Loose
<1>14. w.ok => At(w.mem, sp, c) # 0
  BY <1>4, <1>5, <1>7, <1>8, <1>9
<1> QED
  BY <1>5, <1>7, <1>12, <1>13, <1>14 DEF c

\* The state of MapBlock after k turns: the pages before first + k are
\* mapped, unless a turn failed, and the frames from base + k on are loose.
BlockMapped(m, w, sp, p, first, n, base, k) ==
  /\ Grows(m, w, sp, p, {0})
  /\ \A j \in k .. (n - 1) : Loose(w, sp, base + j)
  /\ w.ok => \A j \in 0 .. (k - 1) : At(w.mem, sp, PageOf(p, first + j)) # 0

\* A page that was mapped before a turn is mapped after it.
LEMMA BlockTurn ==
  ASSUME NEW m, NEW sp, NEW p \in Pids, NEW first \in UserPages, NEW n \in Nat \ {0}, first + n <= 8,
         NEW base \in Frames, NEW k \in 1 .. n, NEW w,
         BlockMapped(m, w, sp, p, first, n, base, k - 1),
         NEW v, v = IF ~w.ok THEN w
                    ELSE Zeroed(MapPage(w, sp[p].pml4, first + k - 1, base + k - 1), base + k - 1)
  PROVE  BlockMapped(m, v, sp, p, first, n, base, k)
<1> DEFINE f == base + k - 1
           va == first + k - 1
<1>1. /\ Grows(m, w, sp, p, {0})
      /\ \A j \in (k - 1) .. (n - 1) : Loose(w, sp, base + j)
      /\ w.ok => \A j \in 0 .. (k - 2) : At(w.mem, sp, PageOf(p, first + j)) # 0
  BY DEF BlockMapped
<1>2. base \in Nat
  BY FramesArePositive
<1>3. va \in UserPages /\ f = base + (k - 1) /\ va = first + (k - 1) /\ k - 1 \in (k - 1) .. (n - 1)
  BY <1>2 DEF UserPages
<1>4. CASE ~w.ok
  BY <1>1, <1>4 DEF BlockMapped
<1>5. CASE w.ok
  <2>1. Loose(w, sp, f)
    BY <1>1, <1>3
  <2>2. w \in Works /\ Sound(w, sp)
    BY <1>1 DEF Grows
  <2>3. v = Zeroed(MapPage(w, sp[p].pml4, va, f), f)
    BY <1>5
  <2> HIDE DEF f, va
  <2>4. /\ Grows(w, v, sp, p, {0})
        /\ \A h : h # f /\ Loose(w, sp, h) => Loose(v, sp, h)
        /\ v.ok => At(v.mem, sp, PageOf(p, va)) # 0
    BY <1>3, <2>1, <2>2, <2>3, ZeroedPageMapped
  <2>5. Grows(m, v, sp, p, {0})
    <3>1. Grows(m, v, sp, p, {0} \cup {0})
      BY <1>1, <2>4, GrowsTwice
    <3> QED
      BY <3>1
  <2>6. ASSUME NEW j \in k .. (n - 1) PROVE Loose(v, sp, base + j)
    <3>1. j \in (k - 1) .. (n - 1) /\ base + j # f
      BY <1>2, <1>3
    <3> QED
      BY <1>1, <2>4, <3>1
  <2>7. ASSUME v.ok, NEW j \in 0 .. (k - 1) PROVE At(v.mem, sp, PageOf(p, first + j)) # 0
    <3>1. CASE j = k - 1
      BY <1>3, <2>4, <2>7, <3>1
    <3>2. CASE j # k - 1
      <4>1. j \in 0 .. (k - 2) /\ first + j \in UserPages
        BY <3>2 DEF UserPages
      <4>2. At(w.mem, sp, PageOf(p, first + j)) # 0
        BY <1>1, <1>5, <4>1
      <4>3. PageOf(p, first + j) \in Pages
        BY <4>1, AddressPlaces
      <4> QED
        BY <2>4, <4>2, <4>3 DEF Grows
    <3> QED
      BY <3>1, <3>2
  <2> QED
    BY <2>5, <2>6, <2>7 DEF BlockMapped
<1> QED
  BY <1>4, <1>5

\* Frames are taken from the free ones.
LEMMA SoundWithLess ==
  ASSUME NEW m, NEW w, NEW sp, Sound(m, sp),
         w.free \subseteq m.free, w.mem = m.mem, w.tabs = m.tabs
  PROVE  Sound(w, sp)
BY DEF Sound

\* Before the first turn the block is taken.
LEMMA BlockTaken ==
  ASSUME NEW m, m \in Memories \cup Works, NEW sp, Sound(m, sp), NEW p \in Pids,
         NEW first, NEW n \in Nat \ {0}, NEW base \in Frames, base .. (base + n - 1) \subseteq m.free,
         NEW w, w = Done([m EXCEPT !.free = @ \ (base .. (base + n - 1))])
  PROVE  w \in Works /\ BlockMapped(m, w, sp, p, first, n, base, 0)
<1> DEFINE B == base .. (base + n - 1)
<1>1. PICK x : x = [m EXCEPT !.free = @ \ B]
  OBVIOUS
<1>2. x.free = m.free \ B /\ x.mem = m.mem /\ x.tabs = m.tabs
  BY <1>1 DEF Memories, Works
<1>3. w = Done(x)
  BY <1>1
<1>4. x.free \in SUBSET Frames /\ x.mem \in Mems /\ x.tabs \in SUBSET Frames
  BY <1>2, SoundTypes
<1>5. w \in Works /\ w.free = m.free \ B /\ w.mem = m.mem /\ w.tabs = m.tabs
  BY <1>2, <1>3, <1>4, DoneFields
<1>6. \A h \in B : h \in Frames \ (w.free \cup w.tabs) /\ \A z \in Places : At(w.mem, sp, z) # h
  BY <1>5, FreeNotReached
<1> HIDE DEF B
<1>7. Sound(w, sp)
  <2>1. w.free \subseteq m.free
    BY <1>5
  <2> QED
    BY <1>5, <2>1, SoundWithLess
<1>8. Grows(m, w, sp, p, {0})
  BY <1>5, <1>7 DEF Grows
<1>9. \A z \in Pages : z \in Places
  BY DEF Pages
<1>10. ASSUME NEW j \in 0 .. (n - 1) PROVE Loose(w, sp, base + j)
  <2>1. base + j \in B
    BY FramesArePositive DEF B
  <2> QED
    BY <1>6, <1>9, <2>1 DEF Loose
<1>11. 0 .. (0 - 1) = {}
  OBVIOUS
<1> QED
  BY <1>5, <1>8, <1>10, <1>11 DEF BlockMapped

\* The loop of VirtMapRangeZeroed.
LEMMA MapBlockMaps ==
  ASSUME NEW m, m \in Memories \cup Works, NEW sp, Sound(m, sp), NEW p \in Pids,
         NEW first \in UserPages, NEW n \in Nat \ {0}, first + n <= 8,
         NEW base \in Frames, base .. (base + n - 1) \subseteq m.free
  PROVE  BlockMapped(m, MapBlock(m, sp[p].pml4, first, n, base), sp, p, first, n, base, n)
<1> DEFINE pml4 == sp[p].pml4
           a == Done([m EXCEPT !.free = @ \ (base .. (base + n - 1))])
           V(w, k) == IF ~w.ok THEN w
                      ELSE Zeroed(MapPage(w, pml4, first + k - 1, base + k - 1), base + k - 1)
           Inv(k, w) == BlockMapped(m, w, sp, p, first, n, base, k)
           turn == [x \in Nat \X Works |-> V(x[2], x[1])]
           P == {x \in Nat \X Works : Inv(x[1], x[2])}
           G(f) == [k \in 0 .. n |-> IF k = 0 THEN a
                       ELSE IF ~f[k - 1].ok THEN f[k - 1]
                       ELSE Zeroed(MapPage(f[k - 1], pml4, first + k - 1, base + k - 1), base + k - 1)]
           g == CHOOSE f : f = G(f)
<1>1. a \in Works /\ <<0, a>> \in P
  BY BlockTaken
<1>2. ASSUME NEW k \in 1 .. n, NEW w \in Works, Inv(k - 1, w) PROVE Inv(k, V(w, k))
  BY <1>2, BlockTurn
<1>3. \A k \in 1 .. n : \A w \in Works : turn[<<k, w>>] = V(w, k)
  OBVIOUS
<1>4. \A k \in Nat : \A w : Inv(k, w) => w \in Works
  BY DEF BlockMapped, Grows
<1>5. base # 0
  BY FramesArePositive
<1>6. MapBlock(m, pml4, first, n, base) = g[n]
  BY <1>5, Zenon DEF MapBlock
<1> HIDE DEF turn, a, Inv
<1>7. TurnsKeep(n, Works, turn, P)
  <2> SUFFICES ASSUME NEW k \in 1 .. n, NEW w \in Works, <<k - 1, w>> \in P
               PROVE  turn[<<k, w>>] \in Works /\ <<k, turn[<<k, w>>]>> \in P
    BY DEF TurnsKeep
  <2>1. Inv(k, V(w, k))
    BY <1>2
  <2> HIDE DEF V
  <2>2. turn[<<k, w>>] \in Works
    BY <1>3, <1>4, <2>1
  <2> QED
    BY <1>3, <2>1, <2>2
<1>8. PICK f \in [0 .. n -> Works] : IsCourse(f, n, a, turn) /\ \A k \in 0 .. n : <<k, f[k]>> \in P
  <2> HIDE DEF P
  <2> QED
    BY <1>1, <1>7, LoopExists
<1> HIDE DEF V
<1>9. \A k \in 0 .. n : f[k] = IF k = 0 THEN a ELSE turn[<<k, f[k - 1]>>]
  BY <1>8 DEF IsCourse
<1>10. ASSUME NEW k \in 1 .. n PROVE f[k] = V(f[k - 1], k)
  <2>1. k \in 0 .. n /\ k - 1 \in 0 .. n /\ k # 0
    OBVIOUS
  <2>2. f[k - 1] \in Works
    BY <1>8, <2>1
  <2>3. f[k] = turn[<<k, f[k - 1]>>]
    BY <1>9, <2>1
  <2> QED
    BY <1>3, <2>2, <2>3
<1>11. f[0] = a
  <2>1. 0 \in 0 .. n
    OBVIOUS
  <2> QED
    BY <1>9, <2>1
<1>12. f = G(f)
  <2>1. \A k \in 0 .. n : k # 0 => k \in 1 .. n
    OBVIOUS
  <2>2. f = [k \in 0 .. n |-> f[k]]
    OBVIOUS
  <2>3. \A k \in 0 .. n : f[k] = IF k = 0 THEN a ELSE V(f[k - 1], k)
    BY <1>10, <1>11, <2>1
  <2> QED
    BY <2>2, <2>3 DEF V
<1>13. g = G(g)
  BY <1>12, Zenon
<1> HIDE DEF g
<1>14. \A k \in 0 .. n : g[k] = IF k = 0 THEN a ELSE V(g[k - 1], k)
  BY <1>13 DEF V
<1>15. \A k \in 0 .. n : g[k] = f[k]
  <2> DEFINE T == {j \in 0 .. n : g[j] = f[j]}
  <2>1. 0 \in T
    BY <1>11, <1>14
  <2>2. ASSUME NEW k \in 1 .. n, k - 1 \in T PROVE k \in T
    BY <1>10, <1>14, <2>2
  <2> HIDE DEF T
  <2>3. \A k \in 0 .. n : k \in T
    BY <2>1, <2>2, CountUp
  <2> QED
    BY <2>3 DEF T
<1>16. Inv(n, g[n])
  <2>1. <<n, f[n]>> \in P /\ g[n] = f[n]
    BY <1>8, <1>15
  <2> QED
    BY <2>1
<1> QED
  BY <1>6, <1>16 DEF Inv

\* VirtMapRangeZeroed adds zeroed pages; when it succeeds, the whole range.
LEMMA RangeMapped ==
  ASSUME NEW m, m \in Memories \cup Works, NEW sp, Sound(m, sp), NEW p \in Pids,
         NEW first \in UserPages, NEW n \in Nat \ {0}, first + n <= 8,
         NEW w, w = VirtMapRangeZeroed(m, sp[p].pml4, first, n)
  PROVE  /\ Grows(m, w, sp, p, {0})
         /\ w.ok => \A va \in first .. (first + n - 1) : At(w.mem, sp, PageOf(p, va)) # 0
<1> DEFINE base == AllocPages(m, n)
<1>1. w = MapBlock(m, sp[p].pml4, first, n, base)
  BY DEF VirtMapRangeZeroed
<1>2. m.free \subseteq Frames
  BY SoundTypes
<1>3. CASE base = 0
  <2>1. w = Failed(m)
    BY <1>1, <1>3 DEF MapBlock
  <2>2. w \in Works /\ w.free = m.free /\ w.mem = m.mem /\ w.tabs = m.tabs /\ w.ok = FALSE
    BY <2>1, SoundTypes, DoneFields
  <2> QED
    BY <2>2, GrowsSame
<1>4. CASE base # 0
  <2>1. base \in Frames /\ base .. (base + n - 1) \subseteq m.free
    BY <1>2, <1>4, AllocPagesAreFree
  <2> HIDE DEF base
  <2>2. BlockMapped(m, w, sp, p, first, n, base, n)
    BY <1>1, <2>1, MapBlockMaps
  <2>3. Grows(m, w, sp, p, {0})
    BY <2>2 DEF BlockMapped
  <2>4. ASSUME w.ok, NEW va \in first .. (first + n - 1) PROVE At(w.mem, sp, PageOf(p, va)) # 0
    <3>1. va - first \in 0 .. (n - 1) /\ first + (va - first) = va
      BY DEF UserPages
    <3> QED
      BY <2>2, <2>4, <3>1 DEF BlockMapped
  <2> QED
    BY <2>3, <2>4
<1> QED
  BY <1>3, <1>4

-----------------------------------------------------------------------------
(* Creating and destroying a space *)

\* What the processes have when p gets s.
Given(sp, p, s) == [sp EXCEPT ![p] = s]

\* A process without a space reaches nothing.
LEMMA NoSpaceReachesNothing ==
  ASSUME NEW M, NEW sp, NEW z \in Places, sp[z[1]] = NoSpace
  PROVE  At(M, sp, z) = 0
BY DEF At, At0, At1, At2, At3, Follow, NoSpace

\* What a process reaches depends on its own space.
LEMMA OwnSpace ==
  ASSUME NEW M, NEW sp, NEW sp2, NEW z \in Places, sp2[z[1]] = sp[z[1]]
  PROVE  At(M, sp2, z) = At(M, sp, z)
BY DEF At

\* CreateVirtualSpace answers two free frames.
LEMMA CreatedFromFree ==
  ASSUME NEW m, m \in Memories, m.free \subseteq Frames, CreateVirtualSpace(m) # NoSpace,
         NEW s, s = CreateVirtualSpace(m)
  PROVE  s \in Spaces /\ s.node \in m.free /\ s.pml4 \in m.free /\ s.node # s.pml4
<1> DEFINE node == AllocPage(m)
           rest == [m EXCEPT !.free = @ \ {node}]
           pml4 == IF node = 0 THEN 0 ELSE AllocPage(rest)
<1>1. CreateVirtualSpace(m) = IF pml4 = 0 THEN NoSpace ELSE [node |-> node, pml4 |-> pml4]
  BY Zenon DEF CreateVirtualSpace
<1>2. pml4 # 0 /\ s = [node |-> node, pml4 |-> pml4]
  BY <1>1
<1>3. node # 0 /\ pml4 = AllocPage(rest)
  BY <1>2
<1>4. node \in m.free
  BY <1>3, AllocPageIsFree
<1>5. rest.free = m.free \ {node}
  BY DEF Memories
<1> HIDE DEF node, rest
<1>6. pml4 \in m.free \ {node}
  <2>1. rest.free \subseteq Frames
    BY <1>5
  <2> QED
    BY <1>2, <1>3, <1>5, <2>1, AllocPageIsFree
<1> HIDE DEF pml4
<1>7. s.node = node /\ s.pml4 = pml4 /\ s \in [node : Frames, pml4 : Frames]
  BY <1>2, <1>4, <1>6
<1> QED
  BY <1>4, <1>6, <1>7 DEF Spaces

\* A new space reaches its PML4 and its structure, and no page.
LEMMA SpaceCreated ==
  ASSUME NEW m, NEW sp, Sound(m, sp), NEW c \in Pids, sp[c] = NoSpace,
         NEW s \in Spaces, s.node \in m.free, s.pml4 \in m.free, s.node # s.pml4,
         NEW w, w = WithSpace(m, s), NEW sp2, sp2 = Given(sp, c, s)
  PROVE  /\ w \in Works /\ w.ok /\ Sound(w, sp2)
         /\ \A z \in Pages : At(w.mem, sp2, z) = At(m.mem, sp, z)
         /\ \A h \in Frames \ (m.free \cup m.tabs) : w.mem[h] = m.mem[h]
<1> DEFINE top == [i \in Idx |-> IF i = 1 THEN m.mem[KernelPml4][1] ELSE 0]
           M == [m.mem EXCEPT ![s.pml4] = top]
<1>1. s # NoSpace /\ s.node \in Frames /\ s.pml4 \in Frames /\ s.node # 0 /\ s.pml4 # 0
  BY SoundTypes, FramesArePositive DEF NoSpace
<1>2. w = Done([free |-> m.free \ {s.node, s.pml4}, mem |-> M, tabs |-> m.tabs \cup {s.node, s.pml4}])
  BY <1>1 DEF WithSpace
<1>3. top \in [Idx -> Words]
  <2>1. m.mem[KernelPml4][1] \in Words
    BY SoundTypes, TablesAreFrames DEF Mems, Idx
  <2> QED
    BY <2>1, FramesArePositive DEF Words
<1>4. top[0] = 0
  BY DEF Idx
<1> HIDE DEF top
<1>5. \A h \in Frames : M[h] = IF h = s.pml4 THEN top ELSE m.mem[h]
  BY SoundTypes DEF Mems
<1>6. M \in Mems
  BY <1>3, SoundTypes DEF Mems
<1> HIDE DEF M
<1>7. /\ w \in Works /\ w.ok = TRUE /\ w.mem = M
      /\ w.free = m.free \ {s.node, s.pml4} /\ w.tabs = m.tabs \cup {s.node, s.pml4}
  <2>1. PICK x : x = [free |-> m.free \ {s.node, s.pml4}, mem |-> M, tabs |-> m.tabs \cup {s.node, s.pml4}]
    OBVIOUS
  <2>2. x.free \in SUBSET Frames /\ x.mem \in Mems /\ x.tabs \in SUBSET Frames
    BY <1>1, <1>6, <2>1, SoundTypes
  <2>3. w = Done(x)
    BY <1>2, <2>1
  <2>4. x.free = m.free \ {s.node, s.pml4} /\ x.mem = M /\ x.tabs = m.tabs \cup {s.node, s.pml4}
    BY <2>1
  <2>5. /\ Done(x) \in Works /\ Done(x).ok = TRUE /\ Done(x).mem = x.mem
        /\ Done(x).free = x.free /\ Done(x).tabs = x.tabs
    BY <2>2, DoneFields
  <2> QED
    BY <2>3, <2>4, <2>5
<1>8. sp \in [Pids -> Spaces] /\ sp2 \in [Pids -> Spaces] /\ sp2[c] = s /\ \A p \in Pids : p # c => sp2[p] = sp[p]
  BY DEF Sound, Given
<1>9. \A z \in Places : At(M, sp, z) = At(m.mem, sp, z)
  <2>1. \A h \in m.tabs : M[h] = m.mem[h]
    BY <1>5, SoundTypes, FreeNotReached
  <2> QED
    BY <2>1, TablesUntouched
<1>10. ASSUME NEW z \in Places, z[1] # c PROVE At(M, sp2, z) = At(m.mem, sp, z)
  <2>1. sp2[z[1]] = sp[z[1]]
    BY <1>8, <1>10, PlaceParts
  <2> QED
    BY <1>9, <2>1, OwnSpace
<1>11. ASSUME NEW z \in Places, z[1] = c
       PROVE  /\ At(m.mem, sp, z) = 0
              /\ At(M, sp2, z) = IF z = <<c, 4, 0>> THEN s.pml4 ELSE IF z = <<c, 5, 0>> THEN s.node ELSE 0
  <2>1. At(m.mem, sp, z) = 0
    BY <1>11, NoSpaceReachesNothing
  <2>2. z = <<z[1], z[2], z[3]>> /\ z[2] \in 0 .. 5 /\ z[3] \in 0 .. 7 /\ z[3] < Width(z[2])
    BY PlaceParts
  <2>3. At3(M, s) = 0
    BY <1>1, <1>4, <1>5 DEF At3, Follow
  <2>4. z[2] <= 3 => At(M, sp2, z) = 0 /\ z # <<c, 4, 0>> /\ z # <<c, 5, 0>>
    <3>1. At0(M, s, z[3]) = 0 /\ At1(M, s, z[3]) = 0 /\ At2(M, s, z[3]) = 0
      <4>1. \A x : At2(M, s, x) = 0
        BY <2>3 DEF At2, Follow
      <4>2. \A x : At1(M, s, x) = 0
        BY <4>1 DEF At1, Follow
      <4>3. \A x : At0(M, s, x) = 0
        BY <4>2 DEF At0, Follow
      <4> QED
        BY <4>1, <4>2, <4>3
    <3>2. sp2[z[1]] = s
      BY <1>8, <1>11
    <3> HIDE DEF M
    <3>3. z[2] <= 3 => At(M, sp2, z) = 0
      BY <2>2, <2>3, <3>1, <3>2 DEF At
    <3> QED
      BY <2>2, <3>3
  <2>5. z[2] > 3 => z[3] = 0 /\ z = <<c, z[2], 0>> /\ z[2] \in {4, 5}
    BY <1>11, <2>2 DEF Width
  <2>6. z[2] = 4 => At(M, sp2, z) = s.pml4
    BY <1>8, <1>11 DEF At
  <2>7. z[2] = 5 => At(M, sp2, z) = s.node
    BY <1>8, <1>11 DEF At
  <2> QED
    BY <2>1, <2>2, <2>4, <2>5, <2>6, <2>7
<1>12. \A z \in Places : At(M, sp2, z) = IF z = <<c, 4, 0>> THEN s.pml4
                                         ELSE IF z = <<c, 5, 0>> THEN s.node ELSE At(m.mem, sp, z)
  BY <1>10, <1>11
<1>13. <<c, 4, 0>> \in Tables /\ <<c, 5, 0>> \in Tables /\ <<c, 4, 0>> \in Places /\ <<c, 5, 0>> \in Places
       /\ <<c, 4, 0>> # <<c, 5, 0>> /\ At(m.mem, sp, <<c, 4, 0>>) = 0 /\ At(m.mem, sp, <<c, 5, 0>>) = 0
  <2>1. <<c, 4, 0>> \in Tables /\ <<c, 5, 0>> \in Tables
    BY DEF Tables, Places, Width
  <2> QED
    BY <1>11, <2>1 DEF Tables
<1>14. \A z \in Places : At(m.mem, sp, z) # s.node /\ At(m.mem, sp, z) # s.pml4
  BY FreeNotReached
<1>15. \A z \in Tables : z \in Places
  BY DEF Tables
<1>16. Sound(w, sp2)
  <2>1. \A z \in Places : At(w.mem, sp2, z) # 0 =>
            At(w.mem, sp2, z) \in Frames \ (w.free \cup {KernelPml4, KernelPdpt})
    BY <1>7, <1>12 DEF Sound
  <2>2. \A y, z \in Places :
            At(w.mem, sp2, y) # 0 /\ At(w.mem, sp2, y) = At(w.mem, sp2, z) => y = z
    BY <1>7, <1>12, <1>14 DEF Sound
  <2>3. {At(w.mem, sp2, z) : z \in Tables} \ {0} = ({At(m.mem, sp, z) : z \in Tables} \ {0}) \cup {s.node, s.pml4}
    <3>1. s.node \in {At(w.mem, sp2, z) : z \in Tables} /\ s.pml4 \in {At(w.mem, sp2, z) : z \in Tables}
      BY <1>7, <1>12, <1>13
    <3>2. ASSUME NEW z \in Tables, At(m.mem, sp, z) # 0 PROVE At(w.mem, sp2, z) = At(m.mem, sp, z)
      BY <1>7, <1>12, <1>13, <1>15, <3>2
    <3>3. ASSUME NEW z \in Tables PROVE At(w.mem, sp2, z) \in {s.node, s.pml4, At(m.mem, sp, z)}
      BY <1>7, <1>12, <1>15
    <3> QED
      BY <1>1, <3>1, <3>2, <3>3
  <2>4. w.tabs = {KernelPml4, KernelPdpt} \cup ({At(w.mem, sp2, z) : z \in Tables} \ {0})
    BY <1>7, <2>3 DEF Sound
  <2>5. w.free \subseteq Frames \ {KernelPml4, KernelPdpt} /\ w.mem \in Mems
    BY <1>6, <1>7 DEF Sound
  <2> QED
    BY <1>8, <2>1, <2>2, <2>4, <2>5 DEF Sound
<1>17. \A z \in Pages : At(w.mem, sp2, z) = At(m.mem, sp, z)
  <2>1. \A z \in Pages : z \in Places /\ z # <<c, 4, 0>> /\ z # <<c, 5, 0>>
    BY DEF Pages
  <2> QED
    BY <1>7, <1>12, <2>1
<1>18. \A h \in Frames \ (m.free \cup m.tabs) : w.mem[h] = m.mem[h]
  BY <1>5, <1>7
<1> QED
  BY <1>7, <1>16, <1>17, <1>18

\* A destroyed space gives back its tables, and only them.
LEMMA SpaceDestroyed ==
  ASSUME NEW m, NEW sp, Sound(m, sp), NEW c \in Pids, sp[c] # NoSpace,
         NEW w, w = DestroyVirtualSpace(m, sp[c]), NEW sp2, sp2 = Given(sp, c, NoSpace)
  PROVE  /\ Sound(w, sp2) /\ w.mem = m.mem
         /\ \A z \in Places : At(m.mem, sp2, z) = IF z[1] = c THEN 0 ELSE At(m.mem, sp, z)
<1> DEFINE T == {At(m.mem, sp, z) : z \in {y \in Tables : y[1] = c}} \ {0}
<1>1. w = [free |-> m.free \cup T, mem |-> m.mem, tabs |-> m.tabs \ T, ok |-> TRUE]
  <2>1. TablesOf(m, sp[c]) = T
    BY TablesOfReached
  <2> HIDE DEF T
  <2> QED
    BY <2>1 DEF DestroyVirtualSpace
<1>2. w.free = m.free \cup T /\ w.mem = m.mem /\ w.tabs = m.tabs \ T
  BY <1>1
<1>3. \A f \in T : \E z \in Tables : z \in Places /\ z[1] = c /\ f = At(m.mem, sp, z) /\ f # 0
  BY DEF Tables
<1>4. \A z \in Tables : z[1] = c /\ At(m.mem, sp, z) # 0 => At(m.mem, sp, z) \in T
  OBVIOUS
<1> HIDE DEF T
<1>5. sp \in [Pids -> Spaces] /\ sp2 \in [Pids -> Spaces] /\ sp2[c] = NoSpace /\ \A p \in Pids : p # c => sp2[p] = sp[p]
  BY DEF Sound, Spaces, Given
<1>6. \A z \in Places : At(m.mem, sp2, z) = IF z[1] = c THEN 0 ELSE At(m.mem, sp, z)
  <2> TAKE z \in Places
  <2>1. z[1] \in Pids
    BY PlaceParts
  <2>2. CASE z[1] = c
    <3>1. sp2[z[1]] = NoSpace
      BY <1>5, <2>2
    <3> QED
      BY <2>2, <3>1, NoSpaceReachesNothing
  <2>3. CASE z[1] # c
    <3>1. sp2[z[1]] = sp[z[1]]
      BY <1>5, <2>1, <2>3
    <3> QED
      BY <2>3, <3>1, OwnSpace
  <2> QED
    BY <2>2, <2>3
<1>7. \A z \in Places : z[1] # c => At(m.mem, sp, z) \notin T
  BY <1>3 DEF Sound
<1>8. Sound(w, sp2)
  <2>1. \A f \in T : f \in Frames \ {KernelPml4, KernelPdpt}
    BY <1>3, Reached
  <2>2. w.free \subseteq Frames \ {KernelPml4, KernelPdpt} /\ w.mem \in Mems
    BY <1>2, <2>1 DEF Sound
  <2>3. \A z \in Places : At(w.mem, sp2, z) # 0 =>
            At(w.mem, sp2, z) \in Frames \ (w.free \cup {KernelPml4, KernelPdpt})
    BY <1>2, <1>6, <1>7 DEF Sound
  <2>4. \A y, z \in Places :
            At(w.mem, sp2, y) # 0 /\ At(w.mem, sp2, y) = At(w.mem, sp2, z) => y = z
    BY <1>2, <1>6 DEF Sound
  <2>5. {At(w.mem, sp2, z) : z \in Tables} \ {0} = ({At(m.mem, sp, z) : z \in Tables} \ {0}) \ T
    <3>1. \A z \in Tables : z \in Places
      BY DEF Tables
    <3>2. ASSUME NEW z \in Tables, At(w.mem, sp2, z) # 0
          PROVE  At(w.mem, sp2, z) = At(m.mem, sp, z) /\ At(m.mem, sp, z) \notin T
      BY <1>2, <1>6, <1>7, <3>1, <3>2
    <3>3. ASSUME NEW z \in Tables, At(m.mem, sp, z) # 0, At(m.mem, sp, z) \notin T
          PROVE  At(w.mem, sp2, z) = At(m.mem, sp, z)
      BY <1>2, <1>4, <1>6, <3>1, <3>3
    <3> QED
      BY <3>2, <3>3
  <2>6. w.tabs = {KernelPml4, KernelPdpt} \cup ({At(w.mem, sp2, z) : z \in Tables} \ {0})
    <3>1. KernelPml4 \notin T /\ KernelPdpt \notin T
      BY <2>1
    <3>2. m.tabs = {KernelPml4, KernelPdpt} \cup ({At(m.mem, sp, z) : z \in Tables} \ {0})
      BY DEF Sound
    <3> QED
      BY <1>2, <2>5, <3>1, <3>2
  <2> QED
    BY <1>5, <2>2, <2>3, <2>4, <2>6 DEF Sound
<1> QED
  BY <1>2, <1>6, <1>8

-----------------------------------------------------------------------------
(* PosixFork's copy of the pages *)

\* One page: a new frame with what src holds, mapped for process c.
LEMMA CopyPageGrows ==
  ASSUME NEW w \in Works, NEW sp, Sound(w, sp), NEW c \in Pids, NEW va \in UserPages,
         NEW src, src # 0 => src \in Frames, NEW words,
         src # 0 => \A i \in Idx : w.mem[src][i] \in words,
         NEW v, v = CopyPage(w, va, sp[c].pml4, src, AllocPage(w))
  PROVE  Grows(w, v, sp, c, words)
<1> DEFINE new == AllocPage(w)
<1>1. w.free \in SUBSET Frames /\ w.mem \in Mems /\ w.tabs \in SUBSET Frames
  BY DEF Works
<1>2. CASE ~w.ok \/ src = 0
  <2>1. v = w
    BY <1>2 DEF CopyPage
  <2> QED
    BY <2>1, GrowsSame
<1>3. CASE w.ok /\ src # 0 /\ new = 0
  <2>1. v = Failed(w)
    BY <1>3 DEF CopyPage
  <2>2. v \in Works /\ v.free = w.free /\ v.mem = w.mem /\ v.tabs = w.tabs
    BY <1>1, <2>1, DoneFields
  <2> QED
    BY <2>2, GrowsSame
<1>4. CASE w.ok /\ src # 0 /\ new # 0
  <2>1. new \in w.free /\ new \in Frames /\ new \notin w.tabs /\ \A z \in Places : At(w.mem, sp, z) # new
    BY <1>1, <1>4, AllocPageIsFree, FreeNotReached
  <2>2. PICK x : x = [w EXCEPT !.free = @ \ {new}, !.mem[new] = w.mem[src]]
    OBVIOUS
  <2>3. v = Done(MapPage(x, sp[c].pml4, va, new))
    BY <1>4, <2>2 DEF CopyPage
  <2> HIDE DEF new
  <2>4. x.free = w.free \ {new} /\ x.tabs = w.tabs /\ x.mem = [w.mem EXCEPT ![new] = w.mem[src]]
    BY <2>2 DEF Works
  <2>5. w.mem[src] \in [Idx -> Words]
    BY <1>1, <1>4 DEF Mems
  <2>6. x.mem \in Mems
    BY <1>1, <2>4, <2>5 DEF Mems
  <2>7. \A h \in Frames : x.mem[h] = IF h = new THEN w.mem[src] ELSE w.mem[h]
    BY <1>1, <2>1, <2>4 DEF Mems
  <2>8. Sound(x, sp) /\ \A z \in Places : At(x.mem, sp, z) = At(w.mem, sp, z)
    <3>1. \A h \in w.tabs : x.mem[h] = w.mem[h]
      BY <1>1, <2>1, <2>7
    <3>2. x.free \subseteq w.free /\ x.tabs = w.tabs
      BY <2>4
    <3> QED
      BY <2>6, <3>1, <3>2, PagesRewritten
  <2>9. \A z \in Pages : z \in Places /\ z \notin Tables
    BY DEF Pages, Tables
  <2>10. Loose(x, sp, new)
    BY <2>1, <2>4, <2>8, <2>9 DEF Loose
  <2>11. PICK u : u = MapPage(x, sp[c].pml4, va, new)
    OBVIOUS
  <2>12. Maps(x, u, sp, PageOf(c, va), new)
    BY <2>8, <2>10, <2>11, MapPageMaps
  <2>13. /\ u \in Works /\ Sound(u, sp)
         /\ \A h \in Frames \ (x.free \cup x.tabs) : u.mem[h] = x.mem[h]
         /\ \A z \in Pages : \/ At(u.mem, sp, z) = At(x.mem, sp, z)
                             \/ z = PageOf(c, va) /\ At(x.mem, sp, z) = 0 /\ At(u.mem, sp, z) = new
    BY <2>12 DEF Maps
  <2>14. v \in Works /\ v.free = u.free /\ v.mem = u.mem /\ v.tabs = u.tabs
    <3>1. u.free \in SUBSET Frames /\ u.mem \in Mems /\ u.tabs \in SUBSET Frames
      BY <2>13 DEF Works
    <3>2. v = Done(u)
      BY <2>3, <2>11
    <3> QED
      BY <3>1, <3>2, DoneFields
  <2>15. Sound(v, sp)
    BY <2>13, <2>14, SoundFields
  <2>16. \A z \in Pages : At(w.mem, sp, z) # 0 => At(v.mem, sp, z) = At(w.mem, sp, z)
    BY <2>8, <2>9, <2>13, <2>14
  <2>17. ASSUME NEW z \in Pages, At(v.mem, sp, z) # 0
         PROVE  \/ /\ At(w.mem, sp, z) = At(v.mem, sp, z)
                   /\ v.mem[At(v.mem, sp, z)] = w.mem[At(v.mem, sp, z)]
                \/ /\ z[1] = c
                   /\ \A i \in Idx : v.mem[At(v.mem, sp, z)][i] \in words
    <3> DEFINE h == At(v.mem, sp, z)
    <3>1. CASE At(u.mem, sp, z) = At(x.mem, sp, z)
      <4>1. h = At(w.mem, sp, z)
        BY <2>8, <2>9, <2>14, <3>1
      <4>2. h \in Frames \ (w.free \cup w.tabs)
        BY <2>9, <2>17, <4>1, Reached
      <4>3. h # new /\ h \notin x.free \cup x.tabs
        BY <2>1, <2>4, <4>2
      <4> QED
        BY <2>7, <2>13, <2>14, <4>1, <4>2, <4>3
    <3>2. CASE z = PageOf(c, va) /\ At(u.mem, sp, z) = new
      <4>1. h = new /\ z[1] = c
        BY <2>14, <3>2 DEF PageOf
      <4>2. u.mem[new] = w.mem[src]
        BY <2>1, <2>4, <2>7, <2>13
      <4> QED
        BY <1>4, <2>14, <4>1, <4>2
    <3> QED
      BY <2>13, <3>1, <3>2
  <2> QED
    BY <2>14, <2>15, <2>16, <2>17 DEF Grows
<1> QED
  BY <1>2, <1>3, <1>4

\* All of them: the child's pages hold what the parent's held.
LEMMA CopyPagesGrows ==
  ASSUME NEW m, NEW sp, Sound(m, sp), NEW p \in Pids, NEW c \in Pids, p # c, NEW words,
         \A z \in Pages : z[1] = p /\ At(m.mem, sp, z) # 0 =>
            \A i \in Idx : m.mem[At(m.mem, sp, z)][i] \in words
  PROVE  Grows(m, CopyPages(m, sp[p].pml4, sp[c].pml4), sp, c, words)
<1> DEFINE from == sp[p].pml4
           to == sp[c].pml4
           a == Done(m)
           V(w, k) == CopyPage(w, k - 1, to, UserLeaf(w, from, k - 1), AllocPage(w))
           turn == [x \in Nat \X Works |-> V(x[2], x[1])]
           P == {x \in Nat \X Works : Grows(m, x[2], sp, c, words)}
           n == Cardinality(UserPages)
           G(f) == [k \in 0 .. n |-> IF k = 0 THEN Done(m)
                       ELSE CopyPage(f[k - 1], k - 1, to, UserLeaf(f[k - 1], from, k - 1),
                                     AllocPage(f[k - 1]))]
           g == CHOOSE f : f = G(f)
<1>1. n = 8
  <2>1. PICK x \in Int, y \in Int : x = 0 /\ y = 7
    OBVIOUS
  <2>2. Cardinality(x .. y) = IF x > y THEN 0 ELSE y - x + 1
    BY FS_Interval
  <2> QED
    BY <2>1, <2>2 DEF UserPages
<1>2. a \in Works /\ <<0, a>> \in P
  <2>1. Done(m) \in Works /\ Done(m).free = m.free /\ Done(m).mem = m.mem /\ Done(m).tabs = m.tabs
    BY SoundTypes, DoneFields
  <2> QED
    BY <2>1, GrowsSame
<1>3. ASSUME NEW k \in 1 .. n, NEW w \in Works, Grows(m, w, sp, c, words)
      PROVE  Grows(m, V(w, k), sp, c, words)
  <2> DEFINE va == k - 1
             src == UserLeaf(w, from, va)
  <2>1. va \in UserPages
    BY <1>1 DEF UserPages
  <2>2. src # 0 => src = At(w.mem, sp, PageOf(p, va))
    BY <2>1, PhysicalAddress DEF UserLeaf
  <2>3. Sound(w, sp) /\ PageOf(p, va) \in Pages /\ PageOf(p, va) \in Places /\ PageOf(p, va)[1] = p
    BY <1>3, <2>1, AddressPlaces DEF Grows, PageOf
  <2>4. src # 0 => src \in Frames
    BY <2>2, <2>3, Reached
  <2>5. src # 0 => \A i \in Idx : w.mem[src][i] \in words
    BY <1>3, <2>2, <2>3 DEF Grows
  <2>6. PICK v : v = V(w, k)
    OBVIOUS
  <2>7. v = CopyPage(w, va, to, src, AllocPage(w))
    BY <2>6
  <2> HIDE DEF src, va
  <2>8. Grows(w, v, sp, c, words)
    BY <2>1, <2>3, <2>4, <2>5, <2>7, CopyPageGrows
  <2>9. Grows(m, v, sp, c, words \cup words)
    BY <1>3, <2>8, GrowsTwice
  <2> QED
    BY <2>6, <2>9
<1>4. \A k \in 1 .. n : \A w \in Works : turn[<<k, w>>] = V(w, k)
  BY <1>1
<1>5. CopyPages(m, from, to) = g[n]
  BY Zenon DEF CopyPages
<1>6. n \in Nat
  BY <1>1
<1> HIDE DEF turn, a, n
<1>7. TurnsKeep(n, Works, turn, P)
  <2> SUFFICES ASSUME NEW k \in 1 .. n, NEW w \in Works, <<k - 1, w>> \in P
               PROVE  turn[<<k, w>>] \in Works /\ <<k, turn[<<k, w>>]>> \in P
    BY DEF TurnsKeep
  <2>1. Grows(m, V(w, k), sp, c, words)
    BY <1>3
  <2> HIDE DEF V
  <2>2. turn[<<k, w>>] \in Works /\ k \in Nat
    BY <1>4, <2>1 DEF Grows
  <2> QED
    BY <1>4, <2>1, <2>2
<1>8. PICK f \in [0 .. n -> Works] : IsCourse(f, n, a, turn) /\ \A k \in 0 .. n : <<k, f[k]>> \in P
  <2> HIDE DEF P
  <2> QED
    BY <1>2, <1>6, <1>7, LoopExists
<1> HIDE DEF V
<1>9. \A k \in 0 .. n : f[k] = IF k = 0 THEN a ELSE turn[<<k, f[k - 1]>>]
  BY <1>8 DEF IsCourse
<1>10. ASSUME NEW k \in 1 .. n PROVE f[k] = V(f[k - 1], k)
  <2>1. k \in 0 .. n /\ k - 1 \in 0 .. n /\ k # 0
    BY <1>6
  <2>2. f[k - 1] \in Works
    BY <1>8, <2>1
  <2>3. f[k] = turn[<<k, f[k - 1]>>]
    BY <1>9, <2>1
  <2> QED
    BY <1>4, <2>2, <2>3
<1>11. f[0] = a
  <2>1. 0 \in 0 .. n
    BY <1>6
  <2> QED
    BY <1>9, <2>1
<1>12. f = G(f)
  <2>1. \A k \in 0 .. n : k # 0 => k \in 1 .. n
    BY <1>6
  <2>2. f = [k \in 0 .. n |-> f[k]]
    OBVIOUS
  <2>3. \A k \in 0 .. n : f[k] = IF k = 0 THEN a ELSE V(f[k - 1], k)
    BY <1>10, <1>11, <2>1
  <2> QED
    BY <2>2, <2>3 DEF V, a
<1>13. g = G(g)
  BY <1>12, Zenon
<1> HIDE DEF g
<1>14. \A k \in 0 .. n : g[k] = IF k = 0 THEN a ELSE V(g[k - 1], k)
  BY <1>13 DEF V, a
<1>15. \A k \in 0 .. n : g[k] = f[k]
  <2> DEFINE T == {j \in 0 .. n : g[j] = f[j]}
  <2>1. 0 \in T
    BY <1>6, <1>11, <1>14
  <2>2. ASSUME NEW k \in 1 .. n, k - 1 \in T PROVE k \in T
    BY <1>6, <1>10, <1>14, <2>2
  <2> HIDE DEF T
  <2>3. \A k \in 0 .. n : k \in T
    BY <1>6, <2>1, <2>2, CountUp
  <2> QED
    BY <2>3 DEF T
<1>16. Grows(m, g[n], sp, c, words)
  <2>1. <<n, f[n]>> \in P /\ g[n] = f[n]
    BY <1>6, <1>8, <1>15
  <2> QED
    BY <2>1
<1> QED
  BY <1>5, <1>16

-----------------------------------------------------------------------------
(* Loading a program *)

\* Pages of one process are written over.
LEMMA PagesStamped ==
  ASSUME NEW w \in Works, NEW sp, Sound(w, sp), NEW p \in Pids, NEW tag \in Words,
         NEW into, \A f \in into \ {0} : \E z \in Pages : z[1] = p /\ At(w.mem, sp, z) = f,
         NEW v \in Works, v.free = w.free, v.tabs = w.tabs,
         v.mem = [h \in Frames |-> IF h \in into THEN Page(tag) ELSE w.mem[h]]
  PROVE  Grows(w, v, sp, p, {tag})
<1>1. w.mem \in Mems /\ w.tabs \in SUBSET Frames
  BY DEF Works
<1>2. v.mem \in Mems
  BY DEF Works
<1>3. \A z \in Pages : z \in Places /\ z \notin Tables
  BY DEF Pages, Tables
<1>4. \A f \in into : f \in Frames => \E z \in Pages : z[1] = p /\ At(w.mem, sp, z) = f /\ f # 0
  BY FramesArePositive
<1>5. \A h \in w.tabs : v.mem[h] = w.mem[h]
  BY <1>1, <1>3, <1>4, Reached
<1>6. Sound(v, sp) /\ \A z \in Places : At(v.mem, sp, z) = At(w.mem, sp, z)
  <2>1. v.free \subseteq w.free
    OBVIOUS
  <2> QED
    BY <1>2, <1>5, <2>1, PagesRewritten
<1>7. ASSUME NEW z \in Pages, At(v.mem, sp, z) # 0
      PROVE  \/ /\ At(w.mem, sp, z) = At(v.mem, sp, z)
                /\ v.mem[At(v.mem, sp, z)] = w.mem[At(v.mem, sp, z)]
             \/ /\ z[1] = p
                /\ \A i \in Idx : v.mem[At(v.mem, sp, z)][i] \in {tag}
  <2> DEFINE h == At(v.mem, sp, z)
  <2>1. h = At(w.mem, sp, z) /\ h # 0 /\ h \in Frames
    BY <1>3, <1>6, <1>7, Reached
  <2>2. CASE h \in into
    <3>1. PICK y \in Pages : y[1] = p /\ At(w.mem, sp, y) = h
      BY <2>1, <2>2
    <3>2. y = z
      BY <1>3, <2>1, <3>1 DEF Sound
    <3> QED
      BY <2>1, <2>2, <3>1, <3>2 DEF Page
  <2>3. CASE h \notin into
    BY <2>1, <2>3
  <2> QED
    BY <2>2, <2>3
<1> QED
  BY <1>3, <1>6, <1>7 DEF Grows

\* What the pages of a process hold.
Holds(m, sp, p, words) ==
  \A z \in Pages : z[1] = p /\ At(m.mem, sp, z) # 0 =>
     \A i \in Idx : m.mem[At(m.mem, sp, z)][i] \in words

\* An operation that writes such words only leaves such words.
LEMMA GrowsHolds ==
  ASSUME NEW m, NEW w, NEW sp, NEW p, NEW words, Grows(m, w, sp, p, words), Holds(m, sp, p, words)
  PROVE  Holds(w, sp, p, words)
BY DEF Grows, Holds

\* Halves of frames are written over that are no tables and no pages of
\* other processes.
LEMMA HalvesWritten ==
  ASSUME NEW w \in Works, NEW sp, Sound(w, sp), NEW p \in Pids, NEW words, NEW tag \in words,
         Holds(w, sp, p, words), NEW into,
         \A f \in Frames : \A i \in Idx : <<f, i>> \in into =>
            f \notin w.tabs /\ \A z \in Pages : z[1] # p => At(w.mem, sp, z) # f,
         NEW v \in Works, v.free = w.free, v.tabs = w.tabs,
         \A f \in Frames : \A i \in Idx : v.mem[f][i] = IF <<f, i>> \in into THEN tag ELSE w.mem[f][i]
  PROVE  Grows(w, v, sp, p, words)
<1>1. w.mem \in Mems /\ v.mem \in Mems /\ w.tabs \in SUBSET Frames
  BY DEF Works
<1>2. ASSUME NEW f \in Frames, \A i \in Idx : <<f, i>> \notin into PROVE v.mem[f] = w.mem[f]
  <2>1. v.mem[f] \in [Idx -> Words] /\ w.mem[f] \in [Idx -> Words]
    BY <1>1 DEF Mems
  <2>2. \A i \in Idx : v.mem[f][i] = w.mem[f][i]
    BY <1>2
  <2> QED
    BY <2>1, <2>2
<1>3. \A f \in w.tabs : v.mem[f] = w.mem[f]
  BY <1>1, <1>2
<1>4. Sound(v, sp) /\ \A z \in Places : At(v.mem, sp, z) = At(w.mem, sp, z)
  <2>1. v.free \subseteq w.free
    OBVIOUS
  <2> QED
    BY <1>1, <1>3, <2>1, PagesRewritten
<1>5. \A z \in Pages : z \in Places
  BY DEF Pages
<1>6. ASSUME NEW z \in Pages, At(v.mem, sp, z) # 0
      PROVE  \/ /\ At(w.mem, sp, z) = At(v.mem, sp, z)
                /\ v.mem[At(v.mem, sp, z)] = w.mem[At(v.mem, sp, z)]
             \/ /\ z[1] = p
                /\ \A i \in Idx : v.mem[At(v.mem, sp, z)][i] \in words
  <2> DEFINE h == At(v.mem, sp, z)
  <2>1. h = At(w.mem, sp, z) /\ h \in Frames /\ h # 0
    BY <1>4, <1>5, <1>6, Reached
  <2>2. CASE z[1] = p
    <3>1. \A i \in Idx : w.mem[h][i] \in words
      BY <2>1, <2>2 DEF Holds
    <3> HIDE DEF h
    <3>2. \A i \in Idx : v.mem[h][i] \in words
      BY <2>1, <3>1
    <3> QED
      BY <2>2, <3>2 DEF h
  <2>3. CASE z[1] # p
    <3>1. \A i \in Idx : <<h, i>> \notin into
      BY <2>1, <2>3
    <3> QED
      BY <1>2, <2>1, <3>1
  <2> QED
    BY <2>2, <2>3
<1> QED
  BY <1>4, <1>5, <1>6 DEF Grows

\* Half pages and the pages they are in.
LEMMA HalvesOfPages ==
  ASSUME NEW a \in 0 .. 15, NEW b \in 1 .. 16, a + b <= 16
  PROVE  /\ a \div 2 \in 0 .. 7
         /\ (a + b - 1) \div 2 - a \div 2 + 1 \in Nat \ {0}
         /\ a \div 2 + ((a + b - 1) \div 2 - a \div 2 + 1) <= 8
         /\ \A h \in a .. (a + b - 1) : h \div 2 \in 0 .. 7 /\ h % 2 \in 0 .. 1
OBVIOUS

\* The pages of a segment are in the lower half.
LEMMA SegmentPages ==
  ASSUME NEW k \in 1 .. Len(Image)
  PROVE  /\ FirstPage(Image[k]) \in UserPages
         /\ NumPages(Image[k]) \in Nat \ {0}
         /\ FirstPage(Image[k]) + NumPages(Image[k]) <= 8
         /\ Image[k][1] \in 0 .. 15
         /\ \A h \in Image[k][1] .. (Image[k][1] + Image[k][2] - 1) : h \div 2 \in UserPages
<1>1. Image[k] \in (0 .. 15) \X (1 .. 16) /\ Image[k][1] + Image[k][2] <= 16
  BY LowerHalfAssumption
<1>2. Image[k][1] \in 0 .. 15 /\ Image[k][2] \in 1 .. 16
  BY <1>1
<1> QED
  BY <1>1, <1>2, HalvesOfPages DEF FirstPage, NumPages, UserPages

\* The chunks of a segment that does not spill go to frames of the process,
\* or to frames nobody uses.
LEMMA ChunksLand ==
  ASSUME NEW w, Sound(w, space), NEW p \in Pids, NEW k \in 1 .. Len(Image),
         ~Spills(w, p, Image[k]),
         NEW f \in Frames, NEW i \in Idx, <<f, i>> \in Chunks(w, space[p].pml4, Image[k])
  PROVE  f \notin w.tabs /\ \A z \in Pages : z[1] # p => At(w.mem, space, z) # f
<1> DEFINE seg == Image[k]
           after == FrameAfter(w, space[p].pml4, seg)
<1>1. PICK h \in seg[1] .. (seg[1] + seg[2] - 1) :
         <<f, i>> = IF Unaligned(seg) /\ h = seg[1] THEN <<after, 0>>
                    ELSE <<GetPhysicalAddress(w, space[p].pml4, h \div 2), h % 2>>
  BY DEF Chunks
<1>2. h \div 2 \in UserPages
  BY SegmentPages
<1>3. f # 0
  BY FramesArePositive
<1>4. CASE Unaligned(seg) /\ h = seg[1]
  <2>1. f = after
    BY <1>1, <1>4
  <2>2. f \notin w.tabs \cup {GetPhysicalAddress(w, space[q].pml4, va) :
                          q \in {r \in Pids \ {p} : space[r] # NoSpace}, va \in UserPages}
    BY <1>4, <2>1 DEF Spills
  <2>3. ASSUME NEW z \in Pages, z[1] # p, At(w.mem, space, z) = f PROVE FALSE
    <3>1. z[1] \in Pids /\ z[3] \in UserPages /\ z = PageOf(z[1], z[3]) /\ z \in Places
      BY PageAddress
    <3>2. space[z[1]] # NoSpace
      BY <1>3, <2>3, <3>1, NoSpaceReachesNothing
    <3>3. f = GetPhysicalAddress(w, space[z[1]].pml4, z[3])
      BY <2>3, <3>1, PhysicalAddress
    <3> QED
      BY <2>2, <2>3, <3>1, <3>2, <3>3
  <2> QED
    BY <2>2, <2>3
<1>5. CASE ~(Unaligned(seg) /\ h = seg[1])
  <2>1. f = GetPhysicalAddress(w, space[p].pml4, h \div 2)
    BY <1>1, <1>5
  <2>2. f = At(w.mem, space, PageOf(p, h \div 2))
    BY <1>2, <2>1, PhysicalAddress
  <2>3. PageOf(p, h \div 2) \in Pages /\ PageOf(p, h \div 2) \in Places /\ PageOf(p, h \div 2)[1] = p
    BY <1>2, AddressPlaces DEF PageOf
  <2>4. PageOf(p, h \div 2) \notin Tables
    BY <2>3 DEF Pages, Tables
  <2>5. f \notin w.tabs
    BY <1>3, <2>2, <2>3, <2>4, Reached
  <2>6. ASSUME NEW z \in Pages, z[1] # p, At(w.mem, space, z) = f PROVE FALSE
    <3>1. z \in Places
      BY DEF Pages
    <3>2. z = PageOf(p, h \div 2)
      BY <1>3, <2>2, <2>3, <2>6, <3>1 DEF Sound
    <3> QED
      BY <2>3, <2>6, <3>2
  <2> QED
    BY <2>5, <2>6
<1> QED
  BY <1>4, <1>5

\* The fields of what FillSegment answers.
LEMMA FillFields ==
  ASSUME NEW w \in Works, NEW p \in Pids, NEW seg, NEW readable \in BOOLEAN,
         NEW v, v = FillSegment(w, p, seg, readable)
  PROVE  /\ v \in Works /\ v.free = w.free /\ v.tabs = w.tabs
         /\ ~(w.ok /\ readable) => v.mem = w.mem /\ ~v.ok
         /\ w.ok /\ readable => (v.ok <=> ~Spills(w, p, seg))
         /\ w.ok /\ readable =>
               \A f \in Frames : \A i \in Idx :
                  v.mem[f][i] = IF <<f, i>> \in Chunks(w, space[p].pml4, seg) THEN p ELSE w.mem[f][i]
<1>1. w.free \in SUBSET Frames /\ w.mem \in Mems /\ w.tabs \in SUBSET Frames /\ w.ok \in BOOLEAN
  BY DEF Works
<1>2. CASE ~(w.ok /\ readable)
  <2>1. v = Failed(w)
    BY <1>2, Zenon DEF FillSegment
  <2>2. v \in Works /\ v.free = w.free /\ v.mem = w.mem /\ v.tabs = w.tabs
    BY <1>1, <2>1, DoneFields
  <2>3. ~v.ok
    BY <2>1 DEF Failed
  <2> QED
    BY <1>2, <2>2, <2>3
<1>3. CASE w.ok /\ readable
  <2> DEFINE into == Chunks(w, space[p].pml4, seg)
             M == [f \in Frames |-> [i \in Idx |-> IF <<f, i>> \in into THEN p ELSE w.mem[f][i]]]
             fits == ~Spills(w, p, seg)
  <2>1. v = [w EXCEPT !.ok = fits, !.mem = M]
    BY <1>3, Zenon DEF FillSegment
  <2>2. fits \in BOOLEAN
    BY Zenon
  <2> HIDE DEF fits, into
  <2>3. M \in Mems
    <3>1. \A f \in Frames : \A i \in Idx : w.mem[f][i] \in Words
      BY <1>1 DEF Mems
    <3>2. p \in Words
      BY DEF Words
    <3> QED
      BY <3>1, <3>2 DEF Mems
  <2>4. \A f \in Frames : \A i \in Idx : M[f][i] = IF <<f, i>> \in into THEN p ELSE w.mem[f][i]
    OBVIOUS
  <2> HIDE DEF M
  <2>5. v = [free |-> w.free, mem |-> M, tabs |-> w.tabs, ok |-> fits]
    BY <2>1 DEF Works
  <2>6. v.free = w.free /\ v.tabs = w.tabs /\ v.mem = M
    BY <2>5
  <2>7. PICK b \in BOOLEAN : b = fits /\ (b <=> fits)
    BY <2>2, Zenon
  <2>8. v = [free |-> w.free, mem |-> M, tabs |-> w.tabs, ok |-> b]
    BY <2>5, <2>7, Zenon
  <2>9. v \in Works
    BY <1>1, <2>3, <2>8 DEF Works
  <2>10. v.ok <=> b
    BY <2>8
  <2>11. v.ok <=> fits
    BY <2>7, <2>10, Zenon
  <2> QED
    BY <1>3, <2>4, <2>6, <2>9, <2>11 DEF fits, into
<1> QED
  BY <1>2, <1>3

\* The bytes of a segment that does not spill.
LEMMA FillSegmentGrows ==
  ASSUME NEW w \in Works, Sound(w, space), NEW p \in Pids, NEW k \in 1 .. Len(Image),
         NEW readable \in BOOLEAN, w.ok /\ readable => ~Spills(w, p, Image[k]),
         NEW words, p \in words, Holds(w, space, p, words),
         NEW v, v = FillSegment(w, p, Image[k], readable)
  PROVE  Grows(w, v, space, p, words)
<1>1. PICK seg : seg = Image[k]
  OBVIOUS
<1>2. /\ v \in Works /\ v.free = w.free /\ v.tabs = w.tabs
      /\ ~(w.ok /\ readable) => v.mem = w.mem /\ ~v.ok
      /\ w.ok /\ readable =>
            \A f \in Frames : \A i \in Idx :
               v.mem[f][i] = IF <<f, i>> \in Chunks(w, space[p].pml4, seg) THEN p ELSE w.mem[f][i]
  BY <1>1, FillFields
<1>3. CASE ~(w.ok /\ readable)
  BY <1>2, <1>3, GrowsSame
<1>4. CASE w.ok /\ readable
  <2>1. PICK into : into = Chunks(w, space[p].pml4, seg)
    OBVIOUS
  <2>2. \A f \in Frames : \A i \in Idx : <<f, i>> \in into =>
           f \notin w.tabs /\ \A z \in Pages : z[1] # p => At(w.mem, space, z) # f
    BY <1>1, <1>4, <2>1, ChunksLand
  <2>3. \A f \in Frames : \A i \in Idx : v.mem[f][i] = IF <<f, i>> \in into THEN p ELSE w.mem[f][i]
    BY <1>2, <1>4, <2>1
  <2> QED
    BY <1>2, <2>2, <2>3, HalvesWritten
<1> QED
  BY <1>3, <1>4

\* A range of the lower half, as the constants give it.
LEMMA AreaMapped ==
  ASSUME NEW w \in Works, NEW sp, Sound(w, sp), NEW p \in Pids, NEW area, LowerHalf(area),
         NEW v, v = VirtMapRangeZeroed(w, sp[p].pml4, area[1], area[2])
  PROVE  Grows(w, v, sp, p, {0})
<1>1. area[1] \in UserPages /\ area[2] \in Nat \ {0} /\ area[1] + area[2] <= 8
  BY DEF LowerHalf, UserPages
<1>2. w \in Memories \cup Works
  OBVIOUS
<1> QED
  BY <1>1, <1>2, RangeMapped

\* The range of a segment.
LEMMA MapSegmentGrows ==
  ASSUME NEW w \in Works, Sound(w, space), NEW p \in Pids, NEW k \in 1 .. Len(Image),
         NEW u, u = MapSegment(w, p, Image[k])
  PROVE  Grows(w, u, space, p, {0})
<1>1. CASE ~w.ok
  <2>1. u = w
    BY <1>1 DEF MapSegment
  <2> QED
    BY <2>1, GrowsSame
<1>2. CASE w.ok
  <2>1. PICK first, n : first = FirstPage(Image[k]) /\ n = NumPages(Image[k])
    OBVIOUS
  <2>2. u = VirtMapRangeZeroed(w, space[p].pml4, first, n)
    BY <1>2, <2>1 DEF MapSegment
  <2>3. first \in UserPages /\ n \in Nat \ {0} /\ first + n <= 8
    BY <2>1, SegmentPages
  <2>4. w \in Memories \cup Works
    OBVIOUS
  <2> QED
    BY <2>2, <2>3, <2>4, RangeMapped
<1> QED
  BY <1>1, <1>2

\* Elf64Load, unless a segment spills: zeros and the bytes of the file.
LEMMA Elf64LoadGrows ==
  ASSUME NEW m, Sound(m, space), NEW p \in Pids, NEW words, {0, p} \subseteq words,
         Holds(m, space, p, words), NEW last \in Nat, ~LoadSpills(m, p, last)
  PROVE  Grows(m, Elf64Load(m, p, last), space, p, words)
<1> DEFINE a == Done(m)
           V(w, k) == FillSegment(MapSegment(w, p, Image[k]), p, Image[k], k <= last)
           turn == [x \in Nat \X Works |-> V(x[2], x[1])]
           Good(w) == Grows(m, w, space, p, words)
           P == {x \in Nat \X Works : Good(x[2]) \/ ~x[2].ok}
           n == Len(Image)
           G(f) == [k \in 0 .. n |-> IF k = 0 THEN Done(m)
                       ELSE FillSegment(MapSegment(f[k - 1], p, Image[k]), p, Image[k], k <= last)]
           g == CHOOSE f : f = G(f)
<1>1. n \in Nat
  BY LowerHalfAssumption
<1>2. a \in Works /\ Good(a)
  <2>1. Done(m) \in Works /\ Done(m).free = m.free /\ Done(m).mem = m.mem /\ Done(m).tabs = m.tabs
    BY SoundTypes, DoneFields
  <2> QED
    BY <2>1, GrowsSame
<1>3. ASSUME NEW k \in 1 .. n, NEW w \in Works, Good(w)
      PROVE  /\ MapSegment(w, p, Image[k]) \in Works /\ Sound(MapSegment(w, p, Image[k]), space)
             /\ Good(MapSegment(w, p, Image[k]))
             /\ Holds(MapSegment(w, p, Image[k]), space, p, words)
  <2>1. PICK u : u = MapSegment(w, p, Image[k])
    OBVIOUS
  <2>2. Sound(w, space)
    BY <1>3 DEF Grows
  <2>3. Grows(w, u, space, p, {0})
    BY <2>1, <2>2, MapSegmentGrows
  <2>4. u \in Works /\ Sound(u, space)
    BY <2>3 DEF Grows
  <2>5. Grows(m, u, space, p, words \cup {0})
    BY <1>3, <2>3, GrowsTwice
  <2>6. words \cup {0} = words
    OBVIOUS
  <2>7. Grows(m, u, space, p, words)
    BY <2>5, <2>6
  <2>8. Holds(u, space, p, words)
    BY <2>7, GrowsHolds
  <2> QED
    BY <2>1, <2>4, <2>7, <2>8
<1>4. ASSUME NEW k \in 1 .. n, NEW w \in Works, Good(w),
             MapSegment(w, p, Image[k]).ok /\ k <= last => ~Spills(MapSegment(w, p, Image[k]), p, Image[k])
      PROVE  Good(V(w, k))
  <2>1. PICK u : u = MapSegment(w, p, Image[k])
    OBVIOUS
  <2>2. PICK readable \in BOOLEAN : readable = (k <= last)
    <3>1. (k <= last) \in BOOLEAN
      OBVIOUS
    <3> QED
      BY <3>1, Zenon
  <2>3. PICK v : v = FillSegment(u, p, Image[k], readable)
    OBVIOUS
  <2>4. V(w, k) = v
    BY <2>1, <2>2, <2>3, Zenon
  <2>5. u \in Works /\ Sound(u, space) /\ Good(u) /\ Holds(u, space, p, words)
    BY <1>3, <1>4, <2>1
  <2>6. u.ok /\ readable => ~Spills(u, p, Image[k])
    BY <1>4, <2>1, <2>2, Zenon
  <2>7. p \in words
    OBVIOUS
  <2>8. Grows(u, v, space, p, words)
    BY <2>3, <2>5, <2>6, <2>7, FillSegmentGrows
  <2>9. Grows(m, v, space, p, words \cup words)
    BY <2>5, <2>8, GrowsTwice
  <2>10. words \cup words = words
    OBVIOUS
  <2> QED
    BY <2>4, <2>9, <2>10
<1>5. ASSUME NEW k \in 1 .. n, NEW w \in Works, Good(w) \/ ~w.ok
      PROVE  V(w, k) \in Works /\ (Good(V(w, k)) \/ ~V(w, k).ok)
  <2>1. PICK u : u = MapSegment(w, p, Image[k])
    OBVIOUS
  <2>2. PICK readable \in BOOLEAN : readable = (k <= last)
    <3>1. (k <= last) \in BOOLEAN
      OBVIOUS
    <3> QED
      BY <3>1, Zenon
  <2>3. PICK v : v = FillSegment(u, p, Image[k], readable)
    OBVIOUS
  <2>4. V(w, k) = v
    BY <2>1, <2>2, <2>3, Zenon
  <2>5. u \in Works /\ (~w.ok => ~u.ok)
    <3>1. CASE ~w.ok
      BY <2>1, <3>1 DEF MapSegment
    <3>2. CASE w.ok
      BY <1>3, <1>5, <2>1, <3>2
    <3> QED
      BY <3>1, <3>2
  <2>6. /\ v \in Works
        /\ ~(u.ok /\ readable) => ~v.ok
        /\ u.ok /\ readable => (v.ok <=> ~Spills(u, p, Image[k]))
    <3>1. PICK seg : seg = Image[k]
      OBVIOUS
    <3>2. /\ v \in Works
          /\ ~(u.ok /\ readable) => ~v.ok
          /\ u.ok /\ readable => (v.ok <=> ~Spills(u, p, seg))
      BY <2>3, <2>5, <3>1, FillFields
    <3> QED
      BY <3>1, <3>2
  <2>7. v.ok => Good(v)
    <3> SUFFICES ASSUME v.ok PROVE Good(v)
      OBVIOUS
    <3>1. u.ok /\ readable /\ ~Spills(u, p, Image[k])
      BY <2>6
    <3>2. Good(w)
      BY <1>5, <2>5, <3>1
    <3>3. Good(V(w, k))
      BY <1>4, <2>1, <3>1, <3>2
    <3> QED
      BY <2>4, <3>3
  <2> QED
    BY <2>4, <2>6, <2>7
<1>6. \A k \in 1 .. n : \A w \in Works : turn[<<k, w>>] = V(w, k)
  BY <1>1
<1>7. Segments(m, p, last) = g /\ Elf64Load(m, p, last) = g[n]
  BY Zenon DEF Segments, Elf64Load
<1> HIDE DEF turn, a, n, Good
<1>8. TurnsKeep(n, Works, turn, P)
  <2> SUFFICES ASSUME NEW k \in 1 .. n, NEW w \in Works, <<k - 1, w>> \in P
               PROVE  turn[<<k, w>>] \in Works /\ <<k, turn[<<k, w>>]>> \in P
    BY DEF TurnsKeep
  <2>1. V(w, k) \in Works /\ (Good(V(w, k)) \/ ~V(w, k).ok)
    BY <1>5
  <2> HIDE DEF V
  <2>2. turn[<<k, w>>] = V(w, k) /\ k \in Nat
    BY <1>6
  <2> QED
    BY <2>1, <2>2
<1>9. <<0, a>> \in P
  BY <1>2
<1>10. PICK f \in [0 .. n -> Works] : IsCourse(f, n, a, turn) /\ \A k \in 0 .. n : <<k, f[k]>> \in P
  <2> HIDE DEF P
  <2> QED
    BY <1>1, <1>2, <1>8, <1>9, LoopExists
<1> HIDE DEF V
<1>11. \A k \in 0 .. n : f[k] = IF k = 0 THEN a ELSE turn[<<k, f[k - 1]>>]
  BY <1>10 DEF IsCourse
<1>12. ASSUME NEW k \in 1 .. n PROVE f[k] = V(f[k - 1], k)
  <2>1. k \in 0 .. n /\ k - 1 \in 0 .. n /\ k # 0
    BY <1>1
  <2>2. f[k - 1] \in Works
    BY <1>10, <2>1
  <2>3. f[k] = turn[<<k, f[k - 1]>>]
    BY <1>11, <2>1
  <2> QED
    BY <1>6, <2>2, <2>3
<1>13. f[0] = a
  <2>1. 0 \in 0 .. n
    BY <1>1
  <2> QED
    BY <1>11, <2>1
<1>14. f = G(f)
  <2>1. \A k \in 0 .. n : k # 0 => k \in 1 .. n
    BY <1>1
  <2>2. f = [k \in 0 .. n |-> f[k]]
    OBVIOUS
  <2>3. \A k \in 0 .. n : f[k] = IF k = 0 THEN a ELSE V(f[k - 1], k)
    BY <1>12, <1>13, <2>1
  <2> QED
    BY <2>2, <2>3 DEF V, a
<1>15. g = G(g)
  BY <1>14, Zenon
<1> HIDE DEF g
<1>16. \A k \in 0 .. n : g[k] = IF k = 0 THEN a ELSE V(g[k - 1], k)
  BY <1>15 DEF V, a
<1>17. \A k \in 0 .. n : g[k] = f[k]
  <2> DEFINE T == {j \in 0 .. n : g[j] = f[j]}
  <2>1. 0 \in T
    BY <1>1, <1>13, <1>16
  <2>2. ASSUME NEW k \in 1 .. n, k - 1 \in T PROVE k \in T
    BY <1>1, <1>12, <1>16, <2>2
  <2> HIDE DEF T
  <2>3. \A k \in 0 .. n : k \in T
    BY <1>1, <2>1, <2>2, CountUp
  <2> QED
    BY <2>3 DEF T
<1>18. \A k \in 0 .. n : Good(f[k])
  <2> DEFINE T == {j \in 0 .. n : Good(f[j])}
  <2>1. 0 \in T
    BY <1>1, <1>2, <1>13
  <2>2. ASSUME NEW k \in 1 .. n, k - 1 \in T PROVE k \in T
    <3>1. k - 1 \in 0 .. n /\ k \in 0 .. n /\ f[k - 1] \in Works /\ Good(f[k - 1]) /\ g[k - 1] = f[k - 1]
      BY <1>1, <1>10, <1>17, <2>2
    <3>2. MapSegment(f[k - 1], p, Image[k]).ok /\ k <= last =>
             ~Spills(MapSegment(f[k - 1], p, Image[k]), p, Image[k])
      <4>1. Segments(m, p, last)[k - 1] = f[k - 1]
        BY <1>7, <3>1
      <4>2. k \in 1 .. Len(Image)
        BY DEF n
      <4> QED
        BY <4>1, <4>2, Zenon DEF LoadSpills
    <3>3. Good(V(f[k - 1], k))
      BY <1>4, <3>1, <3>2
    <3> QED
      BY <1>12, <3>1, <3>3
  <2> HIDE DEF T
  <2>3. \A k \in 0 .. n : k \in T
    BY <1>1, <2>1, <2>2, CountUp
  <2> QED
    BY <2>3 DEF T
<1>19. Good(g[n])
  BY <1>1, <1>17, <1>18
<1> QED
  BY <1>7, <1>19 DEF Good

\* An area of the stack, when the stage before it went well.
LEMMA MapAreaGrows ==
  ASSUME NEW w \in Works, NEW sp, Sound(w, sp), NEW p \in Pids, NEW area, LowerHalf(area),
         NEW v, v = MapArea(w, sp[p].pml4, area)
  PROVE  Grows(w, v, sp, p, {0})
<1>1. CASE ~w.ok
  <2>1. v = w
    BY <1>1 DEF MapArea
  <2> QED
    BY <2>1, GrowsSame
<1>2. CASE w.ok
  <2>1. v = VirtMapRangeZeroed(w, sp[p].pml4, area[1], area[2])
    BY <1>2 DEF MapArea
  <2> QED
    BY <2>1, AreaMapped
<1> QED
  BY <1>1, <1>2

\* The vectors on the top page of the stack.
LEMMA PushVectorsGrows ==
  ASSUME NEW w \in Works, NEW sp, Sound(w, sp), NEW p \in Pids, NEW tag \in Words,
         NEW v, v = PushVectors(w, sp[p].pml4, tag)
  PROVE  Grows(w, v, sp, p, {tag})
<1> DEFINE va == StackArea[1] + StackArea[2] - 1
           f == At(w.mem, sp, PageOf(p, va))
<1>1. va \in UserPages
  BY LowerHalfAssumption DEF LowerHalf, UserPages
<1>2. GetPhysicalAddress(w, sp[p].pml4, va) = f
  BY <1>1, PhysicalAddress
<1>3. CASE ~w.ok
  <2>1. v = w
    BY <1>3 DEF PushVectors
  <2> QED
    BY <2>1, GrowsSame
<1>4. CASE w.ok
  <2>1. v = [w EXCEPT !.mem[f] = Page(tag)]
    BY <1>2, <1>4 DEF PushVectors
  <2>2. \A h \in {f} \ {0} : \E z \in Pages : z[1] = p /\ At(w.mem, sp, z) = h
    <3>1. PageOf(p, va) \in Pages /\ PageOf(p, va)[1] = p
      BY <1>1, AddressPlaces DEF PageOf
    <3> QED
      BY <3>1
  <2> HIDE DEF f
  <2>3. v.free = w.free /\ v.tabs = w.tabs /\ v.mem = [w.mem EXCEPT ![f] = Page(tag)]
    BY <2>1 DEF Works
  <2>4. w.mem \in Mems
    BY DEF Works
  <2>5. v.mem = [h \in Frames |-> IF h \in {f} THEN Page(tag) ELSE w.mem[h]]
    BY <2>3, <2>4 DEF Mems
  <2>6. v.mem \in Mems
    BY <2>3, <2>4 DEF Mems, Page
  <2>7. v \in Works
    BY <2>1, <2>3, <2>6 DEF Works
  <2> QED
    BY <2>2, <2>3, <2>5, <2>7, PagesStamped
<1> QED
  BY <1>3, <1>4

\* VirtSetupStack, for the process whose tag it pushes.
LEMMA VirtSetupStackGrows ==
  ASSUME NEW w \in Works, NEW sp, Sound(w, sp), NEW p \in Pids, NEW tag \in Words,
         NEW v, v = VirtSetupStack(w, sp[p].pml4, tag)
  PROVE  Grows(w, v, sp, p, {0, tag})
<1>1. PICK x : x = MapArea(w, sp[p].pml4, StackArea)
  OBVIOUS
<1>2. PICK y : y = MapArea(x, sp[p].pml4, ArgArea)
  OBVIOUS
<1>3. v = PushVectors(y, sp[p].pml4, tag)
  BY <1>1, <1>2 DEF VirtSetupStack
<1>4. Grows(w, x, sp, p, {0})
  BY <1>1, MapAreaGrows, LowerHalfAssumption
<1>5. x \in Works /\ Sound(x, sp)
  BY <1>4 DEF Grows
<1>6. Grows(x, y, sp, p, {0})
  BY <1>2, <1>5, MapAreaGrows, LowerHalfAssumption
<1>7. y \in Works /\ Sound(y, sp)
  BY <1>6 DEF Grows
<1>8. Grows(y, v, sp, p, {tag})
  BY <1>3, <1>7, PushVectorsGrows
<1>9. Grows(w, v, sp, p, ({0} \cup {0}) \cup {tag})
  BY <1>4, <1>6, <1>8, GrowsTwice
<1>10. ({0} \cup {0}) \cup {tag} = {0, tag}
  OBVIOUS
<1> QED
  BY <1>9, <1>10

-----------------------------------------------------------------------------
(* Ancestors *)

NumPids == Cardinality(Pids)

\* The loop of Ancestors, for any parents.
Chain(par, p) ==
  LET up[n \in 0 .. NumPids] ==
        IF n = 0 THEN {p} ELSE up[n - 1] \cup {par[q] : q \in up[n - 1]}
  IN  up

\* There are finitely many processes.
LEMMA PidsFinite == IsFiniteSet(Pids) /\ NumPids \in Nat
BY VmmAssumption, FS_CardinalityType DEF NumPids

\* The chain starts with the process and adds the parents.
LEMMA ChainTurns ==
  ASSUME NEW par \in [Pids -> Pids], NEW p \in Pids
  PROVE  /\ Chain(par, p)[0] = {p}
         /\ \A n \in 1 .. NumPids :
               Chain(par, p)[n] = Chain(par, p)[n - 1] \cup {par[q] : q \in Chain(par, p)[n - 1]}
         /\ \A n \in 0 .. NumPids : Chain(par, p)[n] \subseteq Pids
<1> DEFINE N == NumPids
           S == SUBSET Pids
           turn == [x \in Nat \X S |-> x[2] \cup {par[q] : q \in x[2]}]
           P == Nat \X S
           G(f) == [n \in 0 .. N |-> IF n = 0 THEN {p} ELSE f[n - 1] \cup {par[q] : q \in f[n - 1]}]
           g == CHOOSE f : f = G(f)
<1>1. N \in Nat
  BY PidsFinite
<1>2. g = Chain(par, p)
  BY Zenon DEF Chain
<1>3. \A k \in 1 .. N : \A w \in S : turn[<<k, w>>] = w \cup {par[q] : q \in w} /\ turn[<<k, w>>] \in S
  OBVIOUS
<1> HIDE DEF N, turn
<1>4. TurnsKeep(N, S, turn, P)
  <2>1. ASSUME NEW k \in 1 .. N, NEW w \in S, <<k - 1, w>> \in P
        PROVE  turn[<<k, w>>] \in S /\ <<k, turn[<<k, w>>]>> \in P
    <3>1. turn[<<k, w>>] \in S /\ k \in Nat
      BY <1>1, <1>3
    <3> HIDE DEF S
    <3> QED
      BY <3>1
  <2> HIDE DEF S, P
  <2> QED
    BY <2>1 DEF TurnsKeep
<1>5. PICK f \in [0 .. N -> S] : IsCourse(f, N, {p}, turn) /\ \A k \in 0 .. N : <<k, f[k]>> \in P
  <2>1. PICK a : a = {p}
    OBVIOUS
  <2>2. a \in S /\ <<0, a>> \in P
    BY <2>1
  <2> HIDE DEF S, P
  <2>3. \E f \in [0 .. N -> S] : IsCourse(f, N, a, turn) /\ \A k \in 0 .. N : <<k, f[k]>> \in P
    BY <1>1, <1>4, <2>2, LoopExists
  <2> QED
    BY <2>1, <2>3
<1>6. \A k \in 0 .. N : f[k] = IF k = 0 THEN {p} ELSE turn[<<k, f[k - 1]>>]
  BY <1>5 DEF IsCourse
<1>7. ASSUME NEW k \in 1 .. N PROVE f[k] = f[k - 1] \cup {par[q] : q \in f[k - 1]}
  <2>1. k \in 0 .. N /\ k - 1 \in 0 .. N /\ k # 0
    BY <1>1
  <2>2. f[k - 1] \in S /\ f[k] = turn[<<k, f[k - 1]>>]
    BY <1>5, <1>6, <2>1
  <2> QED
    BY <1>3, <2>2
<1>8. f[0] = {p}
  <2>1. 0 \in 0 .. N
    BY <1>1
  <2> QED
    BY <1>6, <2>1
<1>9. f = G(f)
  <2>1. \A k \in 0 .. N : k # 0 => k \in 1 .. N
    BY <1>1
  <2>2. f = [k \in 0 .. N |-> f[k]]
    OBVIOUS
  <2>3. \A k \in 0 .. N : f[k] = IF k = 0 THEN {p} ELSE f[k - 1] \cup {par[q] : q \in f[k - 1]}
    BY <1>7, <1>8, <2>1
  <2> QED
    BY <2>2, <2>3
<1>10. g = G(g)
  BY <1>9, Zenon
<1> HIDE DEF g
<1>11. \A k \in 0 .. N : g[k] = IF k = 0 THEN {p} ELSE g[k - 1] \cup {par[q] : q \in g[k - 1]}
  BY <1>10
<1>12. g[0] = {p}
  <2>1. 0 \in 0 .. N
    BY <1>1
  <2> QED
    BY <1>11, <2>1
<1>13. ASSUME NEW k \in 1 .. N PROVE g[k] = g[k - 1] \cup {par[q] : q \in g[k - 1]}
  <2>1. k \in 0 .. N /\ k # 0
    BY <1>1
  <2> QED
    BY <1>11, <2>1
<1>14. \A k \in 0 .. N : g[k] \in S
  <2> DEFINE T == {j \in 0 .. N : g[j] \in S}
  <2>1. 0 \in T
    BY <1>1, <1>12
  <2>2. ASSUME NEW k \in 1 .. N, k - 1 \in T PROVE k \in T
    <3>1. g[k - 1] \subseteq Pids /\ k \in 0 .. N
      BY <1>1, <2>2
    <3>2. g[k] \subseteq Pids
      BY <1>13, <3>1
    <3> QED
      BY <3>1, <3>2
  <2> HIDE DEF T
  <2>3. \A k \in 0 .. N : k \in T
    BY <1>1, <2>1, <2>2, CountUp
  <2> QED
    BY <2>3 DEF T
<1> QED
  BY <1>2, <1>12, <1>13, <1>14 DEF N

\* The chain has stopped growing one turn before the last.
LEMMA ChainStops ==
  ASSUME NEW par \in [Pids -> Pids], NEW p \in Pids
  PROVE  /\ NumPids >= 1
         /\ Chain(par, p)[NumPids] = Chain(par, p)[NumPids - 1]
<1> DEFINE N == NumPids
           C == Chain(par, p)
           T == {n \in 0 .. N : (n >= 1 /\ C[n] = C[n - 1]) \/ Cardinality(C[n]) >= n + 1}
<1>1. N \in Nat /\ IsFiniteSet(Pids)
  BY PidsFinite
<1>2. \A n \in 0 .. N : IsFiniteSet(C[n]) /\ Cardinality(C[n]) \in Nat /\ Cardinality(C[n]) <= N
  BY <1>1, ChainTurns, FS_Subset, FS_CardinalityType DEF NumPids
<1>3. C[0] = {p} /\ \A n \in 1 .. N : C[n] = C[n - 1] \cup {par[q] : q \in C[n - 1]}
  BY ChainTurns
<1> HIDE DEF N, C
<1>4. 0 \in T
  <2>1. Cardinality({p}) = 1
    BY FS_Singleton
  <2> QED
    BY <1>1, <1>3, <2>1
<1>5. ASSUME NEW k \in 1 .. N, k - 1 \in T PROVE k \in T
  <2>1. k \in 0 .. N /\ k - 1 \in 0 .. N /\ k >= 1
    BY <1>1
  <2>2. CASE k - 1 >= 1 /\ C[k - 1] = C[(k - 1) - 1]
    <3>1. C[k] = C[k - 1] \cup {par[q] : q \in C[k - 1]}
      BY <1>3
    <3>2. k - 1 \in 1 .. N
      BY <2>1, <2>2
    <3>3. C[k - 1] = C[(k - 1) - 1] \cup {par[q] : q \in C[(k - 1) - 1]}
      BY <1>3, <3>2
    <3>4. C[k] = C[k - 1]
      BY <2>2, <3>1, <3>3
    <3> QED
      BY <2>1, <3>4
  <2>3. CASE Cardinality(C[k - 1]) >= k
    <3>1. C[k - 1] \subseteq C[k]
      BY <1>3
    <3>2. CASE C[k] = C[k - 1]
      BY <2>1, <3>2
    <3>3. CASE C[k] # C[k - 1]
      <4>1. Cardinality(C[k - 1]) <= Cardinality(C[k]) /\ Cardinality(C[k - 1]) # Cardinality(C[k])
        BY <1>2, <2>1, <3>1, <3>3, FS_Subset
      <4>2. Cardinality(C[k - 1]) \in Nat /\ Cardinality(C[k]) \in Nat
        BY <1>2, <2>1
      <4>3. Cardinality(C[k]) >= k + 1
        BY <2>3, <4>1, <4>2
      <4> QED
        BY <2>1, <4>3
    <3> QED
      BY <3>2, <3>3
  <2>4. (k - 1) + 1 = k
    OBVIOUS
  <2> QED
    BY <1>5, <2>2, <2>3, <2>4
<1> HIDE DEF T
<1>6. \A k \in 0 .. N : k \in T
  BY <1>1, <1>4, <1>5, CountUp
<1>7. N \in T /\ N \in 0 .. N
  BY <1>1, <1>6
<1>8. ~(Cardinality(C[N]) >= N + 1)
  BY <1>1, <1>2, <1>7
<1> QED
  BY <1>7, <1>8 DEF T, N, C

\* The chain of a process does not see what is not among its ancestors.
LEMMA ChainOfOthers ==
  ASSUME NEW par \in [Pids -> Pids], NEW par2 \in [Pids -> Pids],
         NEW A \in SUBSET Pids, \A q \in A : par[q] \in A /\ par2[q] = par[q], NEW p \in A
  PROVE  \A n \in 0 .. NumPids : Chain(par2, p)[n] = Chain(par, p)[n] /\ Chain(par, p)[n] \subseteq A
<1> DEFINE T == {n \in 0 .. NumPids : Chain(par2, p)[n] = Chain(par, p)[n] /\ Chain(par, p)[n] \subseteq A}
<1>1. NumPids \in Nat
  BY PidsFinite
<1>2. 0 \in T
  <2>1. Chain(par, p)[0] = {p} /\ Chain(par2, p)[0] = {p}
    BY ChainTurns
  <2> QED
    BY <1>1, <2>1
<1>3. ASSUME NEW k \in 1 .. NumPids, k - 1 \in T PROVE k \in T
  <2>1. Chain(par, p)[k] = Chain(par, p)[k - 1] \cup {par[q] : q \in Chain(par, p)[k - 1]}
    BY ChainTurns
  <2>2. Chain(par2, p)[k] = Chain(par2, p)[k - 1] \cup {par2[q] : q \in Chain(par2, p)[k - 1]}
    BY ChainTurns
  <2>3. Chain(par2, p)[k - 1] = Chain(par, p)[k - 1] /\ Chain(par, p)[k - 1] \subseteq A
    BY <1>3
  <2>4. Chain(par, p)[k] \subseteq A
    BY <2>1, <2>3
  <2>5. Chain(par2, p)[k] = Chain(par, p)[k]
    BY <2>1, <2>2, <2>3
  <2> QED
    BY <1>1, <2>4, <2>5
<1> HIDE DEF T
<1>4. \A k \in 0 .. NumPids : k \in T
  BY <1>1, <1>2, <1>3, CountUp
<1> QED
  BY <1>4 DEF T

\* A child's ancestors include its parent's.
LEMMA ChainOfChild ==
  ASSUME NEW par \in [Pids -> Pids], NEW c \in Pids
  PROVE  Chain(par, par[c])[NumPids] \subseteq Chain(par, c)[NumPids]
<1> DEFINE p == par[c]
           T == {n \in 0 .. NumPids : n >= 1 => Chain(par, p)[n - 1] \subseteq Chain(par, c)[n]}
<1>1. NumPids \in Nat /\ p \in Pids
  BY PidsFinite
<1> HIDE DEF p
<1>2. 0 \in T
  BY <1>1
<1>3. ASSUME NEW k \in 1 .. NumPids, k - 1 \in T PROVE k \in T
  <2>1. Chain(par, c)[k] = Chain(par, c)[k - 1] \cup {par[q] : q \in Chain(par, c)[k - 1]}
    BY ChainTurns
  <2>2. CASE k = 1
    <3>1. Chain(par, c)[0] = {c} /\ Chain(par, p)[0] = {p}
      BY <1>1, ChainTurns
    <3>2. k - 1 = 0
      BY <2>2
    <3>3. Chain(par, p)[k - 1] \subseteq Chain(par, c)[k]
      BY <2>1, <3>1, <3>2 DEF p
    <3> QED
      BY <1>1, <3>3
  <2>3. CASE k # 1
    <3>1. k - 1 \in 1 .. NumPids
      BY <1>1, <2>3
    <3>2. Chain(par, p)[k - 1] = Chain(par, p)[(k - 1) - 1] \cup {par[q] : q \in Chain(par, p)[(k - 1) - 1]}
      BY <1>1, <3>1, ChainTurns
    <3>3. Chain(par, p)[(k - 1) - 1] \subseteq Chain(par, c)[k - 1]
      BY <1>3, <3>1
    <3>4. Chain(par, p)[k - 1] \subseteq Chain(par, c)[k]
      BY <2>1, <3>2, <3>3
    <3> QED
      BY <1>1, <3>4
  <2> QED
    BY <2>2, <2>3
<1> HIDE DEF T
<1>4. \A k \in 0 .. NumPids : k \in T
  BY <1>1, <1>2, <1>3, CountUp
<1>5. NumPids >= 1 /\ Chain(par, p)[NumPids] = Chain(par, p)[NumPids - 1]
  BY <1>1, ChainStops
<1>6. NumPids \in T
  BY <1>1, <1>4
<1> QED
  BY <1>5, <1>6 DEF T, p

\* A process is among its ancestors.
LEMMA OwnAncestor ==
  ASSUME NEW par \in [Pids -> Pids], NEW p \in Pids
  PROVE  p \in Chain(par, p)[NumPids]
<1> DEFINE T == {n \in 0 .. NumPids : p \in Chain(par, p)[n]}
<1>1. NumPids \in Nat
  BY PidsFinite
<1>2. 0 \in T
  BY <1>1, ChainTurns
<1>3. ASSUME NEW k \in 1 .. NumPids, k - 1 \in T PROVE k \in T
  BY <1>1, <1>3, ChainTurns
<1> HIDE DEF T
<1>4. \A k \in 0 .. NumPids : k \in T
  BY <1>1, <1>2, <1>3, CountUp
<1> QED
  BY <1>1, <1>4 DEF T

\* Ancestors is the end of the chain.
LEMMA AncestorsChain == \A p : Ancestors(p) = Chain(parent, p)[NumPids]
BY Zenon DEF Ancestors, Chain, NumPids

-----------------------------------------------------------------------------
(* The inductive invariant *)

\* What a process may find in its pages.
Own(par, p) == {0} \cup Chain(par, p)[NumPids]

\* It finds nothing else.
Contents(M, sp, par) ==
  \A z \in Pages : At(M, sp, z) # 0 => \A i \in Idx : M[At(M, sp, z)][i] \in Own(par, z[1])

\* BrkCur, for any breaks.
BreakOf(b, p) == IF b[p] = 0 THEN BrkBase ELSE b[p]

\* The pages below the break are mapped, or the process unmapped them.
HeapMapped(M, sp, st, b, t) ==
  \A p \in Pids : st[p] = "running" =>
    \A va \in BrkBase .. (BreakOf(b, p) - 1) : At(M, sp, PageOf(p, va)) # 0 \/ va \in t[p]

\* The processes that run and those not yet reaped have a space; one that was
\* never made has no break and no parent, and parents were made.
Processes(sp, st, b, par, t) ==
  /\ st \in [Pids -> {"none", "running", "zombie", "gone"}]
  /\ b \in [Pids -> 0 .. 8]
  /\ par \in [Pids -> Pids]
  /\ t \in [Pids -> SUBSET UserPages]
  /\ \A p \in Pids : sp[p] # NoSpace <=> st[p] \in {"running", "zombie"}
  /\ \A p \in Pids : st[p] = "none" => b[p] = 0 /\ par[p] = p
  /\ \A p \in Pids : st[p] # "none" => st[par[p]] # "none"

VmmInv ==
  /\ Sound(Mem, space)
  /\ Contents(mem, space, parent)
  /\ HeapMapped(mem, space, status, brk, torn)
  /\ Processes(space, status, brk, parent, torn)

\* Pages below a break are user pages.
LEMMA HeapPages ==
  ASSUME NEW b \in [Pids -> 0 .. 8], NEW p \in Pids
  PROVE  /\ BreakOf(b, p) \in 1 .. 8
         /\ \A va \in BrkBase .. (BreakOf(b, p) - 1) :
               va \in UserPages /\ PageOf(p, va) \in Pages /\ PageOf(p, va)[1] = p /\ PageOf(p, va)[3] = va
<1>1. BrkBase \in 1 .. 7
  BY VmmAssumption
<1>2. b[p] \in 0 .. 8
  OBVIOUS
<1>3. BreakOf(b, p) \in 1 .. 8
  BY <1>1, <1>2 DEF BreakOf
<1>4. ASSUME NEW va \in BrkBase .. (BreakOf(b, p) - 1)
      PROVE  va \in UserPages /\ PageOf(p, va) \in Pages /\ PageOf(p, va)[1] = p /\ PageOf(p, va)[3] = va
  <2>1. va \in UserPages
    BY <1>1, <1>3 DEF UserPages
  <2> QED
    BY <2>1, AddressPlaces DEF PageOf
<1> QED
  BY <1>3, <1>4

\* A process that gets pages with content of its own keeps the contents private.
LEMMA GrowsKeepsContents ==
  ASSUME NEW m, NEW w, NEW sp, NEW p \in Pids, NEW words, NEW par,
         Grows(m, w, sp, p, words), words \subseteq Own(par, p), Contents(m.mem, sp, par)
  PROVE  Contents(w.mem, sp, par)
<1> SUFFICES ASSUME NEW z \in Pages, At(w.mem, sp, z) # 0, NEW i \in Idx
             PROVE  w.mem[At(w.mem, sp, z)][i] \in Own(par, z[1])
  BY DEF Contents
<1>1. CASE /\ At(m.mem, sp, z) = At(w.mem, sp, z)
           /\ w.mem[At(w.mem, sp, z)] = m.mem[At(w.mem, sp, z)]
  BY <1>1 DEF Contents
<1>2. CASE /\ z[1] = p
           /\ \A j \in Idx : w.mem[At(w.mem, sp, z)][j] \in words
  BY <1>2
<1> QED
  BY <1>1, <1>2 DEF Grows

\* Pages that come leave the heap mapped.
LEMMA GrowsKeepsHeap ==
  ASSUME NEW m, NEW w, NEW sp, NEW p \in Pids, NEW words, NEW st, NEW b \in [Pids -> 0 .. 8], NEW t,
         Grows(m, w, sp, p, words), HeapMapped(m.mem, sp, st, b, t)
  PROVE  HeapMapped(w.mem, sp, st, b, t)
<1> SUFFICES ASSUME NEW q \in Pids, st[q] = "running", NEW va \in BrkBase .. (BreakOf(b, q) - 1)
             PROVE  At(w.mem, sp, PageOf(q, va)) # 0 \/ va \in t[q]
  BY DEF HeapMapped
<1>1. PageOf(q, va) \in Pages
  BY HeapPages
<1>2. At(m.mem, sp, PageOf(q, va)) # 0 \/ va \in t[q]
  BY DEF HeapMapped
<1>3. At(m.mem, sp, PageOf(q, va)) # 0 => At(w.mem, sp, PageOf(q, va)) # 0
  BY <1>1 DEF Grows
<1> QED
  BY <1>2, <1>3

\* Pages that go keep the contents of the others.
LEMMA ShrinksKeepsContents ==
  ASSUME NEW m, NEW w, NEW sp, NEW C, NEW par, Sound(m, sp),
         Shrinks(m, w, sp, C), Contents(m.mem, sp, par)
  PROVE  Contents(w.mem, sp, par)
<1> SUFFICES ASSUME NEW z \in Pages, At(w.mem, sp, z) # 0, NEW i \in Idx
             PROVE  w.mem[At(w.mem, sp, z)][i] \in Own(par, z[1])
  BY DEF Contents
<1>1. At(w.mem, sp, z) = At(m.mem, sp, z)
  BY DEF Shrinks
<1>2. z \in Places /\ z \notin Tables
  BY DEF Pages, Tables
<1>3. At(m.mem, sp, z) \in Frames \ m.tabs
  BY <1>1, <1>2, Reached
<1>4. w.mem[At(w.mem, sp, z)] = m.mem[At(m.mem, sp, z)]
  BY <1>1, <1>3 DEF Shrinks
<1> QED
  BY <1>1, <1>4 DEF Contents

\* What the operations of one process do to the memory keeps the invariant.
LEMMA GrowsKeepsInv ==
  ASSUME VmmInv, NEW p \in Pids, NEW w, NEW words, Becomes(w),
         Grows(Mem, w, space, p, words), words \subseteq Own(parent, p),
         UNCHANGED <<space, status, brk, parent, torn>>
  PROVE  VmmInv'
<1>1. Mem.mem = mem
  BY DEF Mem
<1>2. free' = w.free /\ mem' = w.mem /\ tabs' = w.tabs
  BY DEF Becomes
<1>3. Sound(w, space)
  BY DEF Grows
<1>4. brk \in [Pids -> 0 .. 8]
  BY DEF VmmInv, Processes
<1>5. PICK x : x = Mem'
  OBVIOUS
<1>6. x.free = w.free /\ x.mem = w.mem /\ x.tabs = w.tabs
  BY <1>2, <1>5 DEF Mem
<1>7. Sound(x, space)
  BY <1>3, <1>6, SoundFields
<1>8. Contents(w.mem, space, parent)
  BY <1>1, GrowsKeepsContents DEF VmmInv
<1>9. HeapMapped(w.mem, space, status, brk, torn)
  BY <1>1, <1>4, GrowsKeepsHeap DEF VmmInv
<1>10. Sound(Mem', space')
  BY <1>5, <1>7
<1>11. Contents(mem', space', parent')
  BY <1>2, <1>8
<1>12. HeapMapped(mem', space', status', brk', torn')
  BY <1>2, <1>9
<1>13. Processes(space', status', brk', parent', torn')
  BY DEF VmmInv
<1> QED
  BY <1>10, <1>11, <1>12, <1>13 DEF VmmInv

\* What an operation of process p does that gives it pages or writes to them.
Expands(p) ==
  /\ \E w : Becomes(w) /\ Grows(Mem, w, space, p, Own(parent, p))
  /\ UNCHANGED <<space, status, brk, parent, torn>>

\* Such an operation keeps the invariant.
LEMMA ExpandsKeepsInv ==
  ASSUME VmmInv, NEW p \in Pids, Expands(p)
  PROVE  VmmInv'
<1>1. PICK w : Becomes(w) /\ Grows(Mem, w, space, p, Own(parent, p))
  BY DEF Expands
<1>2. UNCHANGED <<space, status, brk, parent, torn>>
  BY DEF Expands
<1>3. Own(parent, p) \subseteq Own(parent, p)
  OBVIOUS
<1> QED
  BY <1>1, <1>2, <1>3, GrowsKeepsInv

\* The memory is one of those the lemmas about the operators speak of.
LEMMA InvMemory ==
  ASSUME VmmInv
  PROVE  Mem \in Memories /\ Mem.mem = mem /\ Mem.free = free /\ Mem.tabs = tabs /\ Sound(Mem, space)
<1>1. Sound(Mem, space) /\ Mem.mem = mem /\ Mem.free = free /\ Mem.tabs = tabs
  BY DEF VmmInv, Mem
<1>2. Mem.free \in SUBSET Frames /\ Mem.mem \in Mems /\ Mem.tabs \in SUBSET Frames
  BY <1>1, SoundTypes
<1> QED
  BY <1>1, <1>2 DEF Mem, Memories

\* A process may write its own tag and zeros.
LEMMA OwnWords ==
  ASSUME VmmInv, NEW p \in Pids
  PROVE  {0, p} \subseteq Own(parent, p)
<1>1. parent \in [Pids -> Pids]
  BY DEF VmmInv, Processes
<1>2. p \in Chain(parent, p)[NumPids]
  BY <1>1, OwnAncestor
<1> QED
  BY <1>2 DEF Own

\* PosixProcExecve writes its tag and zeros into pages of its own, unless a
\* segment spills.
LEMMA ExecveExpands ==
  ASSUME VmmInv, NEW p \in Pids, PosixProcExecve(p), ~spilled'
  PROVE  Expands(p)
<1> DEFINE pml4 == space[p].pml4
           own == Own(parent, p)
<1>1. PICK n \in 0 .. Len(Image) : /\ Becomes(VirtSetupStack(VirtLoad(Mem, p, n), pml4, p))
                                  /\ spilled' = LoadSpills(Mem, p, n)
  BY DEF PosixProcExecve
<1>2. ~LoadSpills(Mem, p, n)
  BY <1>1, Zenon
<1>3. PICK w : w = Elf64Load(Mem, p, n)
  OBVIOUS
<1>4. PICK x : x = VirtSetupStack(w, pml4, p)
  OBVIOUS
<1>5. PICK y : y = VirtSetupStack(x, pml4, p)
  OBVIOUS
<1>6. Becomes(y) /\ UNCHANGED <<space, status, brk, parent, torn>>
  BY <1>1, <1>3, <1>4, <1>5 DEF PosixProcExecve, VirtLoad
<1>7. p \in Words /\ {0, p} \subseteq own
  BY OwnWords DEF Words
<1>8. Sound(Mem, space) /\ Mem.mem = mem
  BY InvMemory
<1>9. Holds(Mem, space, p, own)
  BY <1>8 DEF VmmInv, Contents, Holds
<1> HIDE DEF own
<1>10. Grows(Mem, w, space, p, own)
  BY <1>2, <1>3, <1>7, <1>8, <1>9, Elf64LoadGrows
<1>11. w \in Works /\ Sound(w, space)
  BY <1>10 DEF Grows
<1>12. Grows(w, x, space, p, {0, p})
  BY <1>4, <1>7, <1>11, VirtSetupStackGrows
<1>13. x \in Works /\ Sound(x, space)
  BY <1>12 DEF Grows
<1>14. Grows(x, y, space, p, {0, p})
  BY <1>5, <1>7, <1>13, VirtSetupStackGrows
<1>15. Grows(Mem, y, space, p, (own \cup {0, p}) \cup {0, p})
  BY <1>10, <1>12, <1>14, GrowsTwice
<1>16. (own \cup {0, p}) \cup {0, p} = own
  BY <1>7
<1>17. Grows(Mem, y, space, p, own)
  BY <1>15, <1>16
<1> QED
  BY <1>6, <1>17 DEF Expands, own

\* A range asked for by mmap or munmap is in the lower half.
LEMMA AskedRange ==
  ASSUME NEW va \in MmapPages \cup MunmapPages, NEW n \in 1 .. MaxLen
  PROVE  va \in UserPages /\ n \in Nat \ {0} /\ va + n <= 8
<1>1. LowerHalf(<<va, MaxLen>>)
  BY LowerHalfAssumption
<1>2. va \in 0 .. 7 /\ MaxLen \in 1 .. 8 /\ va + MaxLen <= 8
  BY <1>1 DEF LowerHalf
<1> QED
  BY <1>2 DEF UserPages

\* __Handle__Mmap gives the process zeroed pages.
LEMMA MmapExpands ==
  ASSUME VmmInv, NEW p \in Pids, NEW va \in MmapPages, NEW n \in 1 .. MaxLen, Mmap(p, va, n)
  PROVE  Expands(p)
<1>1. PICK w : w = VirtMapRangeZeroed(Mem, space[p].pml4, va, n)
  OBVIOUS
<1>2. Becomes(w) /\ UNCHANGED <<space, status, brk, parent, torn>>
  BY <1>1 DEF Mmap
<1>3. va \in UserPages /\ n \in Nat \ {0} /\ va + n <= 8
  BY AskedRange
<1>4. Grows(Mem, w, space, p, {0})
  BY <1>1, <1>3, InvMemory, RangeMapped
<1>5. {0} \subseteq Own(parent, p)
  BY OwnWords
<1> QED
  BY <1>2, <1>4, <1>5, GrowsMore DEF Expands

\* __Handle__Munmap keeps the invariant.
LEMMA MunmapKeepsInv ==
  ASSUME VmmInv, NEW p \in Pids, NEW va \in MunmapPages, NEW n \in 1 .. MaxLen, Munmap(p, va, n)
  PROVE  VmmInv'
<1> DEFINE C == RangeOf(p, va, n)
           area == va .. (va + n - 1)
<1>1. PICK w : w = UnmapRange(Mem, space[p].pml4, va, n)
  OBVIOUS
<1>2. /\ free' = w.free /\ mem' = w.mem /\ tabs' = w.tabs
      /\ torn' = [torn EXCEPT ![p] = @ \cup area]
      /\ UNCHANGED <<space, status, brk, parent>>
  BY <1>1 DEF Munmap, Becomes
<1>3. va \in UserPages /\ n \in Nat \ {0} /\ va + n <= 8
  BY AskedRange
<1>4. Shrinks(Mem, w, space, C)
  <2>1. va \in 0 .. 8
    BY <1>3 DEF UserPages
  <2> QED
    BY <1>1, <1>3, <2>1, InvMemory, UnmapRangeShrinks
<1>5. area \subseteq UserPages
  BY <1>3 DEF UserPages
<1>6. torn \in [Pids -> SUBSET UserPages] /\ brk \in [Pids -> 0 .. 8]
  BY DEF VmmInv, Processes
<1>7. \A q \in Pids : torn'[q] = IF q = p THEN torn[p] \cup area ELSE torn[q]
  BY <1>2, <1>6
<1>8. \A z \in C : z[1] = p /\ z[3] \in area
  BY DEF RangeOf, PageOf
<1> HIDE DEF C, area
<1>9. Sound(Mem', space')
  <2>1. PICK x : x = Mem'
    OBVIOUS
  <2>2. x.free = w.free /\ x.mem = w.mem /\ x.tabs = w.tabs
    BY <1>2, <2>1 DEF Mem
  <2>3. Sound(w, space)
    BY <1>4 DEF Shrinks
  <2>4. Sound(x, space)
    BY <2>2, <2>3, SoundFields
  <2> QED
    BY <1>2, <2>1, <2>4
<1>10. Contents(mem', space', parent')
  <2>1. Contents(w.mem, space, parent)
    BY <1>4, InvMemory, ShrinksKeepsContents DEF VmmInv
  <2> QED
    BY <1>2, <2>1
<1>11. HeapMapped(mem', space', status', brk', torn')
  <2>1. ASSUME NEW q \in Pids, status[q] = "running", NEW a \in BrkBase .. (BreakOf(brk, q) - 1)
        PROVE  At(w.mem, space, PageOf(q, a)) # 0 \/ a \in torn'[q]
    <3> DEFINE z == PageOf(q, a)
    <3>1. z \in Pages /\ z[1] = q /\ z[3] = a
      BY <1>6, HeapPages
    <3>2. At(mem, space, z) # 0 \/ a \in torn[q]
      BY <2>1 DEF VmmInv, HeapMapped
    <3>3. At(w.mem, space, z) = At(mem, space, z) \/ z \in C
      BY <1>4, <3>1, InvMemory DEF Shrinks
    <3>4. z \in C => q = p /\ a \in area
      BY <1>8, <3>1
    <3> HIDE DEF z
    <3>5. At(w.mem, space, z) # 0 \/ a \in torn'[q]
      BY <1>7, <3>2, <3>3, <3>4
    <3> QED
      BY <3>5 DEF z
  <2> QED
    BY <1>2, <2>1 DEF HeapMapped
<1>12. Processes(space', status', brk', parent', torn')
  <2>1. torn' \in [Pids -> SUBSET UserPages]
    BY <1>2, <1>5, <1>6
  <2> QED
    BY <1>2, <2>1 DEF VmmInv, Processes
<1> QED
  BY <1>9, <1>10, <1>11, <1>12 DEF VmmInv

\* A break that moves keeps the invariant if the pages below it are there.
LEMMA BreakMoves ==
  ASSUME VmmInv, NEW p \in Pids, status[p] = "running", NEW w, Becomes(w),
         Sound(w, space), Contents(w.mem, space, parent),
         \A z \in Pages : z[1] # p /\ At(mem, space, z) # 0 => At(w.mem, space, z) # 0,
         NEW new \in 1 .. 8, brk' = [brk EXCEPT ![p] = new],
         \A a \in BrkBase .. (new - 1) : At(w.mem, space, PageOf(p, a)) # 0 \/ a \in torn[p],
         UNCHANGED <<space, status, parent, torn>>
  PROVE  VmmInv'
<1>1. free' = w.free /\ mem' = w.mem /\ tabs' = w.tabs
  BY DEF Becomes
<1>2. brk \in [Pids -> 0 .. 8]
  BY DEF VmmInv, Processes
<1>3. brk' \in [Pids -> 0 .. 8] /\ \A q \in Pids : brk'[q] = IF q = p THEN new ELSE brk[q]
  BY <1>2
<1>4. Sound(Mem', space')
  <2>1. PICK x : x = Mem'
    OBVIOUS
  <2>2. x.free = w.free /\ x.mem = w.mem /\ x.tabs = w.tabs
    BY <1>1, <2>1 DEF Mem
  <2>3. Sound(x, space)
    BY <2>2, SoundFields
  <2> QED
    BY <2>1, <2>3
<1>5. Contents(mem', space', parent')
  BY <1>1
<1>6. HeapMapped(mem', space', status', brk', torn')
  <2>1. ASSUME NEW q \in Pids, status[q] = "running", NEW a \in BrkBase .. (BreakOf(brk', q) - 1)
        PROVE  At(w.mem, space, PageOf(q, a)) # 0 \/ a \in torn[q]
    <3>1. CASE q = p
      <4>1. BreakOf(brk', q) = new
        BY <1>3, <3>1 DEF BreakOf
      <4> QED
        BY <3>1, <4>1
    <3>2. CASE q # p
      <4>1. BreakOf(brk', q) = BreakOf(brk, q)
        BY <1>3, <3>2 DEF BreakOf
      <4>2. PageOf(q, a) \in Pages /\ PageOf(q, a)[1] = q
        BY <1>2, <4>1, HeapPages
      <4>3. At(mem, space, PageOf(q, a)) # 0 \/ a \in torn[q]
        BY <2>1, <4>1 DEF VmmInv, HeapMapped
      <4> QED
        BY <3>2, <4>2, <4>3
    <3> QED
      BY <3>1, <3>2
  <2> QED
    BY <1>1, <2>1 DEF HeapMapped
<1>7. Processes(space', status', brk', parent', torn')
  <2>1. \A q \in Pids : status[q] = "none" => brk'[q] = 0 /\ parent[q] = q
    BY <1>3 DEF VmmInv, Processes
  <2> QED
    BY <1>3, <2>1 DEF VmmInv, Processes
<1> QED
  BY <1>4, <1>5, <1>6, <1>7 DEF VmmInv

\* __Handle__Brk keeps the invariant.
LEMMA BrkKeepsInv ==
  ASSUME VmmInv, NEW p \in Pids, NEW want \in BrkWants, Brk(p, want)
  PROVE  VmmInv'
<1> DEFINE cur == BrkCur(p)
           pml4 == space[p].pml4
<1>1. PICK w : /\ w = IF want > cur THEN VirtMapRangeZeroed(Mem, pml4, cur, want - cur)
                      ELSE UnmapRange(Mem, pml4, want, cur - want)
               /\ Becomes(w)
               /\ brk' = [brk EXCEPT ![p] = NewBrk(cur, want, w.ok)]
  BY DEF Brk
<1>2. status[p] = "running" /\ UNCHANGED <<space, status, parent, torn>>
  BY DEF Brk
<1>3. brk \in [Pids -> 0 .. 8]
  BY DEF VmmInv, Processes
<1>4. cur = BreakOf(brk, p)
  BY DEF BrkCur, BreakOf
<1>5. cur \in 1 .. 8 /\ want \in 1 .. 8 /\ BrkBase \in 1 .. 7
  BY <1>3, <1>4, HeapPages, VmmAssumption
<1>6. \A a \in BrkBase .. (cur - 1) : At(mem, space, PageOf(p, a)) # 0 \/ a \in torn[p]
  BY <1>2, <1>4 DEF VmmInv, HeapMapped
<1>7. \A a \in BrkBase .. (cur - 1) : PageOf(p, a) \in Pages
  BY <1>3, <1>4, HeapPages
<1> HIDE DEF cur
<1>8. CASE want > cur
  <2> DEFINE n == want - cur
             new == NewBrk(cur, want, w.ok)
  <2>1. w = VirtMapRangeZeroed(Mem, pml4, cur, n)
    BY <1>1, <1>8
  <2>2. cur \in UserPages /\ n \in Nat \ {0} /\ cur + n = want
    BY <1>5, <1>8 DEF UserPages
  <2> HIDE DEF n
  <2>3. cur + n <= 8
    BY <1>5, <2>2
  <2>4. /\ Grows(Mem, w, space, p, {0})
        /\ w.ok => \A a \in cur .. (cur + n - 1) : At(w.mem, space, PageOf(p, a)) # 0
    BY <2>1, <2>2, <2>3, InvMemory, RangeMapped
  <2>5. Sound(w, space) /\ w \in Works
    BY <2>4 DEF Grows
  <2>6. Contents(w.mem, space, parent)
    BY <2>4, InvMemory, OwnWords, GrowsKeepsContents DEF VmmInv
  <2>7. \A z \in Pages : At(mem, space, z) # 0 => At(w.mem, space, z) # 0
    BY <2>4, InvMemory DEF Grows
  <2>8. new \in {cur, want} /\ (w.ok => new = want) /\ (~w.ok => new = cur)
    BY DEF NewBrk
  <2>9. brk' = [brk EXCEPT ![p] = new]
    BY <1>1
  <2> HIDE DEF new
  <2>10. new \in 1 .. 8
    BY <1>5, <2>8
  <2>11. ASSUME NEW a \in BrkBase .. (new - 1)
         PROVE  At(w.mem, space, PageOf(p, a)) # 0 \/ a \in torn[p]
    <3>1. CASE a < cur
      <4>1. a \in BrkBase .. (cur - 1)
        BY <1>5, <2>10, <3>1
      <4> QED
        BY <1>6, <1>7, <2>7, <4>1
    <3>2. CASE ~(a < cur)
      <4>1. new # cur
        BY <1>5, <2>10, <3>2
      <4>2. w.ok /\ new = want
        BY <2>8, <4>1
      <4>3. a \in cur .. (cur + n - 1)
        BY <1>5, <2>2, <3>2, <4>2
      <4> QED
        BY <2>4, <4>2, <4>3
    <3> QED
      BY <3>1, <3>2
  <2> QED
    BY <1>1, <1>2, <2>5, <2>6, <2>7, <2>9, <2>10, <2>11, BreakMoves
<1>9. CASE ~(want > cur)
  <2> DEFINE n == cur - want
             C == RangeOf(p, want, n)
  <2>1. w = UnmapRange(Mem, pml4, want, n)
    BY <1>1, <1>9
  <2>2. want \in 0 .. 8 /\ n \in Nat /\ want + n <= 8
    BY <1>5, <1>9
  <2>3. \A z \in C : z[1] = p /\ z[3] >= want
    BY <2>2 DEF RangeOf, PageOf
  <2> HIDE DEF n
  <2>4. Shrinks(Mem, w, space, C)
    BY <2>1, <2>2, InvMemory, UnmapRangeShrinks
  <2> HIDE DEF C
  <2>5. Sound(w, space) /\ w.ok = TRUE
    BY <2>4 DEF Shrinks
  <2>6. Contents(w.mem, space, parent)
    BY <2>4, InvMemory, ShrinksKeepsContents DEF VmmInv
  <2>7. \A z \in Pages : z \notin C => At(w.mem, space, z) = At(mem, space, z)
    BY <2>4, InvMemory DEF Shrinks
  <2>8. \A z \in Pages : z[1] # p /\ At(mem, space, z) # 0 => At(w.mem, space, z) # 0
    BY <2>3, <2>7
  <2>9. brk' = [brk EXCEPT ![p] = want]
    BY <1>1, <2>5 DEF NewBrk
  <2>10. ASSUME NEW a \in BrkBase .. (want - 1)
         PROVE  At(w.mem, space, PageOf(p, a)) # 0 \/ a \in torn[p]
    <3>1. a \in BrkBase .. (cur - 1) /\ ~(a >= want)
      BY <1>5, <1>9
    <3>2. PageOf(p, a) \in Pages /\ PageOf(p, a)[3] = a
      BY <1>7, <3>1 DEF PageOf
    <3>3. PageOf(p, a) \notin C
      BY <2>3, <3>1, <3>2
    <3> QED
      BY <1>6, <2>7, <3>1, <3>2, <3>3
  <2>11. Becomes(w) /\ Sound(w, space) /\ want \in 1 .. 8
    BY <1>1, <1>5, <2>5
  <2> QED
    BY <1>2, <2>6, <2>8, <2>9, <2>10, <2>11, BreakMoves
<1> QED
  BY <1>8, <1>9

\* A store writes to a page of the process.
LEMMA StoreExpands ==
  ASSUME VmmInv, NEW p \in Pids, NEW va \in StorePages, Store(p, va)
  PROVE  Expands(p)
<1> DEFINE z == PageOf(p, va)
           f == At(mem, space, z)
           w == [free |-> free, mem |-> [h \in Frames |-> IF h \in {f} THEN Page(p) ELSE mem[h]],
                 tabs |-> tabs, ok |-> TRUE]
           m == Done(Mem)
<1>1. va \in UserPages /\ z \in Pages /\ z[1] = p
  <2>1. va \in UserPages
    BY VmmAssumption DEF UserPages
  <2> QED
    BY <2>1, AddressPlaces DEF PageOf
<1>2. GetPhysicalAddress(Mem, space[p].pml4, va) = f
  BY <1>1, InvMemory, PhysicalAddress
<1>3. mem' = [mem EXCEPT ![f] = Page(p)] /\ UNCHANGED <<free, tabs, space, status, brk, parent, torn>>
  BY <1>2 DEF Store
<1>4. mem \in Mems /\ free \in SUBSET Frames /\ tabs \in SUBSET Frames
  BY InvMemory, SoundTypes
<1>5. p \in Words
  BY DEF Words
<1>6. /\ m \in Works /\ m.free = free /\ m.mem = mem /\ m.tabs = tabs
  BY <1>4, InvMemory, DoneFields
<1>7. Sound(m, space)
  BY <1>6, InvMemory, SoundFields
<1>8. \A h \in {f} \ {0} : \E y \in Pages : y[1] = p /\ At(m.mem, space, y) = h
  BY <1>1, <1>6
<1> HIDE DEF f, z, m
<1>9. mem' = w.mem /\ w.mem \in Mems
  <2>1. Page(p) \in [Idx -> Words]
    BY <1>5 DEF Page
  <2> QED
    BY <1>3, <1>4, <2>1 DEF Mems
<1>10. w \in Works /\ w.free = m.free /\ w.tabs = m.tabs
  BY <1>4, <1>6, <1>9 DEF Works
<1>11. w.mem = [h \in Frames |-> IF h \in {f} THEN Page(p) ELSE m.mem[h]]
  BY <1>6
<1>12. Becomes(w)
  BY <1>3, <1>9 DEF Becomes
<1> HIDE DEF w
<1>13. Grows(m, w, space, p, {p})
  BY <1>5, <1>6, <1>7, <1>8, <1>10, <1>11, PagesStamped
<1>14. Grows(Mem, w, space, p, {p})
  BY <1>6, <1>13, InvMemory DEF Grows
<1>15. {p} \subseteq Own(parent, p)
  BY OwnWords
<1> QED
  BY <1>3, <1>12, <1>14, <1>15, GrowsMore DEF Expands

\* PosixExit keeps the invariant.
LEMMA ExitKeepsInv ==
  ASSUME VmmInv, NEW p \in Pids, PosixExit(p)
  PROVE  VmmInv'
<1>1. /\ status[p] = "running" /\ status' = [status EXCEPT ![p] = "zombie"]
      /\ UNCHANGED <<free, mem, tabs, space, brk, parent, torn>>
  BY DEF PosixExit
<1>2. status \in [Pids -> {"none", "running", "zombie", "gone"}]
  BY DEF VmmInv, Processes
<1>3. /\ status' \in [Pids -> {"none", "running", "zombie", "gone"}]
      /\ \A q \in Pids : status'[q] = IF q = p THEN "zombie" ELSE status[q]
  BY <1>1, <1>2
<1>4. Mem' = Mem
  BY <1>1 DEF Mem
<1>5. Sound(Mem', space') /\ Contents(mem', space', parent')
  BY <1>1, <1>4 DEF VmmInv
<1>6. HeapMapped(mem', space', status', brk', torn')
  BY <1>1, <1>3 DEF VmmInv, HeapMapped
<1>7. Processes(space', status', brk', parent', torn')
  <2>1. Processes(space, status', brk, parent, torn)
    BY <1>1, <1>3 DEF VmmInv, Processes
  <2> QED
    BY <1>1, <2>1
<1> QED
  BY <1>5, <1>6, <1>7 DEF VmmInv

\* A space made for a process that has none reaches no pages.
LEMMA SpaceMade ==
  ASSUME VmmInv, NEW c \in Pids, status[c] = "none", NEW s, s = CreateVirtualSpace(Mem), s # NoSpace,
         NEW w, w = WithSpace(Mem, s), NEW sp2, sp2 = Given(space, c, s)
  PROVE  /\ w \in Works /\ Sound(w, sp2)
         /\ \A z \in Pages : At(w.mem, sp2, z) = At(mem, space, z)
         /\ \A z \in Pages : z[1] = c => At(mem, space, z) = 0
         /\ \A z \in Pages : At(mem, space, z) # 0 =>
               w.mem[At(mem, space, z)] = mem[At(mem, space, z)]
         /\ \A q \in Pids : sp2[q] = IF q = c THEN s ELSE space[q]
<1>1. /\ Mem \in Memories /\ Mem.mem = mem /\ Mem.free = free /\ Mem.tabs = tabs /\ Sound(Mem, space)
      /\ space[c] = NoSpace /\ space \in [Pids -> Spaces] /\ Mem.free \subseteq Frames
  BY InvMemory DEF VmmInv, Processes, Sound
<1>2. s \in Spaces /\ s.node \in Mem.free /\ s.pml4 \in Mem.free /\ s.node # s.pml4
  BY <1>1, CreatedFromFree
<1>3. /\ w \in Works /\ Sound(w, sp2)
      /\ \A z \in Pages : At(w.mem, sp2, z) = At(mem, space, z)
      /\ \A h \in Frames \ (Mem.free \cup Mem.tabs) : w.mem[h] = mem[h]
  <2>1. /\ w \in Works /\ w.ok /\ Sound(w, sp2)
        /\ \A z \in Pages : At(w.mem, sp2, z) = At(Mem.mem, space, z)
        /\ \A h \in Frames \ (Mem.free \cup Mem.tabs) : w.mem[h] = Mem.mem[h]
    BY <1>1, <1>2, SpaceCreated
  <2> QED
    BY <1>1, <2>1
<1>4. ASSUME NEW z \in Pages, z[1] = c PROVE At(mem, space, z) = 0
  <2>1. z \in Places
    BY DEF Pages
  <2> QED
    BY <1>1, <1>4, <2>1, NoSpaceReachesNothing
<1>5. ASSUME NEW z \in Pages, At(mem, space, z) # 0
      PROVE  w.mem[At(mem, space, z)] = mem[At(mem, space, z)]
  <2>1. z \in Places /\ z \notin Tables
    BY DEF Pages, Tables
  <2>2. At(mem, space, z) \in Frames \ (Mem.free \cup Mem.tabs)
    BY <1>1, <1>5, <2>1, Reached
  <2> QED
    BY <1>3, <2>2
<1>6. \A q \in Pids : sp2[q] = IF q = c THEN s ELSE space[q]
  BY <1>1 DEF Given
<1> QED
  BY <1>3, <1>4, <1>5, <1>6

\* PosixProcCreate keeps the invariant.
LEMMA CreateKeepsInv ==
  ASSUME VmmInv, NEW p \in Pids, PosixProcCreate(p)
  PROVE  VmmInv'
<1>1. PICK s : s = CreateVirtualSpace(Mem)
  OBVIOUS
<1>2. PICK w : w = WithSpace(Mem, s)
  OBVIOUS
<1>3. /\ \A q \in Pids : status[q] = "none"
      /\ s # NoSpace
      /\ free' = w.free /\ mem' = w.mem /\ tabs' = w.tabs
      /\ space' = Given(space, p, s)
      /\ status' = [status EXCEPT ![p] = "running"]
      /\ UNCHANGED <<brk, parent, torn>>
  BY <1>1, <1>2 DEF PosixProcCreate, Becomes, Given
<1>4. PICK sp2 : sp2 = Given(space, p, s)
  OBVIOUS
<1>5. status[p] = "none"
  BY <1>3
<1>6. /\ w \in Works /\ Sound(w, sp2)
      /\ \A z \in Pages : At(w.mem, sp2, z) = At(mem, space, z)
      /\ \A z \in Pages : At(mem, space, z) # 0 => w.mem[At(mem, space, z)] = mem[At(mem, space, z)]
      /\ \A q \in Pids : sp2[q] = IF q = p THEN s ELSE space[q]
  <2>1. s # NoSpace
    BY <1>3
  <2> QED
    BY <1>1, <1>2, <1>4, <1>5, <2>1, SpaceMade
<1>7. space' = sp2
  BY <1>3, <1>4
<1>8. status \in [Pids -> {"none", "running", "zombie", "gone"}]
  BY DEF VmmInv, Processes
<1>9. /\ status' \in [Pids -> {"none", "running", "zombie", "gone"}]
      /\ \A q \in Pids : status'[q] = IF q = p THEN "running" ELSE "none"
  BY <1>3, <1>8
<1>10. Sound(Mem', space')
  <2>1. PICK x : x = Mem'
    OBVIOUS
  <2>2. x.free = w.free /\ x.mem = w.mem /\ x.tabs = w.tabs
    BY <1>3, <2>1 DEF Mem
  <2>3. Sound(x, sp2)
    BY <1>6, <2>2, SoundFields
  <2> QED
    BY <1>7, <2>1, <2>3
<1>11. Contents(mem', space', parent')
  <2>1. Contents(w.mem, sp2, parent)
    BY <1>6 DEF VmmInv, Contents
  <2> QED
    BY <1>3, <1>7, <2>1
<1>12. HeapMapped(mem', space', status', brk', torn')
  <2>1. ASSUME NEW q \in Pids, status'[q] = "running", NEW a \in BrkBase .. (BreakOf(brk, q) - 1)
        PROVE  FALSE
    <3>1. brk[q] = 0
      BY <1>3 DEF VmmInv, Processes
    <3>2. BreakOf(brk, q) = BrkBase /\ BrkBase \in 1 .. 7
      BY <3>1, VmmAssumption DEF BreakOf
    <3> QED
      BY <3>2
  <2> QED
    BY <1>3, <2>1 DEF HeapMapped
<1>13. Processes(space', status', brk', parent', torn')
  <2>1. \A q \in Pids : space[q] = NoSpace /\ brk[q] = 0 /\ parent[q] = q
    BY <1>3 DEF VmmInv, Processes
  <2>2. Processes(sp2, status', brk, parent, torn)
    BY <1>3, <1>6, <1>9, <2>1 DEF VmmInv, Processes
  <2> QED
    BY <1>3, <1>7, <2>2
<1> QED
  BY <1>10, <1>11, <1>12, <1>13 DEF VmmInv

\* PosixWait4 keeps the invariant.
LEMMA WaitKeepsInv ==
  ASSUME VmmInv, NEW p \in Pids, NEW c \in Pids, PosixWait4(p, c)
  PROVE  VmmInv'
<1>1. PICK w : w = DestroyVirtualSpace(Mem, space[c])
  OBVIOUS
<1>2. /\ status[c] = "zombie"
      /\ free' = w.free /\ mem' = w.mem /\ tabs' = w.tabs
      /\ space' = Given(space, c, NoSpace)
      /\ status' = [status EXCEPT ![c] = "gone"]
      /\ UNCHANGED <<brk, parent, torn>>
  BY <1>1 DEF PosixWait4, Becomes, Given
<1>3. PICK sp2 : sp2 = Given(space, c, NoSpace)
  OBVIOUS
<1>4. /\ Sound(Mem, space) /\ Mem.mem = mem /\ space[c] # NoSpace
      /\ space \in [Pids -> Spaces]
  BY <1>2, InvMemory DEF VmmInv, Processes, Sound
<1>5. /\ Sound(w, sp2) /\ w.mem = mem
      /\ \A z \in Places : At(mem, sp2, z) = IF z[1] = c THEN 0 ELSE At(mem, space, z)
  <2>1. /\ Sound(w, sp2) /\ w.mem = Mem.mem
        /\ \A z \in Places : At(Mem.mem, sp2, z) = IF z[1] = c THEN 0 ELSE At(Mem.mem, space, z)
    BY <1>1, <1>3, <1>4, SpaceDestroyed
  <2> QED
    BY <1>4, <2>1
<1>6. space' = sp2 /\ mem' = mem
  BY <1>2, <1>3, <1>5
<1>7. status \in [Pids -> {"none", "running", "zombie", "gone"}]
  BY DEF VmmInv, Processes
<1>8. /\ status' \in [Pids -> {"none", "running", "zombie", "gone"}]
      /\ \A q \in Pids : status'[q] = IF q = c THEN "gone" ELSE status[q]
      /\ \A q \in Pids : sp2[q] = IF q = c THEN NoSpace ELSE space[q]
  BY <1>2, <1>3, <1>4, <1>7 DEF Given
<1>9. \A z \in Pages : z \in Places
  BY DEF Pages
<1>10. Sound(Mem', space')
  <2>1. PICK x : x = Mem'
    OBVIOUS
  <2>2. x.free = w.free /\ x.mem = w.mem /\ x.tabs = w.tabs
    BY <1>2, <2>1 DEF Mem
  <2>3. Sound(x, sp2)
    BY <1>5, <2>2, SoundFields
  <2> QED
    BY <1>6, <2>1, <2>3
<1>11. Contents(mem', space', parent')
  <2>1. Contents(mem, sp2, parent)
    BY <1>5, <1>9 DEF VmmInv, Contents
  <2> QED
    BY <1>2, <1>6, <2>1
<1>12. HeapMapped(mem', space', status', brk', torn')
  <2>1. ASSUME NEW q \in Pids, status'[q] = "running", NEW a \in BrkBase .. (BreakOf(brk, q) - 1)
        PROVE  At(mem, sp2, PageOf(q, a)) # 0 \/ a \in torn[q]
    <3>1. q # c /\ status[q] = "running"
      BY <1>8, <2>1
    <3>2. PageOf(q, a) \in Pages /\ PageOf(q, a)[1] = q
      BY HeapPages DEF VmmInv, Processes
    <3>3. At(mem, sp2, PageOf(q, a)) = At(mem, space, PageOf(q, a))
      BY <1>5, <1>9, <3>1, <3>2
    <3> QED
      BY <3>1, <3>3 DEF VmmInv, HeapMapped
  <2> QED
    BY <1>2, <1>6, <2>1 DEF HeapMapped
<1>13. Processes(space', status', brk', parent', torn')
  <2>1. Processes(sp2, status', brk, parent, torn)
    BY <1>2, <1>8 DEF VmmInv, Processes
  <2> QED
    BY <1>2, <1>6, <2>1
<1> QED
  BY <1>10, <1>11, <1>12, <1>13 DEF VmmInv

\* Whoever has a space was made, and a fork changes no one else's ancestors.
LEMMA ForkedAncestors ==
  ASSUME VmmInv, NEW p \in Pids, NEW c \in Pids, status[p] # "none", status[c] = "none",
         NEW par2, par2 = Given(parent, c, p)
  PROVE  /\ par2 \in [Pids -> Pids]
         /\ \A q \in Pids : par2[q] = IF q = c THEN p ELSE parent[q]
         /\ \A q \in Pids : status[q] # "none" => Own(par2, q) = Own(parent, q)
         /\ Own(parent, p) \subseteq Own(par2, c)
<1> DEFINE A == {q \in Pids : status[q] # "none"}
<1>1. parent \in [Pids -> Pids]
  BY DEF VmmInv, Processes
<1>2. par2 \in [Pids -> Pids] /\ \A q \in Pids : par2[q] = IF q = c THEN p ELSE parent[q]
  BY <1>1 DEF Given
<1>3. A \in SUBSET Pids /\ \A q \in A : parent[q] \in A /\ par2[q] = parent[q]
  BY <1>1, <1>2 DEF VmmInv, Processes
<1>4. NumPids \in 0 .. NumPids
  BY PidsFinite
<1>5. ASSUME NEW q \in Pids, status[q] # "none" PROVE Chain(par2, q)[NumPids] = Chain(parent, q)[NumPids]
  <2>1. q \in A
    BY <1>5
  <2> HIDE DEF A
  <2>2. \A n \in 0 .. NumPids : Chain(par2, q)[n] = Chain(parent, q)[n]
    BY <1>1, <1>2, <1>3, <2>1, ChainOfOthers
  <2> QED
    BY <1>4, <2>2
<1>6. Chain(par2, p)[NumPids] \subseteq Chain(par2, c)[NumPids]
  <2>1. par2[c] = p
    BY <1>2
  <2> QED
    BY <1>2, <2>1, ChainOfChild
<1>7. Chain(parent, p)[NumPids] \subseteq Chain(par2, c)[NumPids]
  BY <1>5, <1>6
<1> QED
  BY <1>2, <1>5, <1>7 DEF Own

\* The walk over the parent's tables, or a child without a thread: the new
\* space gets nothing but pages with what the parent's hold.
LEMMA ForkGrows ==
  ASSUME VmmInv, NEW p \in Pids, NEW c \in Pids, PosixFork(p, c),
         NEW s, s = CreateVirtualSpace(Mem), NEW v, v = WithSpace(Mem, s),
         NEW sp2, sp2 = Given(space, c, s)
  PROVE  \E w : /\ Becomes(w)
                /\ Grows(v, w, sp2, c, Own(parent, p))
                /\ status' = [status EXCEPT ![c] = IF w.ok THEN "running" ELSE "zombie"]
<1>1. status[p] = "running" /\ status[c] = "none" /\ s # NoSpace
  BY DEF PosixFork
<1>2. p # c
  BY <1>1
<1>3. /\ v \in Works /\ Sound(v, sp2)
      /\ \A z \in Pages : At(v.mem, sp2, z) = At(mem, space, z)
      /\ \A z \in Pages : At(mem, space, z) # 0 => v.mem[At(mem, space, z)] = mem[At(mem, space, z)]
      /\ \A q \in Pids : sp2[q] = IF q = c THEN s ELSE space[q]
  BY <1>1, SpaceMade
<1>4. sp2[p] = space[p] /\ sp2[c] = s
  BY <1>2, <1>3
<1> DEFINE Copied(thread) == IF thread THEN CopyPages(v, space[p].pml4, s.pml4) ELSE Failed(v)
<1>5. PICK thread \in BOOLEAN :
         /\ Becomes(Copied(thread))
         /\ status' = [status EXCEPT ![c] = IF Copied(thread).ok THEN "running" ELSE "zombie"]
  BY DEF PosixFork
<1>6. PICK w : w = Copied(thread)
  OBVIOUS
<1>7. /\ w = IF thread THEN CopyPages(v, space[p].pml4, s.pml4) ELSE Failed(v)
      /\ Becomes(w)
      /\ status' = [status EXCEPT ![c] = IF w.ok THEN "running" ELSE "zombie"]
  BY <1>5, <1>6
<1>8. CASE thread
  <2>1. w = CopyPages(v, sp2[p].pml4, sp2[c].pml4)
    BY <1>4, <1>7, <1>8
  <2>2. ASSUME NEW z \in Pages, z[1] = p, At(v.mem, sp2, z) # 0, NEW i \in Idx
        PROVE  v.mem[At(v.mem, sp2, z)][i] \in Own(parent, p)
    <3>1. At(v.mem, sp2, z) = At(mem, space, z) /\ v.mem[At(v.mem, sp2, z)] = mem[At(mem, space, z)]
      BY <1>3, <2>2
    <3> QED
      BY <2>2, <3>1 DEF VmmInv, Contents
  <2>3. Grows(v, w, sp2, c, Own(parent, p))
    BY <1>2, <1>3, <2>1, <2>2, CopyPagesGrows
  <2> QED
    BY <1>7, <2>3
<1>9. CASE ~thread
  <2>1. w = Failed(v)
    BY <1>7, <1>9
  <2>2. w \in Works /\ w.free = v.free /\ w.mem = v.mem /\ w.tabs = v.tabs
    BY <1>3, <2>1, DoneFields DEF Works
  <2>3. Grows(v, w, sp2, c, Own(parent, p))
    BY <1>3, <2>2, GrowsSame
  <2> QED
    BY <1>7, <2>3
<1> QED
  BY <1>8, <1>9

\* PosixFork keeps the invariant.
LEMMA ForkKeepsInv ==
  ASSUME VmmInv, NEW p \in Pids, NEW c \in Pids, PosixFork(p, c)
  PROVE  VmmInv'
<1>1. PICK s : s = CreateVirtualSpace(Mem)
  OBVIOUS
<1>2. PICK v : v = WithSpace(Mem, s)
  OBVIOUS
<1>3. PICK sp2 : sp2 = Given(space, c, s)
  OBVIOUS
<1>4. PICK par2 : par2 = Given(parent, c, p)
  OBVIOUS
<1>5. /\ status[p] = "running" /\ status[c] = "none" /\ s # NoSpace
      /\ space' = sp2 /\ parent' = par2 /\ brk' = brk /\ torn' = torn
  BY <1>1, <1>3, <1>4 DEF PosixFork, Given
<1>6. PICK w : /\ Becomes(w)
               /\ Grows(v, w, sp2, c, Own(parent, p))
               /\ status' = [status EXCEPT ![c] = IF w.ok THEN "running" ELSE "zombie"]
  BY <1>1, <1>2, <1>3, ForkGrows
<1>7. /\ Sound(v, sp2)
      /\ \A z \in Pages : At(v.mem, sp2, z) = At(mem, space, z)
      /\ \A z \in Pages : z[1] = c => At(mem, space, z) = 0
      /\ \A z \in Pages : At(mem, space, z) # 0 => v.mem[At(mem, space, z)] = mem[At(mem, space, z)]
      /\ \A q \in Pids : sp2[q] = IF q = c THEN s ELSE space[q]
  BY <1>1, <1>2, <1>3, <1>5, SpaceMade
<1>8. /\ par2 \in [Pids -> Pids]
      /\ \A q \in Pids : par2[q] = IF q = c THEN p ELSE parent[q]
      /\ \A q \in Pids : status[q] # "none" => Own(par2, q) = Own(parent, q)
      /\ Own(parent, p) \subseteq Own(par2, c)
  <2>1. status[p] # "none"
    BY <1>5
  <2> QED
    BY <1>4, <1>5, <2>1, ForkedAncestors
<1>9. free' = w.free /\ mem' = w.mem /\ tabs' = w.tabs
  BY <1>6 DEF Becomes
<1>10. /\ status \in [Pids -> {"none", "running", "zombie", "gone"}]
       /\ brk \in [Pids -> 0 .. 8] /\ space \in [Pids -> Spaces]
  BY DEF VmmInv, Processes, Sound
<1>11. /\ status' \in [Pids -> {"none", "running", "zombie", "gone"}]
       /\ status'[c] \in {"running", "zombie"}
       /\ \A q \in Pids : q # c => status'[q] = status[q]
  BY <1>6, <1>10
<1>12. Sound(Mem', space')
  <2>1. PICK x : x = Mem'
    OBVIOUS
  <2>2. x.free = w.free /\ x.mem = w.mem /\ x.tabs = w.tabs
    BY <1>9, <2>1 DEF Mem
  <2>3. Sound(w, sp2)
    BY <1>6 DEF Grows
  <2>4. Sound(x, sp2)
    BY <2>2, <2>3, SoundFields
  <2> QED
    BY <1>5, <2>1, <2>4
<1>13. Contents(mem', space', parent')
  <2>1. Contents(v.mem, sp2, par2)
    <3> SUFFICES ASSUME NEW z \in Pages, At(v.mem, sp2, z) # 0, NEW i \in Idx
                 PROVE  v.mem[At(v.mem, sp2, z)][i] \in Own(par2, z[1])
      BY DEF Contents
    <3>1. At(v.mem, sp2, z) = At(mem, space, z) /\ v.mem[At(v.mem, sp2, z)] = mem[At(mem, space, z)]
      BY <1>7
    <3>2. mem[At(mem, space, z)][i] \in Own(parent, z[1])
      BY <3>1 DEF VmmInv, Contents
    <3>3. z \in Places /\ z[1] \in Pids
      BY PageAddress
    <3>4. space[z[1]] # NoSpace
      BY <3>1, <3>3, NoSpaceReachesNothing
    <3>5. status[z[1]] # "none"
      BY <3>3, <3>4 DEF VmmInv, Processes
    <3> QED
      BY <1>8, <3>1, <3>2, <3>3, <3>5
  <2>2. Contents(w.mem, sp2, par2)
    BY <1>6, <1>8, <2>1, GrowsKeepsContents
  <2> QED
    BY <1>5, <1>9, <2>2
<1>14. HeapMapped(mem', space', status', brk', torn')
  <2>1. HeapMapped(v.mem, sp2, status', brk, torn)
    <3> SUFFICES ASSUME NEW q \in Pids, status'[q] = "running", NEW a \in BrkBase .. (BreakOf(brk, q) - 1)
                 PROVE  At(v.mem, sp2, PageOf(q, a)) # 0 \/ a \in torn[q]
      BY DEF HeapMapped
    <3>1. CASE q = c
      <4>1. brk[c] = 0
        BY <1>5 DEF VmmInv, Processes
      <4>2. BreakOf(brk, q) = BrkBase /\ BrkBase \in 1 .. 7
        BY <3>1, <4>1, VmmAssumption DEF BreakOf
      <4> QED
        BY <4>2
    <3>2. CASE q # c
      <4>1. At(mem, space, PageOf(q, a)) # 0 \/ a \in torn[q]
        BY <1>11, <3>2 DEF VmmInv, HeapMapped
      <4>2. PageOf(q, a) \in Pages
        BY <1>10, HeapPages
      <4> QED
        BY <1>7, <4>1, <4>2
    <3> QED
      BY <3>1, <3>2
  <2>2. HeapMapped(w.mem, sp2, status', brk, torn)
    <3>1. PICK st : st = status'
      OBVIOUS
    <3>2. HeapMapped(w.mem, sp2, st, brk, torn)
      BY <1>6, <1>10, <2>1, <3>1, GrowsKeepsHeap
    <3> QED
      BY <3>1, <3>2
  <2> QED
    BY <1>5, <1>9, <2>2
<1>15. Processes(space', status', brk', parent', torn')
  <2>1. \A q \in Pids : sp2[q] # NoSpace <=> status'[q] \in {"running", "zombie"}
    BY <1>5, <1>7, <1>11 DEF VmmInv, Processes
  <2>2. \A q \in Pids : status'[q] = "none" => brk[q] = 0 /\ par2[q] = q
    BY <1>8, <1>11 DEF VmmInv, Processes
  <2>3. \A q \in Pids : status'[q] # "none" => status'[par2[q]] # "none"
    <3>1. \A q \in Pids : status[q] # "none" => status'[q] # "none"
      BY <1>5, <1>11
    <3>2. ASSUME NEW q \in Pids, status'[q] # "none" PROVE status'[par2[q]] # "none"
      <4>1. CASE q = c
        BY <1>5, <1>8, <3>1, <4>1
      <4>2. CASE q # c
        <5>1. status[q] # "none" /\ par2[q] = parent[q]
          BY <1>8, <1>11, <3>2, <4>2
        <5>2. parent[q] \in Pids /\ status[parent[q]] # "none"
          BY <5>1 DEF VmmInv, Processes
        <5> QED
          BY <3>1, <5>1, <5>2
      <4> QED
        BY <4>1, <4>2
    <3> QED
      BY <3>2
  <2>4. Processes(sp2, status', brk, par2, torn)
    BY <1>8, <1>10, <1>11, <2>1, <2>2, <2>3 DEF VmmInv, Processes
  <2> QED
    BY <1>5, <2>4
<1> QED
  BY <1>12, <1>13, <1>14, <1>15 DEF VmmInv

-----------------------------------------------------------------------------
(* The theorems *)

\* At the start there is no space and nothing but the kernel's two tables.
LEMMA InitInv == VmmInit => VmmInv
<1> SUFFICES ASSUME VmmInit PROVE VmmInv
  OBVIOUS
<1>1. /\ Mem.free = Frames \ {KernelPml4, KernelPdpt} /\ Mem.tabs = {KernelPml4, KernelPdpt}
      /\ Mem.mem = mem
      /\ mem = [f \in Frames |-> IF f = KernelPml4 THEN [i \in Idx |-> IF i = 1 THEN KernelPdpt ELSE 0]
                                 ELSE ZeroPage]
  BY DEF VmmInit, Mem
<1>2. space = [p \in Pids |-> NoSpace] /\ \A p \in Pids : space[p] = NoSpace
  BY DEF VmmInit
<1>3. mem \in Mems
  <2>1. KernelPdpt \in Words /\ 0 \in Words
    BY VmmAssumption DEF Words, Entry, KernelPdpt
  <2>2. ZeroPage \in [Idx -> Words]
    BY <2>1 DEF ZeroPage
  <2>3. [i \in Idx |-> IF i = 1 THEN KernelPdpt ELSE 0] \in [Idx -> Words]
    BY <2>1
  <2> QED
    BY <1>1, <2>2, <2>3 DEF Mems
<1>4. \A z \in Places : At(mem, space, z) = 0
  <2> TAKE z \in Places
  <2>1. space[z[1]] = NoSpace
    BY <1>2, PlaceParts
  <2> QED
    BY <2>1, NoSpaceReachesNothing
<1>5. Sound(Mem, space)
  <2>1. space \in [Pids -> Spaces]
    BY <1>2 DEF Spaces
  <2>2. {At(mem, space, z) : z \in Tables} \ {0} = {}
    BY <1>4 DEF Tables
  <2> QED
    BY <1>1, <1>3, <1>4, <2>1, <2>2 DEF Sound
<1>6. Contents(mem, space, parent)
  BY <1>4 DEF Contents, Pages
<1>7. HeapMapped(mem, space, status, brk, torn)
  BY DEF VmmInit, HeapMapped
<1>8. Processes(space, status, brk, parent, torn)
  BY DEF VmmInit, Processes
<1> QED
  BY <1>5, <1>6, <1>7, <1>8 DEF VmmInv

\* The invariant, until a load spills.
Intact == spilled \/ VmmInv

\* Every step that does not spill keeps the invariant.
LEMMA StepInv == VmmInv /\ [VmmNext]_vars /\ ~spilled' => VmmInv'
<1> SUFFICES ASSUME VmmInv, [VmmNext]_vars, ~spilled' PROVE VmmInv'
  OBVIOUS
<1>1. CASE UNCHANGED vars
  <2>1. /\ mem' = mem /\ space' = space /\ status' = status /\ brk' = brk /\ parent' = parent
        /\ torn' = torn /\ free' = free /\ tabs' = tabs
    BY <1>1 DEF vars
  <2>2. Mem' = Mem
    BY <2>1 DEF Mem
  <2> QED
    BY <2>1, <2>2 DEF VmmInv
<1>2. ASSUME NEW p \in Pids, PosixProcCreate(p) PROVE VmmInv'
  BY <1>2, CreateKeepsInv
<1>3. ASSUME NEW p \in Pids, PosixProcExecve(p) PROVE VmmInv'
  BY <1>3, ExecveExpands, ExpandsKeepsInv
<1>4. ASSUME NEW p \in Pids, PosixExit(p) PROVE VmmInv'
  BY <1>4, ExitKeepsInv
<1>5. ASSUME NEW p \in Pids, NEW va \in MmapPages, NEW n \in 1 .. MaxLen, Mmap(p, va, n) PROVE VmmInv'
  BY <1>5, MmapExpands, ExpandsKeepsInv
<1>6. ASSUME NEW p \in Pids, NEW va \in MunmapPages, NEW n \in 1 .. MaxLen, Munmap(p, va, n) PROVE VmmInv'
  BY <1>6, MunmapKeepsInv
<1>7. ASSUME NEW p \in Pids, NEW want \in BrkWants, Brk(p, want) PROVE VmmInv'
  BY <1>7, BrkKeepsInv
<1>8. ASSUME NEW p \in Pids, NEW va \in StorePages, Store(p, va) PROVE VmmInv'
  BY <1>8, StoreExpands, ExpandsKeepsInv
<1>9. ASSUME NEW p \in Pids, NEW c \in Pids, PosixFork(p, c) PROVE VmmInv'
  BY <1>9, ForkKeepsInv
<1>10. ASSUME NEW p \in Pids, NEW c \in Pids, PosixWait4(p, c) PROVE VmmInv'
  BY <1>10, WaitKeepsInv
<1> QED
  BY <1>1, <1>2, <1>3, <1>4, <1>5, <1>6, <1>7, <1>8, <1>9, <1>10 DEF VmmNext

\* The inductive invariant: whatever a space reaches it reaches in one place
\* and it is not free, the tables handed out are those the spaces reach, and
\* the pages hold what their process and its ancestors put there. A load that
\* spills ends it (Elf64Load).
THEOREM VmmInvariant == VmmSpec => []Intact
<1>1. VmmInit => Intact
  BY InitInv DEF Intact
<1>2. Intact /\ [VmmNext]_vars => Intact'
  <2> SUFFICES ASSUME Intact, [VmmNext]_vars, ~spilled' PROVE VmmInv'
    BY DEF Intact
  <2>1. ~spilled
    BY DEF VmmNext, vars
  <2> QED
    BY <2>1, StepInv DEF Intact
<1> QED
  BY <1>1, <1>2, PTL DEF VmmSpec

\* Only an executable with a segment that starts inside a page spills
\* (Elf64Load): with aligned segments all that is said of spilled \/ ... holds
\* without the exception.
THEOREM AlignedSegmentsSpillNothing ==
  ASSUME \A k \in 1 .. Len(Image) : Image[k][1] % 2 = 0
  PROVE  VmmSpec => []~spilled
<1>1. VmmInit => ~spilled
  BY DEF VmmInit
<1>2. ASSUME NEW p, NEW n PROVE ~LoadSpills(Mem, p, n)
  BY DEF LoadSpills, Spills, Unaligned
<1>3. ~spilled /\ [VmmNext]_vars => ~spilled'
  <2> SUFFICES ASSUME ~spilled, [VmmNext]_vars PROVE ~spilled'
    OBVIOUS
  <2>1. CASE UNCHANGED vars
    BY <2>1 DEF vars
  <2>2. ASSUME NEW p \in Pids, PosixProcExecve(p) PROVE ~spilled'
    BY <1>2, <2>2, Zenon DEF PosixProcExecve
  <2>3. ASSUME NEW p \in Pids,
               \/ PosixProcCreate(p)
               \/ PosixExit(p)
               \/ \E va \in MmapPages, n \in 1 .. MaxLen : Mmap(p, va, n)
               \/ \E va \in MunmapPages, n \in 1 .. MaxLen : Munmap(p, va, n)
               \/ \E want \in BrkWants : Brk(p, want)
               \/ \E va \in StorePages : Store(p, va)
               \/ \E c \in Pids : PosixFork(p, c) \/ PosixWait4(p, c)
        PROVE  spilled' = spilled
    BY <2>3, Zenon DEF PosixProcCreate, PosixExit, Mmap, Munmap, Brk, Store, PosixFork, PosixWait4
  <2> QED
    BY <2>1, <2>2, <2>3, Zenon DEF VmmNext
<1> QED
  BY <1>1, <1>3, PTL DEF VmmSpec

\* What GetPhysicalAddress answers is the frame at the page's place.
LEMMA LeafPlace ==
  ASSUME NEW p \in Pids, NEW va \in UserPages
  PROVE  Leaf(p, va) = At(mem, space, PageOf(p, va)) /\ PageOf(p, va) \in Pages /\ PageOf(p, va) \in Places
<1>1. Mem.mem = mem
  BY DEF Mem
<1>2. GetPhysicalAddress(Mem, space[p].pml4, va) = At(Mem.mem, space, PageOf(p, va))
  BY PhysicalAddress
<1> QED
  BY <1>1, <1>2, AddressPlaces DEF Leaf

\* The tables of a space are the frames at its places above the pages.
LEMMA TablePlaces ==
  ASSUME VmmInv, NEW p \in Live
  PROVE  TablesOf(Mem, space[p]) = {At(mem, space, z) : z \in {y \in Tables : y[1] = p}} \ {0}
<1>1. p \in Pids /\ space[p] # NoSpace
  BY DEF Live
<1>2. TablesOf(Mem, space[p]) = {At(Mem.mem, space, z) : z \in {y \in Tables : y[1] = p}} \ {0}
  BY <1>1, InvMemory, TablesOfReached
<1> QED
  BY <1>2, InvMemory

\* Two uses of a frame are one.
LEMMA OneOwner == Intact => FramesOwnedOnce
<1> SUFFICES ASSUME VmmInv PROVE FramesOwnedOnce
  BY DEF Intact, FramesOwnedOnce
<1>1. /\ \A y, z \in Places : At(mem, space, y) # 0 /\ At(mem, space, y) = At(mem, space, z) => y = z
      /\ \A z \in Places : At(mem, space, z) # 0 =>
            At(mem, space, z) \notin free \cup {KernelPml4, KernelPdpt}
  BY InvMemory DEF Sound
<1>2. \A z \in Tables : z \in Places
  BY DEF Tables
<1>3. ASSUME NEW p \in Live, NEW f \in TablesOf(Mem, space[p])
      PROVE  \E z \in Tables : z[1] = p /\ f = At(mem, space, z) /\ f # 0
  BY <1>3, TablePlaces
<1>4. ASSUME NEW x \in Mapped
      PROVE  /\ x = <<x[1], x[2]>> /\ PageOf(x[1], x[2]) \in Places /\ PageOf(x[1], x[2]) \notin Tables
             /\ Leaf(x[1], x[2]) = At(mem, space, PageOf(x[1], x[2])) /\ Leaf(x[1], x[2]) # 0
  <2>1. x = <<x[1], x[2]>> /\ x[1] \in Pids /\ x[2] \in UserPages /\ Leaf(x[1], x[2]) # 0
    BY DEF Mapped, Live
  <2>2. PageOf(x[1], x[2]) \notin Tables
    BY DEF PageOf, Tables
  <2> QED
    BY <2>1, <2>2, LeafPlace
<1>5. ASSUME NEW p \in Live, NEW q \in Live, p # q
      PROVE  TablesOf(Mem, space[p]) \cap TablesOf(Mem, space[q]) = {}
  <2> SUFFICES ASSUME NEW f \in TablesOf(Mem, space[p]), f \in TablesOf(Mem, space[q]) PROVE FALSE
    OBVIOUS
  <2>1. PICK y \in Tables : y[1] = p /\ f = At(mem, space, y) /\ f # 0
    BY <1>3
  <2>2. PICK z \in Tables : z[1] = q /\ f = At(mem, space, z)
    BY <1>3
  <2> QED
    BY <1>1, <1>2, <1>5, <2>1, <2>2
<1>6. ASSUME NEW x \in Mapped, NEW y \in Mapped, x # y
      PROVE  Leaf(x[1], x[2]) # Leaf(y[1], y[2])
  <2>1. PageOf(x[1], x[2]) # PageOf(y[1], y[2])
    <3>1. x = <<x[1], x[2]>> /\ y = <<y[1], y[2]>>
      BY <1>4
    <3>2. x[1] # y[1] \/ x[2] # y[2]
      BY <1>6, <3>1
    <3> QED
      BY <3>2 DEF PageOf
  <2> QED
    BY <1>1, <1>4, <2>1
<1>7. ASSUME NEW f \in LeafFrames
      PROVE  /\ f \notin free \cup {KernelPml4, KernelPdpt}
             /\ \E z \in Places : z \notin Tables /\ f = At(mem, space, z) /\ f # 0
  <2>1. PICK x \in Mapped : f = Leaf(x[1], x[2])
    BY DEF LeafFrames
  <2> QED
    BY <1>1, <1>4, <2>1
<1>8. ASSUME NEW p \in Live PROVE TablesOf(Mem, space[p]) \cap (LeafFrames \cup free) = {}
  <2> SUFFICES ASSUME NEW f \in TablesOf(Mem, space[p]), f \in LeafFrames \cup free PROVE FALSE
    OBVIOUS
  <2>1. PICK y \in Tables : y[1] = p /\ f = At(mem, space, y) /\ f # 0
    BY <1>3
  <2>2. f \notin free
    BY <1>1, <1>2, <2>1
  <2>3. PICK z \in Places : z \notin Tables /\ f = At(mem, space, z)
    BY <1>7, <2>2
  <2> QED
    BY <1>1, <1>2, <2>1, <2>3
<1>9. LeafFrames \cap (free \cup {KernelPml4, KernelPdpt}) = {}
  BY <1>7
<1> QED
  BY <1>5, <1>6, <1>8, <1>9 DEF FramesOwnedOnce

\* FramesOwnedOnce: no frame is used for two things at once, and none that a
\* space reaches is free (GetPageTable, MapPage, DestroyVirtualSpace).
THEOREM EachFrameHasOneOwner == VmmSpec => []FramesOwnedOnce
<1>1. Intact => FramesOwnedOnce
  BY OneOwner
<1> QED
  BY <1>1, VmmInvariant, PTL

\* The tables handed out are those of the spaces and the kernel's.
LEMMA TablesFound == Intact => NoTableLost
<1> SUFFICES ASSUME VmmInv PROVE NoTableLost
  BY DEF Intact, NoTableLost
<1> DEFINE U == UNION {TablesOf(Mem, space[p]) : p \in Live}
<1>1. tabs = {KernelPml4, KernelPdpt} \cup ({At(mem, space, z) : z \in Tables} \ {0})
  BY InvMemory DEF Sound
<1>2. ASSUME NEW z \in Tables, At(mem, space, z) # 0 PROVE At(mem, space, z) \in U
  <2>1. z \in Places /\ z[1] \in Pids
    BY PlaceParts DEF Tables
  <2>2. z[1] \in Live
    BY <1>2, <2>1, NoSpaceReachesNothing DEF Live
  <2>3. At(mem, space, z) \in TablesOf(Mem, space[z[1]])
    BY <1>2, <2>2, TablePlaces
  <2> QED
    BY <2>2, <2>3
<1>3. ASSUME NEW f \in U PROVE f \in {At(mem, space, z) : z \in Tables} \ {0}
  <2>1. PICK p \in Live : f \in TablesOf(Mem, space[p])
    OBVIOUS
  <2> QED
    BY <2>1, TablePlaces
<1>4. U = {At(mem, space, z) : z \in Tables} \ {0}
  <2> HIDE DEF U
  <2> QED
    BY <1>2, <1>3
<1> QED
  BY <1>1, <1>4 DEF NoTableLost

\* NoTableLost: reaping gives every page table back (DestroyVirtualSpace).
THEOREM EveryTableIsFound == VmmSpec => []NoTableLost
<1>1. Intact => NoTableLost
  BY TablesFound
<1> QED
  BY <1>1, VmmInvariant, PTL

\* The contents of the invariant, in the words of the property.
LEMMA ContentsPrivate == Intact => PagesArePrivate
<1> SUFFICES ASSUME VmmInv, NEW x \in Mapped, NEW i \in Idx
             PROVE  mem[Leaf(x[1], x[2])][i] \in {0} \cup Ancestors(x[1])
  BY DEF Intact, PagesArePrivate
<1>1. x[1] \in Pids /\ x[2] \in UserPages /\ Leaf(x[1], x[2]) # 0
  BY DEF Mapped, Live
<1>2. /\ Leaf(x[1], x[2]) = At(mem, space, PageOf(x[1], x[2]))
      /\ PageOf(x[1], x[2]) \in Pages /\ PageOf(x[1], x[2])[1] = x[1]
  BY <1>1, LeafPlace DEF PageOf
<1>3. mem[Leaf(x[1], x[2])][i] \in Own(parent, x[1])
  BY <1>1, <1>2 DEF VmmInv, Contents
<1>4. Ancestors(x[1]) = Chain(parent, x[1])[NumPids]
  BY AncestorsChain
<1> QED
  BY <1>3, <1>4 DEF Own

\* PagesArePrivate: a process reads what it or an ancestor stored or loaded
\* (VirtMapRangeZeroed's memset, PosixFork's copy), until a load spills.
THEOREM PagesStayPrivate == VmmSpec => []PagesArePrivate
<1>1. Intact => PagesArePrivate
  BY ContentsPrivate
<1> QED
  BY <1>1, VmmInvariant, PTL

\* The heap of the invariant, in the words of the property.
LEMMA HeapThere == Intact => BreakIsMapped
<1> SUFFICES ASSUME VmmInv, NEW p \in Pids, status[p] = "running",
                    NEW va \in BrkBase .. (BrkCur(p) - 1)
             PROVE  Leaf(p, va) # 0 \/ va \in torn[p]
  BY DEF Intact, BreakIsMapped
<1>1. BrkCur(p) = BreakOf(brk, p)
  BY DEF BrkCur, BreakOf
<1>2. brk \in [Pids -> 0 .. 8]
  BY DEF VmmInv, Processes
<1>3. va \in UserPages
  BY <1>1, <1>2, HeapPages
<1>4. Leaf(p, va) = At(mem, space, PageOf(p, va))
  BY <1>3, LeafPlace
<1> QED
  BY <1>1, <1>4 DEF VmmInv, HeapMapped

\* BreakIsMapped: the pages below the break are mapped, unless the process
\* unmapped them (__Handle__Brk), also when memory ran out half way.
THEOREM HeapIsMapped == VmmSpec => []BreakIsMapped
<1>1. Intact => BreakIsMapped
  BY HeapThere
<1> QED
  BY <1>1, VmmInvariant, PTL

-----------------------------------------------------------------------------
(* Isolation *)

\* The pages of all processes but p stay where they are with what they hold.
OthersKept(p) ==
  \A z \in Pages : z[1] # p =>
    /\ At(mem', space', z) = At(mem, space, z)
    /\ At(mem, space, z) # 0 => mem'[At(mem, space, z)] = mem[At(mem, space, z)]

\* Pages that come or change are pages of the one process.
LEMMA GrowsKeepsOthers ==
  ASSUME NEW m, NEW w, NEW sp, NEW p, NEW words, Grows(m, w, sp, p, words),
         NEW z \in Pages, z[1] # p
  PROVE  /\ At(w.mem, sp, z) = At(m.mem, sp, z)
         /\ At(m.mem, sp, z) # 0 => w.mem[At(m.mem, sp, z)] = m.mem[At(m.mem, sp, z)]
BY DEF Grows

\* So are pages that go.
LEMMA ShrinksKeepsOthers ==
  ASSUME NEW m, NEW w, NEW sp, Sound(m, sp), NEW C, Shrinks(m, w, sp, C),
         NEW z \in Pages, z \notin C
  PROVE  /\ At(w.mem, sp, z) = At(m.mem, sp, z)
         /\ At(m.mem, sp, z) # 0 => w.mem[At(m.mem, sp, z)] = m.mem[At(m.mem, sp, z)]
<1>1. At(w.mem, sp, z) = At(m.mem, sp, z)
  BY DEF Shrinks
<1>2. z \in Places /\ z \notin Tables
  BY DEF Pages, Tables
<1>3. At(m.mem, sp, z) # 0 => At(m.mem, sp, z) \in Frames \ m.tabs
  BY <1>2, Reached
<1> QED
  BY <1>1, <1>3 DEF Shrinks

\* PosixProcExecve, __Handle__Mmap and stores.
LEMMA ExpandsKeepsOthers ==
  ASSUME VmmInv, NEW p \in Pids, Expands(p)
  PROVE  OthersKept(p)
<1>1. PICK w : Becomes(w) /\ Grows(Mem, w, space, p, Own(parent, p))
  BY DEF Expands
<1>2. mem' = w.mem /\ space' = space
  BY <1>1 DEF Becomes, Expands
<1>3. Mem.mem = mem
  BY InvMemory
<1>4. ASSUME NEW z \in Pages, z[1] # p
      PROVE  /\ At(w.mem, space, z) = At(mem, space, z)
             /\ At(mem, space, z) # 0 => w.mem[At(mem, space, z)] = mem[At(mem, space, z)]
  BY <1>1, <1>3, <1>4, GrowsKeepsOthers
<1> QED
  BY <1>2, <1>4 DEF OthersKept

\* UnmapRange, for __Handle__Munmap and a lower break.
LEMMA UnmapKeepsOthers ==
  ASSUME VmmInv, NEW p \in Pids, NEW first \in 0 .. 8, NEW n \in Nat, first + n <= 8,
         Becomes(UnmapRange(Mem, space[p].pml4, first, n)), space' = space
  PROVE  OthersKept(p)
<1> DEFINE C == RangeOf(p, first, n)
<1>1. PICK w : w = UnmapRange(Mem, space[p].pml4, first, n)
  OBVIOUS
<1>2. Sound(Mem, space) /\ Mem.mem = mem
  BY InvMemory
<1>3. Shrinks(Mem, w, space, C)
  BY <1>1, <1>2, UnmapRangeShrinks
<1>4. \A z \in C : z[1] = p
  BY DEF RangeOf, PageOf
<1>5. mem' = w.mem
  BY <1>1 DEF Becomes
<1> HIDE DEF C
<1>6. ASSUME NEW z \in Pages, z[1] # p
      PROVE  /\ At(w.mem, space, z) = At(mem, space, z)
             /\ At(mem, space, z) # 0 => w.mem[At(mem, space, z)] = mem[At(mem, space, z)]
  <2>1. z \notin C
    BY <1>4, <1>6
  <2>2. /\ At(w.mem, space, z) = At(Mem.mem, space, z)
        /\ At(Mem.mem, space, z) # 0 => w.mem[At(Mem.mem, space, z)] = Mem.mem[At(Mem.mem, space, z)]
    BY <1>2, <1>3, <2>1, ShrinksKeepsOthers
  <2> QED
    BY <1>2, <2>2
<1> QED
  BY <1>5, <1>6 DEF OthersKept

\* __Handle__Munmap.
LEMMA MunmapKeepsOthers ==
  ASSUME VmmInv, NEW p \in Pids, NEW va \in MunmapPages, NEW n \in 1 .. MaxLen, Munmap(p, va, n)
  PROVE  OthersKept(p)
<1>1. va \in 0 .. 8 /\ n \in Nat /\ va + n <= 8
  BY AskedRange DEF UserPages
<1>2. Becomes(UnmapRange(Mem, space[p].pml4, va, n)) /\ space' = space
  BY DEF Munmap
<1> QED
  BY <1>1, <1>2, UnmapKeepsOthers

\* __Handle__Brk.
LEMMA BrkKeepsOthers ==
  ASSUME VmmInv, NEW p \in Pids, NEW want \in BrkWants, Brk(p, want)
  PROVE  OthersKept(p)
<1> DEFINE cur == BrkCur(p)
           pml4 == space[p].pml4
<1>1. PICK w : /\ w = IF want > cur THEN VirtMapRangeZeroed(Mem, pml4, cur, want - cur)
                      ELSE UnmapRange(Mem, pml4, want, cur - want)
               /\ Becomes(w)
  BY DEF Brk
<1>2. space' = space
  BY DEF Brk
<1>3. cur \in 1 .. 8 /\ want \in 1 .. 8
  <2>1. brk \in [Pids -> 0 .. 8]
    BY DEF VmmInv, Processes
  <2>2. cur = BreakOf(brk, p)
    BY DEF BrkCur, BreakOf
  <2> QED
    BY <2>1, <2>2, HeapPages, VmmAssumption
<1> HIDE DEF cur
<1>4. CASE want > cur
  <2> DEFINE n == want - cur
  <2>1. w = VirtMapRangeZeroed(Mem, pml4, cur, n)
    BY <1>1, <1>4
  <2>2. cur \in UserPages /\ n \in Nat \ {0} /\ cur + n <= 8
    BY <1>3, <1>4 DEF UserPages
  <2> HIDE DEF n
  <2>3. Grows(Mem, w, space, p, {0})
    BY <2>1, <2>2, InvMemory, RangeMapped
  <2>4. mem' = w.mem /\ Mem.mem = mem
    BY <1>1, InvMemory DEF Becomes
  <2>5. ASSUME NEW z \in Pages, z[1] # p
        PROVE  /\ At(w.mem, space, z) = At(mem, space, z)
               /\ At(mem, space, z) # 0 => w.mem[At(mem, space, z)] = mem[At(mem, space, z)]
    BY <2>3, <2>4, <2>5, GrowsKeepsOthers
  <2> QED
    BY <1>2, <2>4, <2>5 DEF OthersKept
<1>5. CASE ~(want > cur)
  <2> DEFINE n == cur - want
  <2>1. Becomes(UnmapRange(Mem, pml4, want, n))
    BY <1>1, <1>5
  <2>2. want \in 0 .. 8 /\ n \in Nat /\ want + n <= 8
    BY <1>3, <1>5
  <2> HIDE DEF n
  <2> QED
    BY <1>2, <2>1, <2>2, UnmapKeepsOthers
<1> QED
  BY <1>4, <1>5

\* PosixProcCreate.
LEMMA CreateKeepsOthers ==
  ASSUME VmmInv, NEW p \in Pids, PosixProcCreate(p)
  PROVE  OthersKept(p)
<1>1. PICK s : s = CreateVirtualSpace(Mem)
  OBVIOUS
<1>2. PICK w : w = WithSpace(Mem, s)
  OBVIOUS
<1>3. PICK sp2 : sp2 = Given(space, p, s)
  OBVIOUS
<1>4. status[p] = "none" /\ s # NoSpace /\ mem' = w.mem /\ space' = sp2
  BY <1>1, <1>2, <1>3 DEF PosixProcCreate, Becomes, Given
<1>5. /\ \A z \in Pages : At(w.mem, sp2, z) = At(mem, space, z)
      /\ \A z \in Pages : At(mem, space, z) # 0 => w.mem[At(mem, space, z)] = mem[At(mem, space, z)]
  BY <1>1, <1>2, <1>3, <1>4, SpaceMade
<1> QED
  BY <1>4, <1>5 DEF OthersKept

\* PosixWait4 takes the pages of the child.
LEMMA WaitKeepsOthers ==
  ASSUME VmmInv, NEW p \in Pids, NEW c \in Pids, PosixWait4(p, c)
  PROVE  OthersKept(c)
<1>1. PICK w : w = DestroyVirtualSpace(Mem, space[c])
  OBVIOUS
<1>2. PICK sp2 : sp2 = Given(space, c, NoSpace)
  OBVIOUS
<1>3. status[c] = "zombie" /\ mem' = w.mem /\ space' = sp2
  BY <1>1, <1>2 DEF PosixWait4, Becomes, Given
<1>4. Sound(Mem, space) /\ Mem.mem = mem /\ space[c] # NoSpace
  BY <1>3, InvMemory DEF VmmInv, Processes
<1>5. /\ w.mem = Mem.mem
      /\ \A z \in Places : At(Mem.mem, sp2, z) = IF z[1] = c THEN 0 ELSE At(Mem.mem, space, z)
  BY <1>1, <1>2, <1>4, SpaceDestroyed
<1>6. mem' = mem
  BY <1>3, <1>4, <1>5
<1>7. \A z \in Pages : z[1] # c => At(mem, sp2, z) = At(mem, space, z)
  BY <1>4, <1>5 DEF Pages
<1> QED
  BY <1>3, <1>6, <1>7 DEF OthersKept

\* PosixFork: the parent keeps its pages too.
LEMMA ForkKeepsOthers ==
  ASSUME VmmInv, NEW p \in Pids, NEW c \in Pids, PosixFork(p, c)
  PROVE  OthersKept(c)
<1>1. PICK s : s = CreateVirtualSpace(Mem)
  OBVIOUS
<1>2. PICK v : v = WithSpace(Mem, s)
  OBVIOUS
<1>3. PICK sp2 : sp2 = Given(space, c, s)
  OBVIOUS
<1>4. status[c] = "none" /\ s # NoSpace /\ space' = sp2
  BY <1>1, <1>3 DEF PosixFork, Given
<1>5. PICK w : Becomes(w) /\ Grows(v, w, sp2, c, Own(parent, p))
  BY <1>1, <1>2, <1>3, ForkGrows
<1>6. mem' = w.mem
  BY <1>5 DEF Becomes
<1>7. /\ \A z \in Pages : At(v.mem, sp2, z) = At(mem, space, z)
      /\ \A z \in Pages : At(mem, space, z) # 0 => v.mem[At(mem, space, z)] = mem[At(mem, space, z)]
  BY <1>1, <1>2, <1>3, <1>4, SpaceMade
<1>8. ASSUME NEW z \in Pages, z[1] # c
      PROVE  /\ At(w.mem, sp2, z) = At(mem, space, z)
             /\ At(mem, space, z) # 0 => w.mem[At(mem, space, z)] = mem[At(mem, space, z)]
  <2>1. /\ At(w.mem, sp2, z) = At(v.mem, sp2, z)
        /\ At(v.mem, sp2, z) # 0 => w.mem[At(v.mem, sp2, z)] = v.mem[At(v.mem, sp2, z)]
    BY <1>5, <1>8, GrowsKeepsOthers
  <2> QED
    BY <1>7, <2>1
<1> QED
  BY <1>4, <1>6, <1>8 DEF OthersKept

\* Every step that does not spill.
LEMMA StepKeepsOthers ==
  ASSUME VmmInv, VmmNext, ~spilled'
  PROVE  \E p \in Pids : OthersKept(p)
<1>1. ASSUME NEW p \in Pids, PosixProcCreate(p) PROVE OthersKept(p)
  BY <1>1, CreateKeepsOthers
<1>2. ASSUME NEW p \in Pids, PosixProcExecve(p) PROVE OthersKept(p)
  BY <1>2, ExecveExpands, ExpandsKeepsOthers
<1>3. ASSUME NEW p \in Pids, PosixExit(p) PROVE OthersKept(p)
  BY <1>3 DEF PosixExit, OthersKept
<1>4. ASSUME NEW p \in Pids, NEW va \in MmapPages, NEW n \in 1 .. MaxLen, Mmap(p, va, n) PROVE OthersKept(p)
  BY <1>4, MmapExpands, ExpandsKeepsOthers
<1>5. ASSUME NEW p \in Pids, NEW va \in MunmapPages, NEW n \in 1 .. MaxLen, Munmap(p, va, n) PROVE OthersKept(p)
  BY <1>5, MunmapKeepsOthers
<1>6. ASSUME NEW p \in Pids, NEW want \in BrkWants, Brk(p, want) PROVE OthersKept(p)
  BY <1>6, BrkKeepsOthers
<1>7. ASSUME NEW p \in Pids, NEW va \in StorePages, Store(p, va) PROVE OthersKept(p)
  BY <1>7, StoreExpands, ExpandsKeepsOthers
<1>8. ASSUME NEW p \in Pids, NEW c \in Pids, PosixFork(p, c) PROVE OthersKept(c)
  BY <1>8, ForkKeepsOthers
<1>9. ASSUME NEW p \in Pids, NEW c \in Pids, PosixWait4(p, c) PROVE OthersKept(c)
  BY <1>9, WaitKeepsOthers
<1> QED
  BY <1>1, <1>2, <1>3, <1>4, <1>5, <1>6, <1>7, <1>8, <1>9 DEF VmmNext

\* A step is the affair of one process: for every other one each page that
\* GetPhysicalAddress finds stays at its frame with its content, and no page
\* comes. The process is the caller of exec, mmap, munmap, brk or the store,
\* and the child of a fork or a wait4. The one step exempted is a load that
\* spills: it may meet a table or another process's page.
OneSpaceChanges ==
  [][\/ spilled'
     \/ \E p \in Pids : \A q \in Pids \ {p}, va \in UserPages :
          /\ Leaf(q, va)' = Leaf(q, va)
          /\ Leaf(q, va) # 0 => mem'[Leaf(q, va)] = mem[Leaf(q, va)]]_vars

\* No step of one process, whatever it maps, unmaps, loads, copies or gives
\* back and wherever it runs out of memory, shows in the pages of another,
\* unless it loads a segment that spills.
THEOREM StepsAreIsolated == VmmSpec => OneSpaceChanges
<1> DEFINE Isolated == \E p \in Pids : \A q \in Pids \ {p}, va \in UserPages :
                         /\ Leaf(q, va)' = Leaf(q, va)
                         /\ Leaf(q, va) # 0 => mem'[Leaf(q, va)] = mem[Leaf(q, va)]
<1>1. ASSUME VmmInv, VmmNext, ~spilled' PROVE Isolated
  <2>1. PICK p \in Pids : OthersKept(p)
    BY <1>1, StepKeepsOthers
  <2>2. ASSUME NEW q \in Pids \ {p}, NEW va \in UserPages
        PROVE  /\ Leaf(q, va)' = Leaf(q, va)
               /\ Leaf(q, va) # 0 => mem'[Leaf(q, va)] = mem[Leaf(q, va)]
    <3> DEFINE z == PageOf(q, va)
    <3>1. Leaf(q, va) = At(mem, space, z) /\ z \in Pages
      BY LeafPlace
    <3>2. Leaf(q, va)' = At(mem', space', z)
      <4>1. GetPhysicalAddress(Mem', space'[q].pml4, va) = At(Mem'.mem, space', z)
        BY PhysicalAddress
      <4> QED
        BY <4>1 DEF Leaf, Mem
    <3>3. z[1] = q
      BY DEF PageOf
    <3> HIDE DEF z
    <3> QED
      BY <2>1, <3>1, <3>2, <3>3 DEF OthersKept
  <2> QED
    BY <2>2
<1>2. Intact /\ [VmmNext]_vars => [spilled' \/ Isolated]_vars
  <2> SUFFICES ASSUME Intact, VmmNext, ~spilled' PROVE Isolated
    OBVIOUS
  <2>1. ~spilled
    BY DEF VmmNext
  <2> HIDE DEF Isolated
  <2> QED
    BY <1>1, <2>1 DEF Intact
<1> QED
  BY <1>2, VmmInvariant, PTL DEF VmmSpec, OneSpaceChanges

=============================================================================
