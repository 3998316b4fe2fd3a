---------------------------- MODULE FilesProofs ----------------------------
(***************************************************************************)
(* Proofs about RamFs, Vfs and FdTable: the RAM file system stays a tree   *)
(* of well-formed nodes whose names stay bound, mounts and open files keep *)
(* what they point to, and the descriptor table counts its entries, keeps  *)
(* every unshared descriptor on its own object, and implements pipes as    *)
(* queues, for any archive, any callers' paths and any table size.         *)
(***************************************************************************)
EXTENDS FdTable, SequenceTheorems, FiniteSetTheorems, WellFoundedInduction, TLAPS

-----------------------------------------------------------------------------
(* Numbers *)

\* A set of naturals has a least element.
LEMMA LeastNat ==
    ASSUME NEW T \in SUBSET Nat, T # {}
    PROVE  \E x \in T : \A y \in T : x <= y
<1> DEFINE less == {ss \in Nat \X Nat : ss[1] < ss[2]}
<1>1. OpToRel(<, Nat) = less
  BY Zenon DEF OpToRel
<1>2. IsWellFoundedOn(less, Nat)
  BY <1>1, NatLessThanWellFounded, Zenon
<1> HIDE DEF less
<1>3. PICK x \in T : \A y \in T : ~ (<<y, x>> \in less)
  BY <1>2, WFMin, Zenon
<1>4. ASSUME NEW y \in T PROVE x <= y
  <2>1. <<y, x>> \in Nat \X Nat /\ <<y, x>>[1] = y /\ <<y, x>>[2] = x
    OBVIOUS
  <2>2. ~(<<y, x>>[1] < <<y, x>>[2])
    BY <1>3, <2>1, Zenon DEF less
  <2>3. ~(y < x)
    BY <2>1, <2>2
  <2> QED
    BY <2>3
<1> QED
  BY <1>4

\* Induction, for a set of naturals.
LEMMA Induction ==
    ASSUME NEW T, 0 \in T, \A n \in Nat : n \in T => n + 1 \in T
    PROVE  \A n \in Nat : n \in T
<1> SUFFICES ASSUME Nat \ T # {} PROVE FALSE
  OBVIOUS
<1>1. PICK x \in Nat \ T : \A y \in Nat \ T : x <= y
  BY LeastNat
<1>2. x # 0 /\ x - 1 \in Nat /\ x - 1 \in T
  BY <1>1
<1> QED
  BY <1>1, <1>2

LEMMA MinOfTwo ==
    ASSUME NEW a \in Int, NEW b \in Int
    PROVE  Min({a, b}) = IF a <= b THEN a ELSE b
<1> DEFINE m == IF a <= b THEN a ELSE b
<1>1. m \in {a, b} /\ \A y \in {a, b} : m <= y
  OBVIOUS
<1>2. \A x \in {a, b} : (\A y \in {a, b} : x <= y) => x = m
  OBVIOUS
<1> QED
  BY <1>1, <1>2 DEF Min

LEMMA MaxOfTwo ==
    ASSUME NEW a \in Int, NEW b \in Int
    PROVE  Max({a, b}) = IF a >= b THEN a ELSE b
<1> DEFINE m == IF a >= b THEN a ELSE b
<1>1. m \in {a, b} /\ \A y \in {a, b} : m >= y
  OBVIOUS
<1>2. \A x \in {a, b} : (\A y \in {a, b} : x >= y) => x = m
  OBVIOUS
<1> QED
  BY <1>1, <1>2 DEF Max

LEMMA TimesIsMonotonic ==
    ASSUME NEW a \in Nat, NEW b \in Nat, a <= b, NEW k \in Nat
    PROVE  a * k <= b * k /\ a * k \in Nat /\ b * k \in Nat /\ (a + 1) * k = a * k + k
  OBVIOUS

LEMMA DivisionIs ==
    ASSUME NEW x \in Nat, NEW k \in Nat, k > 0
    PROVE  x = k * (x \div k) + (x % k)
  OBVIOUS

\* x is m past the start of block q.
Splits(x, k, q, m) == x = q * k + m

LEMMA RemainderIs ==
    ASSUME NEW x \in Nat, NEW k \in Nat \ {0}, NEW q, q = x \div k, NEW m, m = x % k
    PROVE  q \in Nat /\ m \in 0 .. k - 1 /\ Splits(x, k, q, m)
<1>1. k \in Nat /\ k > 0
  OBVIOUS
<1>2. x = k * (x \div k) + (x % k)
  BY <1>1, DivisionIs
<1>3. q \in Int /\ m \in 0 .. k - 1
  BY <1>1
<1> DEFINE y == k * q
<1>4. x = y + m
  BY <1>2
<1>5. q >= 0
  <2> SUFFICES ASSUME q < 0 PROVE FALSE
    BY <1>3
  <2>1. q + 1 <= 0
    BY <1>3
  <2>2. k * (q + 1) <= 0
    BY <1>1, <1>3, <2>1
  <2>3. k * (q + 1) = y + k
    BY <1>1, <1>3
  <2>4. y \in Int
    BY <1>1, <1>3
  <2> HIDE DEF y
  <2> QED
    BY <1>1, <1>3, <1>4, <2>2, <2>3, <2>4
<1>6. y = q * k
  BY <1>1, <1>3
<1> HIDE DEF y
<1> QED
  BY <1>3, <1>4, <1>5, <1>6 DEF Splits

LEMMA MinIs ==
    ASSUME NEW T \in SUBSET Nat, T # {}
    PROVE  Min(T) \in T /\ \A y \in T : Min(T) <= y
<1>1. \E x \in T : \A y \in T : x <= y
  BY LeastNat
<1> QED
  BY <1>1, Zenon DEF Min

-----------------------------------------------------------------------------
(* Recursive functions *)

\* A function on 0 .. n that starts with a and goes on as step says.
Iterates(f, n, a, step) == f[0] = a /\ \A k \in 1 .. n : f[k] = step[<<k, f[k - 1]>>]
Iterations(n, S, a, step) == {f \in [0 .. n -> S] : Iterates(f, n, a, step)}

LEMMA Recursion ==
    ASSUME NEW S, NEW a \in S, NEW step, step \in [Nat \X S -> S], NEW n \in Nat
    PROVE  Iterations(n, S, a, step) # {}
<1> DEFINE Q(f, m) == f[0] = a /\ \A k \in 1 .. m : f[k] = step[<<k, f[k - 1]>>]
           T == {m \in Nat : \E f \in [0 .. m -> S] : Q(f, m)}
<1>1. 0 \in T
  <2> DEFINE f == [k \in 0 .. 0 |-> a]
  <2>1. f \in [0 .. 0 -> S] /\ Q(f, 0)
    OBVIOUS
  <2> QED
    BY <2>1
<1>2. ASSUME NEW m \in Nat, m \in T PROVE m + 1 \in T
  <2>1. PICK f \in [0 .. m -> S] : Q(f, m)
    BY <1>2
  <2> DEFINE g == [k \in 0 .. m + 1 |-> IF k = m + 1 THEN step[<<m + 1, f[m]>>] ELSE f[k]]
  <2>2. \A k \in 0 .. m : f[k] \in S /\ g[k] = f[k]
    OBVIOUS
  <2>3. g[m + 1] = step[<<m + 1, f[m]>>] /\ g[m + 1] \in S
    <3>1. m \in 0 .. m /\ m + 1 \in Nat /\ m + 1 \in 0 .. m + 1
      OBVIOUS
    <3> QED
      BY <2>2, <3>1
  <2>4. \A k \in 0 .. m + 1 : k \in 0 .. m \/ k = m + 1
    OBVIOUS
  <2>5. g \in [0 .. m + 1 -> S]
    <3>1. \A k \in 0 .. m + 1 : g[k] \in S
      BY <2>2, <2>3, <2>4
    <3>2. g = [k \in 0 .. m + 1 |-> g[k]]
      OBVIOUS
    <3> HIDE DEF g
    <3> QED
      BY <3>1, <3>2
  <2> HIDE DEF g
  <2>6. \A k \in 1 .. m : k \in 0 .. m /\ k - 1 \in 0 .. m
    OBVIOUS
  <2>7. g[0] = a
    BY <2>1, <2>2
  <2>8. ASSUME NEW k \in 1 .. m + 1 PROVE g[k] = step[<<k, g[k - 1]>>]
    <3>1. CASE k = m + 1
      <4>1. k - 1 = m /\ m \in 0 .. m
        BY <3>1
      <4> QED
        BY <2>2, <2>3, <3>1, <4>1
    <3>2. CASE k # m + 1
      <4>1. k \in 1 .. m
        BY <3>2
      <4> QED
        BY <2>1, <2>2, <2>6, <4>1
    <3> QED
      BY <3>1, <3>2
  <2> QED
    BY <2>5, <2>7, <2>8
<1> HIDE DEF T
<1>3. \A m \in Nat : m \in T
  BY <1>1, <1>2, Induction
<1> QED
  BY <1>3 DEF T, Iterations, Iterates

\* A function whose every value follows from the one before stays in a set.
LEMMA StaysIn ==
    ASSUME NEW S, NEW n \in Nat, NEW f, f[0] \in S,
           \A k \in 1 .. n : f[k - 1] \in S => f[k] \in S
    PROVE  \A k \in 0 .. n : f[k] \in S
<1> DEFINE T == {k \in Nat : k <= n => f[k] \in S}
<1>1. 0 \in T
  OBVIOUS
<1>2. ASSUME NEW k \in Nat, k \in T PROVE k + 1 \in T
  <2> SUFFICES ASSUME k + 1 <= n PROVE f[k + 1] \in S
    OBVIOUS
  <2>1. k + 1 \in 1 .. n /\ (k + 1) - 1 = k /\ k <= n
    OBVIOUS
  <2>2. f[k] \in S
    BY <1>2, <2>1
  <2> QED
    BY <2>1, <2>2
<1> HIDE DEF T
<1>3. \A k \in Nat : k \in T
  BY <1>1, <1>2, Induction
<1> QED
  BY <1>3 DEF T

-----------------------------------------------------------------------------
(* The tree of the RAM file system *)

NodeType == [name : Name, type : {"dir", "file"}, data : Seq(Byte), children : Seq(Nat),
             count : Nat]

\* The children of x that were ever linked are among n nodes, and so are
\* those that count.
Linked(x, n) == /\ \A j \in 1 .. Len(x.children) : x.children[j] \in 1 .. n
                /\ x.count <= Len(x.children)

WellLinked(ns) == \A i \in 1 .. Len(ns) : Linked(ns[i], Len(ns))

\* The nodes: there is a root, and every child is a node.
Tree == {ns \in Seq(NodeType) : Len(ns) >= 1 /\ WellLinked(ns)}

LEMMA NodeIs ==
    ASSUME NEW x \in NodeType
    PROVE  /\ x.name \in Name /\ x.type \in {"dir", "file"}
           /\ x.data \in Seq(Byte) /\ Len(x.data) \in Nat
           /\ x.children \in Seq(Nat) /\ Len(x.children) \in Nat /\ x.count \in Nat
<1>1. x.name \in Name /\ x.type \in {"dir", "file"} /\ x.data \in Seq(Byte)
      /\ x.children \in Seq(Nat) /\ x.count \in Nat
  BY DEF NodeType
<1> QED
  BY <1>1

LEMMA TreeIs ==
    ASSUME NEW ns \in Tree
    PROVE  /\ ns \in Seq(NodeType) /\ Len(ns) \in Nat /\ 1 \in 1 .. Len(ns)
           /\ \A i \in 1 .. Len(ns) :
                /\ ns[i] \in NodeType /\ ns[i].name \in Name /\ ns[i].type \in {"dir", "file"}
                /\ ns[i].data \in Seq(Byte) /\ Len(ns[i].data) \in Nat
                /\ ns[i].children \in Seq(Nat) /\ Len(ns[i].children) \in Nat
                /\ ns[i].count \in 0 .. Len(ns[i].children)
                /\ \A j \in 1 .. Len(ns[i].children) : ns[i].children[j] \in 1 .. Len(ns)
<1>1. ns \in Seq(NodeType) /\ Len(ns) \in Nat /\ Len(ns) >= 1 /\ WellLinked(ns)
  BY DEF Tree
<1>2. \A i \in 1 .. Len(ns) : ns[i] \in NodeType
  BY <1>1
<1>3. \A i \in 1 .. Len(ns) :
         /\ ns[i].name \in Name /\ ns[i].type \in {"dir", "file"}
         /\ ns[i].data \in Seq(Byte) /\ Len(ns[i].data) \in Nat
         /\ ns[i].children \in Seq(Nat) /\ Len(ns[i].children) \in Nat /\ ns[i].count \in Nat
  BY <1>2, NodeIs
<1>4. \A i \in 1 .. Len(ns) :
         /\ ns[i].count <= Len(ns[i].children)
         /\ \A j \in 1 .. Len(ns[i].children) : ns[i].children[j] \in 1 .. Len(ns)
  BY <1>1 DEF WellLinked, Linked
<1>5. \A i \in 1 .. Len(ns) : ns[i].count \in 0 .. Len(ns[i].children)
  BY <1>3, <1>4
<1> QED
  BY <1>1, <1>2, <1>3, <1>4, <1>5

\* The places among a directory's children of those with a name and a type.
Matches(ns, d, name, types) ==
    {i \in 1 .. ns[d].count : /\ ns[ns[d].children[i]].name = name
                              /\ ns[ns[d].children[i]].type \in types}

LEMMA ChildIs ==
    ASSUME NEW ns \in Tree, NEW d \in 1 .. Len(ns), NEW name, NEW types
    PROVE  \/ Child(ns, d, name, types) = 0 /\ Matches(ns, d, name, types) = {}
           \/ /\ Child(ns, d, name, types) \in 1 .. Len(ns)
              /\ \E i \in Matches(ns, d, name, types) :
                   /\ Child(ns, d, name, types) = ns[d].children[i]
                   /\ \A j \in Matches(ns, d, name, types) : i <= j
<1> DEFINE F == Matches(ns, d, name, types)
           i == CHOOSE k \in F : \A j \in F : k <= j
<1>1. Child(ns, d, name, types) = IF F = {} THEN 0 ELSE ns[d].children[i]
  BY DEF Child, Matches, NoNode
<1>2. F \in SUBSET Nat /\ F \subseteq 1 .. Len(ns[d].children)
  <2>1. ns[d].count \in 0 .. Len(ns[d].children) /\ Len(ns[d].children) \in Nat
    BY TreeIs
  <2> QED
    BY <2>1 DEF Matches
<1>3. ASSUME F # {} PROVE i \in F /\ \A j \in F : i <= j
  <2>1. \E k \in F : \A j \in F : k <= j
    BY <1>2, <1>3, LeastNat
  <2> QED
    BY <2>1, Zenon
<1> HIDE DEF F, i
<1>4. ASSUME F # {} PROVE ns[d].children[i] \in 1 .. Len(ns)
  BY <1>2, <1>3, <1>4, TreeIs
<1> QED
  BY <1>1, <1>3, <1>4 DEF F

LEMMA LookupIs ==
    ASSUME NEW ns \in Tree, NEW d \in 0 .. Len(ns), NEW name
    PROVE  RamVfsLookup(ns, d, name) \in 0 .. Len(ns)
<1>1. Len(ns) \in Nat
  BY TreeIs
<1>2. CASE d = 0 \/ ns[d].type # "dir"
  BY <1>1, <1>2 DEF RamVfsLookup, NoNode
<1>3. CASE ~(d = 0 \/ ns[d].type # "dir")
  <2>1. d \in 1 .. Len(ns)
    BY <1>1, <1>3
  <2>2. RamVfsLookup(ns, d, name) = Child(ns, d, name, {"dir", "file"})
    BY <1>3 DEF RamVfsLookup, NoNode
  <2> QED
    BY <1>1, <2>1, <2>2, ChildIs
<1> QED
  BY <1>2, <1>3

\* The nodes that __walk__ passes.
WalkFollows(ns, d, path, at) ==
    /\ at[0] = d
    /\ \A k \in 1 .. Len(path) : at[k] = RamVfsLookup(ns, at[k - 1], path[k])
    /\ \A k \in 0 .. Len(path) : at[k] \in 0 .. Len(ns)

LEMMA WalkIs ==
    ASSUME NEW ns \in Tree, NEW d \in 0 .. Len(ns), NEW path, Len(path) \in Nat
    PROVE  \E at : Walk(ns, d, path) = at[Len(path)] /\ WalkFollows(ns, d, path, at)
<1> DEFINE n == Len(path)
           S == 0 .. Len(ns)
           P(f) == f = [k \in 0 .. n |-> IF k = 0 THEN d ELSE RamVfsLookup(ns, f[k - 1], path[k])]
           at == CHOOSE f : P(f)
           step == [p \in Nat \X S |-> RamVfsLookup(ns, p[2], path[p[1]])]
<1>1. step \in [Nat \X S -> S]
  <2>1. \A p \in Nat \X S : RamVfsLookup(ns, p[2], path[p[1]]) \in S
    BY LookupIs
  <2> QED
    BY <2>1
<1>2. \E f : P(f)
  <2>1. PICK f \in [0 .. n -> S] : f[0] = d /\ \A k \in 1 .. n : f[k] = step[<<k, f[k - 1]>>]
    <3>1. n \in Nat /\ d \in S
      OBVIOUS
    <3> HIDE DEF step, S, n, at, P
    <3>2. Iterations(n, S, d, step) # {}
      BY <1>1, <3>1, Recursion
    <3> QED
      BY <3>2 DEF Iterations, Iterates
  <2>2. ASSUME NEW k \in 1 .. n PROVE f[k] = RamVfsLookup(ns, f[k - 1], path[k])
    <3>1. k \in Nat /\ k - 1 \in 0 .. n
      OBVIOUS
    <3>2. <<k, f[k - 1]>> \in Nat \X S
      BY <3>1
    <3>3. step[<<k, f[k - 1]>>] = RamVfsLookup(ns, f[k - 1], path[k])
      BY <3>2
    <3> QED
      BY <2>1, <3>3
  <2>3. ASSUME NEW k \in 0 .. n
        PROVE  f[k] = IF k = 0 THEN d ELSE RamVfsLookup(ns, f[k - 1], path[k])
    <3>1. k = 0 \/ k \in 1 .. n
      OBVIOUS
    <3> QED
      BY <2>1, <2>2, <3>1
  <2>4. P(f)
    BY <2>3
  <2> QED
    BY <2>4
<1>3. P(at)
  <2> HIDE DEF P
  <2> QED
    BY <1>2, Zenon
<1>4. Walk(ns, d, path) = at[n]
  BY DEF Walk
<1> HIDE DEF at
<1>5. \A k \in 0 .. n : at[k] = IF k = 0 THEN d ELSE RamVfsLookup(ns, at[k - 1], path[k])
  BY <1>3
<1>6. at[0] = d /\ \A k \in 1 .. n : at[k] = RamVfsLookup(ns, at[k - 1], path[k])
  <2>1. 0 \in 0 .. n /\ \A k \in 1 .. n : k \in 0 .. n /\ k # 0
    OBVIOUS
  <2> HIDE DEF n, P
  <2> QED
    BY <1>5, <2>1
<1>7. \A k \in 0 .. n : at[k] \in S
  <2>1. \A k \in 1 .. n : at[k - 1] \in S => at[k] \in S
    BY <1>6, LookupIs
  <2> HIDE DEF n, P, S
  <2>2. n \in Nat /\ at[0] \in S
    BY <1>6 DEF n, S
  <2> QED
    BY <2>1, <2>2, StaysIn
<1> QED
  BY <1>4, <1>6, <1>7 DEF WalkFollows


\* Storing a node in a slot of Children, and counting it.
LEMMA PutChildIs ==
    ASSUME NEW x \in NodeType, NEW n \in Nat, Linked(x, n), NEW slot \in 0 .. Len(x.children),
           NEW m \in 1 .. n
    PROVE  PutChild(x, slot, m) \in NodeType /\ Linked(PutChild(x, slot, m), n)
<1> DEFINE cs == x.children
           cs2 == Stored(cs, slot + 1, m)
           y == [x EXCEPT !.children = cs2, !.count = slot + 1]
<1>1. cs \in Seq(Nat) /\ Len(cs) \in Nat /\ slot \in Nat /\ slot <= Len(cs)
      /\ \A j \in 1 .. Len(cs) : cs[j] \in 1 .. n
  BY NodeIs DEF Linked
<1>2. cs2 \in Seq(Nat) /\ Len(cs2) \in Nat /\ Len(cs2) >= slot + 1 /\ \A j \in 1 .. Len(cs2) : cs2[j] \in 1 .. n
  <2>1. CASE slot + 1 <= Len(cs)
    <3>1. cs2 = [cs EXCEPT ![slot + 1] = m] /\ slot + 1 \in 1 .. Len(cs)
      BY <1>1, <2>1 DEF Stored
    <3> HIDE DEF cs2, cs
    <3> QED
      BY <1>1, <3>1
  <2>2. CASE ~(slot + 1 <= Len(cs))
    <3>1. cs2 = Append(cs, m) /\ slot + 1 = Len(cs) + 1
      BY <1>1, <2>2, SMTT(30) DEF Stored
    <3> HIDE DEF cs2, cs
    <3>2. cs2 \in Seq(Nat) /\ Len(cs2) = Len(cs) + 1 /\ cs2[Len(cs) + 1] = m
          /\ \A j \in 1 .. Len(cs) : cs2[j] = cs[j]
      BY <1>1, <3>1
    <3>3. ASSUME NEW j \in 1 .. Len(cs2) PROVE cs2[j] \in 1 .. n
      <4>1. j \in 1 .. Len(cs) \/ j = Len(cs) + 1
        BY <1>1, <3>2
      <4> QED
        BY <1>1, <3>2, <4>1
    <3> QED
      BY <1>1, <3>1, <3>2, <3>3
  <2> QED
    BY <2>1, <2>2
<1>3. y \in NodeType /\ y.children = cs2 /\ y.count = slot + 1
  <2> DEFINE z == [x EXCEPT !.children = cs2]
  <2>1. y = [z EXCEPT !.count = slot + 1]
    OBVIOUS
  <2> HIDE DEF cs2, y
  <2>2. z \in NodeType /\ z.children = cs2
    BY <1>2 DEF NodeType
  <2> HIDE DEF z
  <2>3. slot + 1 \in Nat
    BY <1>1
  <2>4. y \in NodeType
    BY <2>1, <2>2, <2>3 DEF NodeType
  <2>5. y.children = z.children /\ y.count = slot + 1
    BY <2>1, <2>2 DEF NodeType
  <2> QED
    BY <2>2, <2>4, <2>5
<1>4. PutChild(x, slot, m) = IF slot < MaxChildren THEN y ELSE x
  BY DEF PutChild
<1> HIDE DEF cs2, y
<1>5. Linked(y, n)
  BY <1>1, <1>2, <1>3 DEF Linked
<1> QED
  BY <1>4, <1>3, <1>5

\* Replacing a node by one that is linked, and adding a node without children.
LEMMA ReplaceIs ==
    ASSUME NEW ns \in Tree, NEW d \in 1 .. Len(ns), NEW x \in NodeType, Linked(x, Len(ns))
    PROVE  [ns EXCEPT ![d] = x] \in Tree
<1> DEFINE t == [ns EXCEPT ![d] = x]
<1>1. /\ Len(ns) \in Nat /\ Len(ns) >= 1 /\ ns \in Seq(NodeType)
      /\ \A i \in 1 .. Len(ns) : Linked(ns[i], Len(ns))
  BY TreeIs DEF Tree, WellLinked
<1>2. t \in Seq(NodeType) /\ Len(t) = Len(ns) /\ \A i \in 1 .. Len(ns) : t[i] = IF i = d THEN x ELSE ns[i]
  BY <1>1
<1> HIDE DEF t
<1>3. WellLinked(t)
  BY <1>1, <1>2 DEF WellLinked
<1> QED
  BY <1>1, <1>2, <1>3 DEF Tree, t

Grown(ns, d, slot, name, type, t) ==
    /\ t \in Tree /\ Len(t) = Len(ns) + 1
    /\ t[Len(ns) + 1] = Node(name, type)
    /\ t[d] = PutChild(ns[d], slot, Len(ns) + 1)
    /\ \A i \in 1 .. Len(ns) \ {d} : t[i] = ns[i]

LEMMA NewNodeIs ==
    ASSUME NEW ns \in Tree, NEW d \in 1 .. Len(ns), NEW slot \in 0 .. Len(ns[d].children),
           NEW name \in Name, NEW type \in {"dir", "file"},
           NEW t, t = Append([ns EXCEPT ![d] = PutChild(ns[d], slot, Len(ns) + 1)], Node(name, type))
    PROVE  Grown(ns, d, slot, name, type, t)
<1> DEFINE n == Len(ns)
           x == PutChild(ns[d], slot, Len(ns) + 1)
           new == Node(name, type)
           ms == [ns EXCEPT ![d] = x]
<1>1. /\ n \in Nat /\ n >= 1 /\ ns \in Seq(NodeType) /\ ns[d] \in NodeType
      /\ \A i \in 1 .. n : Linked(ns[i], n) /\ ns[i].count \in Nat
  BY TreeIs DEF Tree, WellLinked
<1>2. \A i \in 1 .. n : Linked(ns[i], n + 1)
  BY <1>1 DEF Linked
<1>3. x \in NodeType /\ Linked(x, n + 1)
  <2>1. n + 1 \in 1 .. n + 1 /\ n + 1 \in Nat
    BY <1>1
  <2> HIDE DEF n
  <2>2. x = PutChild(ns[d], slot, n + 1)
    BY DEF n
  <2>3. d \in 1 .. n
    BY DEF n
  <2> HIDE DEF x
  <2> QED
    BY <1>1, <1>2, <2>1, <2>2, <2>3, PutChildIs
<1>4. new \in NodeType /\ Linked(new, n + 1)
  BY DEF Node, NodeType, Linked
<1>10. x = PutChild(ns[d], slot, Len(ns) + 1)
  OBVIOUS
<1> HIDE DEF new, x
<1>5. ms \in Seq(NodeType) /\ Len(ms) = n /\ ms[d] = x /\ \A i \in 1 .. n \ {d} : ms[i] = ns[i]
  BY <1>1, <1>3
<1>6. t = Append(ms, new)
  BY DEF new, x
<1> HIDE DEF ms
<1>7. /\ t \in Seq(NodeType) /\ Len(t) = n + 1 /\ t[n + 1] = new
      /\ \A i \in 1 .. n : t[i] = ms[i]
  BY <1>1, <1>4, <1>5, <1>6
<1>8. WellLinked(t)
  <2> SUFFICES ASSUME NEW i \in 1 .. n + 1 PROVE Linked(t[i], n + 1)
    BY <1>7 DEF WellLinked
  <2>1. CASE i = n + 1
    BY <1>4, <1>7, <2>1
  <2>2. CASE i = d
    BY <1>3, <1>5, <1>7, <2>2
  <2>3. CASE i \in 1 .. n \ {d}
    BY <1>2, <1>5, <1>7, <2>3
  <2> QED
    BY <1>1, <2>1, <2>2, <2>3
<1>9. t \in Tree
  BY <1>1, <1>7, <1>8 DEF Tree
<1> QED
  BY <1>5, <1>7, <1>9, <1>10 DEF new, Grown

\* RamFSCreateNode and RamFSAddChild.
LEMMA AddChildIs ==
    ASSUME NEW ns \in Tree, NEW d \in 1 .. Len(ns), NEW name \in Name, NEW type \in {"dir", "file"},
           NEW t, t = AddChild(ns, d, name, type)
    PROVE  Grown(ns, d, ns[d].count, name, type, t)
<1>1. ns[d].count \in 0 .. Len(ns[d].children)
  BY TreeIs
<1>2. t = Append([ns EXCEPT ![d] = PutChild(ns[d], ns[d].count, Len(ns) + 1)], Node(name, type))
  BY DEF AddChild
<1> QED
  BY <1>1, <1>2, NewNodeIs

\* The nodes while a path is attached, and the node it has come to.
Acc == {a \in [ns : Tree, at : Nat] : a.at <= Len(a.ns)}

LEMMA DescendIs ==
    ASSUME NEW a \in Acc, NEW name \in Name, NEW type \in {"dir", "file"}, NEW types
    PROVE  Descend(a, name, type, types) \in Acc
<1> DEFINE c == Child(a.ns, a.at, name, types)
           r == Descend(a, name, type, types)
<1>1. /\ a = [ns |-> a.ns, at |-> a.at] /\ a.ns \in Tree /\ a.at \in 0 .. Len(a.ns)
      /\ Len(a.ns) \in Nat
  BY TreeIs DEF Acc
<1>2. CASE a.at = 0
  BY <1>2 DEF Descend, NoNode
<1>3. CASE a.at # 0
  <2>1. a.at \in 1 .. Len(a.ns)
    BY <1>1, <1>3
  <2>2. c \in 0 .. Len(a.ns)
    BY <1>1, <2>1, ChildIs
  <2> HIDE DEF c
  <2>3. CASE c # 0
    <3>1. r = [ns |-> a.ns, at |-> c]
      BY <1>1, <1>3, <2>3 DEF Descend, NoNode, c
    <3> HIDE DEF r
    <3> QED
      BY <1>1, <2>2, <3>1 DEF Acc, r
  <2>4. CASE c = 0 /\ Len(a.ns) >= MaxNodes
    <3>1. r = [ns |-> a.ns, at |-> 0]
      BY <1>1, <1>3, <2>4 DEF Descend, NoNode, c
    <3> HIDE DEF r
    <3> QED
      BY <1>1, <3>1 DEF Acc, r
  <2>5. CASE c = 0 /\ ~(Len(a.ns) >= MaxNodes)
    <3> DEFINE ms == AddChild(a.ns, a.at, name, type)
    <3>1. r = [ns |-> ms, at |-> Len(a.ns) + 1]
      BY <1>3, <2>5 DEF Descend, NoNode, c
    <3>2. ms \in Tree /\ Len(ms) = Len(a.ns) + 1
      BY <1>1, <2>1, AddChildIs DEF Grown
    <3> HIDE DEF ms, r
    <3> QED
      BY <1>1, <3>1, <3>2 DEF Acc, r
  <2> QED
    BY <2>3, <2>4, <2>5
<1> QED
  BY <1>2, <1>3

LEMMA ParentIs ==
    ASSUME NEW ns \in Tree, NEW path \in Seq(Name), path # << >>
    PROVE  Parent(ns, path) \in Acc
<1> DEFINE n == Len(path) - 1
           a0 == [ns |-> ns, at |-> Root]
           P(f) == f = [k \in 0 .. n |-> IF k = 0 THEN a0 ELSE Descend(f[k - 1], path[k], "dir", {"dir"})]
           upTo == CHOOSE f : P(f)
           step == [p \in Nat \X Acc |-> IF p[1] \in 1 .. n THEN Descend(p[2], path[p[1]], "dir", {"dir"})
                                         ELSE p[2]]
<1>0. n \in Nat /\ \A k \in 1 .. n : path[k] \in Name
  OBVIOUS
<1>1. a0 \in Acc
  BY TreeIs DEF Acc, Root
<1>2. Parent(ns, path) = upTo[n]
  BY DEF Parent
<1> HIDE DEF n, a0
<1>3. \A k \in 1 .. n, a \in Acc : Descend(a, path[k], "dir", {"dir"}) \in Acc
  BY <1>0, DescendIs
<1>4. step \in [Nat \X Acc -> Acc]
  <2>1. \A p \in Nat \X Acc :
          (IF p[1] \in 1 .. n THEN Descend(p[2], path[p[1]], "dir", {"dir"}) ELSE p[2]) \in Acc
    BY <1>3
  <2> QED
    BY <2>1
<1>5. \E f : P(f)
  <2>1. PICK f \in [0 .. n -> Acc] : f[0] = a0 /\ \A k \in 1 .. n : f[k] = step[<<k, f[k - 1]>>]
    <3> HIDE DEF step, upTo, P
    <3>1. Iterations(n, Acc, a0, step) # {}
      BY <1>0, <1>1, <1>4, Recursion
    <3> QED
      BY <3>1 DEF Iterations, Iterates
  <2>2. ASSUME NEW k \in 1 .. n PROVE f[k] = Descend(f[k - 1], path[k], "dir", {"dir"})
    <3>1. k \in Nat /\ k - 1 \in 0 .. n
      BY <1>0
    <3>2. <<k, f[k - 1]>> \in Nat \X Acc
      BY <3>1
    <3>3. step[<<k, f[k - 1]>>] = Descend(f[k - 1], path[k], "dir", {"dir"})
      BY <3>2
    <3> QED
      BY <2>1, <3>3
  <2>3. ASSUME NEW k \in 0 .. n
        PROVE  f[k] = IF k = 0 THEN a0 ELSE Descend(f[k - 1], path[k], "dir", {"dir"})
    <3>1. k = 0 \/ k \in 1 .. n
      BY <1>0
    <3> QED
      BY <2>1, <2>2, <3>1
  <2>4. P(f)
    BY <2>3
  <2> QED
    BY <2>4
<1>6. P(upTo)
  <2> HIDE DEF P
  <2> QED
    BY <1>5, Zenon
<1> HIDE DEF upTo
<1>7. \A k \in 0 .. n : upTo[k] = IF k = 0 THEN a0 ELSE Descend(upTo[k - 1], path[k], "dir", {"dir"})
  BY <1>6
<1>8. upTo[0] = a0 /\ \A k \in 1 .. n : upTo[k] = Descend(upTo[k - 1], path[k], "dir", {"dir"})
  <2>1. 0 \in 0 .. n /\ \A k \in 1 .. n : k \in 0 .. n /\ k # 0
    BY <1>0
  <2> HIDE DEF P
  <2> QED
    BY <1>7, <2>1
<1>9. \A k \in 0 .. n : upTo[k] \in Acc
  <2>1. \A k \in 1 .. n : upTo[k - 1] \in Acc => upTo[k] \in Acc
    BY <1>3, <1>8
  <2> HIDE DEF P
  <2> QED
    BY <1>0, <1>1, <1>8, <2>1, StaysIn
<1> QED
  BY <1>0, <1>2, <1>9

\* RamFSAttachPath.
LEMMA AttachPathIs ==
    ASSUME NEW ns \in Tree, NEW path \in Seq(Name), NEW type \in {"dir", "file"}, NEW data \in Seq(Byte)
    PROVE  AttachPath(ns, path, type, data).ns \in Tree
<1> DEFINE parent == Parent(ns, path)
           leaf == IF parent.at = NoNode THEN parent
                   ELSE Descend(parent, Last(path), type, {"dir", "file"})
           r == AttachPath(ns, path, type, data)
<1>1. CASE path = << >>
  BY <1>1 DEF AttachPath
<1>2. CASE path # << >>
  <2>1. Last(path) \in Name
    <3>1. Len(path) \in 1 .. Len(path)
      BY <1>2
    <3> QED
      BY <3>1 DEF Last
  <2>2. parent \in Acc
    BY <1>2, ParentIs
  <2>3. r = IF leaf.at = NoNode \/ type = "dir" THEN leaf ELSE [leaf EXCEPT !.ns[leaf.at].data = data]
    BY <1>2 DEF AttachPath
  <2> HIDE DEF parent, r
  <2>4. leaf \in Acc
    BY <2>1, <2>2, DescendIs
  <2> HIDE DEF leaf
  <2>5. leaf.ns \in Tree /\ leaf.at \in 0 .. Len(leaf.ns) /\ Len(leaf.ns) \in Nat
        /\ leaf = [ns |-> leaf.ns, at |-> leaf.at]
    BY <2>4, TreeIs DEF Acc
  <2>6. CASE leaf.at = NoNode \/ type = "dir"
    BY <2>3, <2>5, <2>6 DEF r
  <2>7. CASE ~(leaf.at = NoNode \/ type = "dir")
    <3> DEFINE ms == leaf.ns
               i == leaf.at
               x == [ms[i] EXCEPT !.data = data]
               t == [ms EXCEPT ![i] = x]
    <3>1. i \in 1 .. Len(ms) /\ ms \in Tree
      BY <2>5, <2>7 DEF NoNode
    <3>2. r.ns = t
      BY <2>3, <2>5, <2>7
    <3>3. ms[i] \in NodeType /\ ms \in Seq(NodeType) /\ Len(ms) >= 1 /\ WellLinked(ms)
      BY <3>1, TreeIs DEF Tree
    <3> HIDE DEF ms, i
    <3>4. x \in NodeType /\ x.children = ms[i].children /\ x.count = ms[i].count
      BY <3>3 DEF NodeType
    <3> HIDE DEF x
    <3>5. Linked(x, Len(ms))
      BY <3>1, <3>3, <3>4 DEF WellLinked, Linked
    <3>6. t \in Tree
      BY <3>1, <3>4, <3>5, ReplaceIs
    <3> QED
      BY <3>2, <3>6 DEF r
  <2> QED
    BY <2>6, <2>7
<1> QED
  BY <1>1, <1>2


\* RamFSMount: the tree after boot.
LEMMA MountedTree == RamFSMount(Archive) \in Tree
<1> DEFINE n == Len(Archive)
           Next1(ns, e) == AttachPath(ns, e[1], e[2], e[3]).ns
           P(f) == f = [k \in 0 .. n |-> IF k = 0 THEN RootOnly ELSE Next1(f[k - 1], Archive[k])]
           upTo == CHOOSE f : P(f)
           step == [p \in Nat \X Tree |-> IF p[1] \in 1 .. n THEN Next1(p[2], Archive[p[1]]) ELSE p[2]]
<1>1. n \in Nat /\ \A k \in 1 .. n : Archive[k] \in Seq(Name) \X {"dir", "file"} \X Seq(Byte)
  <2>1. Archive \in Seq(Seq(Name) \X {"dir", "file"} \X Seq(Byte))
    BY RamFsAssumption
  <2> QED
    BY <2>1
<1>2. RootOnly \in Tree
  <2> DEFINE x == Node(<< >>, "dir")
  <2>1. x \in NodeType /\ Linked(x, 1)
    <3>1. << >> \in Name
      BY DEF Name
    <3> QED
      BY <3>1 DEF Node, NodeType, Linked
  <2>2. RootOnly = <<x>>
    BY DEF RootOnly
  <2> HIDE DEF x
  <2>3. <<x>> \in Seq(NodeType) /\ Len(<<x>>) = 1 /\ <<x>>[1] = x
    BY <2>1
  <2>4. WellLinked(<<x>>)
    BY <2>1, <2>3 DEF WellLinked
  <2> QED
    BY <2>2, <2>3, <2>4 DEF Tree
<1>3. RamFSMount(Archive) = upTo[n]
  BY DEF RamFSMount
<1>4. \A k \in 1 .. n, ns \in Tree : Next1(ns, Archive[k]) \in Tree
  <2> SUFFICES ASSUME NEW k \in 1 .. n, NEW ns \in Tree PROVE Next1(ns, Archive[k]) \in Tree
    OBVIOUS
  <2>1. Archive[k][1] \in Seq(Name) /\ Archive[k][2] \in {"dir", "file"} /\ Archive[k][3] \in Seq(Byte)
    BY <1>1
  <2> QED
    BY <2>1, AttachPathIs
<1> HIDE DEF n, Next1
<1>5. step \in [Nat \X Tree -> Tree]
  <2>1. \A p \in Nat \X Tree : (IF p[1] \in 1 .. n THEN Next1(p[2], Archive[p[1]]) ELSE p[2]) \in Tree
    BY <1>4
  <2> QED
    BY <2>1
<1>6. \E f : P(f)
  <2>1. PICK f \in [0 .. n -> Tree] : f[0] = RootOnly /\ \A k \in 1 .. n : f[k] = step[<<k, f[k - 1]>>]
    <3> HIDE DEF step, upTo, P
    <3>1. Iterations(n, Tree, RootOnly, step) # {}
      BY <1>1, <1>2, <1>5, Recursion
    <3> QED
      BY <3>1 DEF Iterations, Iterates
  <2>2. ASSUME NEW k \in 1 .. n PROVE f[k] = Next1(f[k - 1], Archive[k])
    <3>1. k \in Nat /\ k - 1 \in 0 .. n
      BY <1>1
    <3>2. <<k, f[k - 1]>> \in Nat \X Tree
      BY <3>1
    <3>3. step[<<k, f[k - 1]>>] = Next1(f[k - 1], Archive[k])
      BY <3>2
    <3> QED
      BY <2>1, <3>3
  <2>3. ASSUME NEW k \in 0 .. n
        PROVE  f[k] = IF k = 0 THEN RootOnly ELSE Next1(f[k - 1], Archive[k])
    <3>1. k = 0 \/ k \in 1 .. n
      BY <1>1
    <3> QED
      BY <2>1, <2>2, <3>1
  <2>4. P(f)
    BY <2>3
  <2> QED
    BY <2>4
<1>7. P(upTo)
  <2> HIDE DEF P
  <2> QED
    BY <1>6, Zenon
<1> HIDE DEF upTo
<1>8. \A k \in 0 .. n : upTo[k] = IF k = 0 THEN RootOnly ELSE Next1(upTo[k - 1], Archive[k])
  BY <1>7
<1>9. upTo[0] = RootOnly /\ \A k \in 1 .. n : upTo[k] = Next1(upTo[k - 1], Archive[k])
  <2>1. 0 \in 0 .. n /\ \A k \in 1 .. n : k \in 0 .. n /\ k # 0
    BY <1>1
  <2> HIDE DEF P
  <2> QED
    BY <1>8, <2>1
<1>10. \A k \in 0 .. n : upTo[k] \in Tree
  <2>1. \A k \in 1 .. n : upTo[k - 1] \in Tree => upTo[k] \in Tree
    BY <1>4, <1>9
  <2> HIDE DEF P
  <2> QED
    BY <1>1, <1>2, <1>9, <2>1, StaysIn
<1> QED
  BY <1>1, <1>3, <1>10


-----------------------------------------------------------------------------
(* The descriptor table *)

Entries == {e \in EntryType : IF e.kind = "file" THEN e.obj \in FileIds ELSE e.obj \in PipeIds}
Tables == [Fds -> Entries \cup {NoEntry}]
InUse(t) == {fd \in Fds : t[fd] # NoEntry}

\* Every entry is well formed, and Count is the number of those in use.
TableInv ==
    /\ fds \in Tables
    /\ count = Cardinality(InUse(fds))
    /\ opens \in Nat

LEMMA EntriesIs ==
    /\ NoEntry \notin Entries
    /\ \A e \in Entries : /\ e \in EntryType /\ e.refcnt \in Nat /\ e.birth \in Nat
                          /\ e.kind \in {"file", "pipe"}
                          /\ e.kind = "file" => e.obj \in FileIds
                          /\ e.kind = "pipe" => e.obj \in PipeIds
  BY FdAssumption DEF Entries, EntryType

LEMMA InUseIsFinite ==
    ASSUME NEW t
    PROVE  IsFiniteSet(InUse(t)) /\ Cardinality(InUse(t)) \in Nat
<1>1. IsFiniteSet(Fds)
  BY FdAssumption, FS_Interval DEF Fds
<1>2. InUse(t) \subseteq Fds
  BY DEF InUse
<1> QED
  BY <1>1, <1>2, FS_Subset, FS_CardinalityType

\* t with one more entry in use.
Taken(t, fd, u) ==
    /\ u \in Tables /\ u[fd] # NoEntry
    /\ \A i \in Fds \ {fd} : u[i] = t[i]
    /\ Cardinality(InUse(u)) = Cardinality(InUse(t)) + 1

LEMMA TakenIs ==
    ASSUME NEW t \in Tables, NEW fd \in Fds, t[fd] = NoEntry, NEW e \in Entries,
           NEW u, u = [t EXCEPT ![fd] = e]
    PROVE  Taken(t, fd, u)
<1>1. u \in Tables /\ u[fd] = e /\ \A i \in Fds \ {fd} : u[i] = t[i]
  BY DEF Tables
<1>2. e # NoEntry
  BY EntriesIs
<1>3. InUse(u) = InUse(t) \cup {fd} /\ fd \notin InUse(t)
  BY <1>1, <1>2 DEF InUse
<1>4. Cardinality(InUse(u)) = Cardinality(InUse(t)) + 1
  BY <1>3, InUseIsFinite, FS_AddElement
<1> QED
  BY <1>1, <1>2, <1>4 DEF Taken

LEMMA FreedIs ==
    ASSUME NEW t \in Tables, NEW fd \in Fds, t[fd] # NoEntry,
           NEW u, u = [t EXCEPT ![fd] = NoEntry]
    PROVE  u \in Tables /\ Cardinality(InUse(u)) = Cardinality(InUse(t)) - 1
<1>1. u \in Tables /\ u[fd] = NoEntry /\ \A i \in Fds \ {fd} : u[i] = t[i]
  BY DEF Tables
<1>2. InUse(u) = InUse(t) \ {fd} /\ fd \in InUse(t)
  BY <1>1 DEF InUse
<1>3. Cardinality(InUse(u)) = Cardinality(InUse(t)) - 1
  BY <1>2, InUseIsFinite, FS_RemoveElement
<1> QED
  BY <1>1, <1>3

\* __FindFreeFd__.
LEMMA FreeFdIs ==
    ASSUME NEW start \in Nat, FreeFds(start) # {}
    PROVE  /\ Min(FreeFds(start)) \in Fds /\ Min(FreeFds(start)) \in Nat
           /\ fds[Min(FreeFds(start))] = NoEntry
           /\ Min(FreeFds(start)) >= start
<1>1. FreeFds(start) \in SUBSET Nat
  BY FdAssumption DEF FreeFds, Fds
<1>2. Min(FreeFds(start)) \in FreeFds(start)
  BY <1>1, MinIs
<1> QED
  BY <1>1, <1>2 DEF FreeFds

LEMMA EntryIs ==
    ASSUME NEW b \in Nat
    PROVE  /\ \A f \in FileIds : Entry(f, "file", b) \in Entries
           /\ \A p \in PipeIds : Entry(p, "pipe", b) \in Entries
  BY DEF Entry, Entries, EntryType

LEMMA OpenKeepsTable ==
    ASSUME TableInv, NEW c \in Cpus, NEW p \in Paths, PosixOpen(c, p)
    PROVE  TableInv'
<1>1. CASE UNCHANGED <<fds, count, opens>>
  BY <1>1 DEF TableInv, InUse
<1>2. CASE ~UNCHANGED <<fds, count, opens>>
  <2> DEFINE fd == Min(FreeFds(0))
  <2>1. PICK f \in FileIds : fds' = [fds EXCEPT ![fd] = Entry(f, "file", opens + 1)]
    BY <1>2 DEF PosixOpen
  <2>2. count' = count + 1 /\ opens' = opens + 1 /\ FreeFds(0) # {}
    BY <1>2 DEF PosixOpen
  <2>3. fd \in Fds /\ fds[fd] = NoEntry
    BY <2>2, FreeFdIs
  <2>4. Entry(f, "file", opens + 1) \in Entries
    BY EntryIs DEF TableInv
  <2> HIDE DEF fd
  <2>5. Taken(fds, fd, fds')
    BY <2>1, <2>3, <2>4, TakenIs DEF TableInv
  <2> QED
    BY <2>2, <2>5 DEF TableInv, Taken
<1> QED
  BY <1>1, <1>2

LEMMA PipeKeepsTable ==
    ASSUME TableInv, NEW c \in Cpus, PosixPipe(c)
    PROVE  TableInv'
<1> DEFINE rd == Min(FreeFds(0))
           wr == Min(FreeFds(rd + 1))
<1>1. PICK p \in PipeIds : fds' = [fds EXCEPT ![rd] = Entry(p, "pipe", opens + 1),
                                              ![wr] = Entry(p, "pipe", opens + 1)]
  BY DEF PosixPipe
<1>2. /\ count' = count + 2 /\ opens' = opens + 1
      /\ FreeFds(0) # {} /\ FreeFds(rd + 1) # {}
  BY DEF PosixPipe, PipeCount
<1>3. rd \in Fds /\ rd \in Nat /\ fds[rd] = NoEntry
  BY <1>2, FreeFdIs
<1> HIDE DEF rd
<1>4. wr \in Fds /\ wr \in Nat /\ fds[wr] = NoEntry /\ wr >= rd + 1
  BY <1>2, <1>3, FreeFdIs
<1> HIDE DEF wr
<1>5. Entry(p, "pipe", opens + 1) \in Entries
  BY EntryIs DEF TableInv
<1> DEFINE t == [fds EXCEPT ![rd] = Entry(p, "pipe", opens + 1)]
<1>6. fds' = [t EXCEPT ![wr] = Entry(p, "pipe", opens + 1)]
  BY <1>1
<1>7. Taken(fds, rd, t)
  BY <1>3, <1>5, TakenIs DEF TableInv
<1> HIDE DEF t
<1>8. t \in Tables /\ t[wr] = NoEntry
  BY <1>3, <1>4, <1>7 DEF Taken
<1>9. Taken(t, wr, fds')
  BY <1>4, <1>5, <1>6, <1>8, TakenIs
<1>10. fds' \in Tables /\ Cardinality(InUse(fds')) = count + 2
  BY <1>7, <1>9, InUseIsFinite DEF TableInv, Taken
<1> QED
  BY <1>2, <1>10 DEF TableInv, InUse

LEMMA CloseKeepsTable ==
    ASSUME TableInv, NEW c \in Cpus, NEW fd \in Fds, PosixClose(c, fd)
    PROVE  TableInv'
<1>1. fds[fd] # NoEntry /\ fds \in Tables /\ fds[fd] \in Entries
  BY DEF PosixClose, TableInv, Tables
<1>2. opens' = opens
  BY DEF PosixClose
<1>3. CASE count' = count /\ fds' = [fds EXCEPT ![fd].refcnt = @ - 1] /\ fds[fd].refcnt > 1
  <2> DEFINE e == [fds[fd] EXCEPT !.refcnt = @ - 1]
  <2>1. fds[fd].refcnt - 1 \in Nat
    BY <1>1, <1>3, EntriesIs
  <2>2. e \in Entries
    BY <1>1, <2>1 DEF Entries, EntryType
  <2>3. fds' = [fds EXCEPT ![fd] = e]
    BY <1>3
  <2> HIDE DEF e
  <2>4. e # NoEntry
    BY <2>2, EntriesIs
  <2>5. fds' \in Tables /\ InUse(fds') = InUse(fds)
    BY <1>1, <2>2, <2>3, <2>4 DEF Tables, InUse
  <2> QED
    BY <1>2, <1>3, <2>5 DEF TableInv
<1>4. CASE DropEntry(fd)
  <2>1. fds' \in Tables /\ Cardinality(InUse(fds')) = Cardinality(InUse(fds)) - 1
    BY <1>1, <1>4, FreedIs DEF DropEntry
  <2> QED
    BY <1>2, <1>4, <2>1 DEF TableInv, DropEntry
<1> QED
  BY <1>3, <1>4 DEF PosixClose

LEMMA CopyKeepsTable ==
    ASSUME TableInv, NEW fd \in Fds, NEW new \in Fds, fds[fd] # NoEntry, fds[new] = NoEntry,
           Copy(fd, new)
    PROVE  TableInv'
<1> DEFINE e == [fds[fd] EXCEPT !.refcnt = @ + 1]
<1>1. fds \in Tables /\ fds[fd] \in Entries
  BY DEF TableInv, Tables
<1>2. e \in Entries
  BY <1>1, EntriesIs DEF Entries, EntryType
<1>3. fds' = [fds EXCEPT ![new] = e] /\ count' = count + 1 /\ opens' = opens
  BY DEF Copy
<1> HIDE DEF e
<1>4. Taken(fds, new, fds')
  BY <1>1, <1>2, <1>3, TakenIs
<1> QED
  BY <1>3, <1>4 DEF TableInv, Taken

LEMMA TableInvariant == FdSpec => []TableInv
<1>1. FdInit => TableInv
  <2> SUFFICES ASSUME FdInit PROVE TableInv
    OBVIOUS
  <2>1. fds \in Tables /\ InUse(fds) = {} /\ count = 0 /\ opens = 0
    BY DEF FdInit, Tables, InUse
  <2> QED
    BY <2>1, FS_EmptySet DEF TableInv
<1>2. TableInv /\ [FdNext]_allVars => TableInv'
  <2> SUFFICES ASSUME TableInv, [FdNext]_allVars PROVE TableInv'
    OBVIOUS
  <2>1. CASE UNCHANGED <<fds, count, opens>>
    BY <2>1 DEF TableInv, InUse
  <2>2. CASE \E c \in Cpus, p \in Paths : PosixOpen(c, p)
    BY <2>2, OpenKeepsTable
  <2>3. CASE \E c \in Cpus : PosixPipe(c)
    BY <2>3, PipeKeepsTable
  <2>4. CASE \E c \in Cpus, fd \in Fds : PosixClose(c, fd)
    BY <2>4, CloseKeepsTable
  <2>5. CASE \E fd \in Fds : PosixDup(fd)
    <3>1. PICK fd \in Fds : PosixDup(fd)
      BY <2>5
    <3> DEFINE new == Min(FreeFds(0))
    <3>2. fds[fd] # NoEntry /\ Copy(fd, new) /\ FreeFds(0) # {}
      BY <3>1 DEF PosixDup
    <3>3. new \in Fds /\ fds[new] = NoEntry
      BY <3>2, FreeFdIs
    <3> HIDE DEF new
    <3> QED
      BY <3>2, <3>3, CopyKeepsTable
  <2>6. CASE \E fd, new \in Fds : PosixDup2(fd, new)
    <3>1. PICK fd \in Fds, new \in Fds : PosixDup2(fd, new)
      BY <2>6
    <3> QED
      BY <2>1, <3>1, CopyKeepsTable DEF PosixDup2
  <2>7. CASE \E c \in Cpus, fd \in Fds, n \in ReadLens : PosixRead(c, fd, n)
    BY <2>1, <2>7 DEF PosixRead
  <2>8. CASE \E c \in Cpus, fd \in Fds, d \in Chunks : PosixWrite(c, fd, d)
    BY <2>1, <2>8 DEF PosixWrite
  <2>9. CASE \E c \in Cpus, fd \in Fds, off \in {0, 1}, w \in {"set", "cur"} : PosixLseek(c, fd, off, w)
    BY <2>1, <2>9 DEF PosixLseek, fdVars
  <2>10. CASE UNCHANGED allVars
    BY <2>1, <2>10 DEF allVars, fdVars
  <2> QED
    BY <2>2, <2>3, <2>4, <2>5, <2>6, <2>7, <2>8, <2>9, <2>10 DEF FdNext
<1> QED
  BY <1>1, <1>2, PTL DEF FdSpec

\* PosixFdTable.Count is the number of entries in use, for any size of the
\* table and any number of openings and copies.
THEOREM DescriptorsAreCounted == FdSpec => []CountIsOpen
<1>1. TableInv => CountIsOpen
  BY DEF TableInv, CountIsOpen, InUse
<1> QED
  BY <1>1, TableInvariant, PTL


-----------------------------------------------------------------------------
(* Pipes *)

\* One division: less than two rounds of the ring are ever added up.
LEMMA WrapIs ==
    ASSUME NEW x \in Nat, x < 2 * PipeCap
    PROVE  x % PipeCap = IF x < PipeCap THEN x ELSE x - PipeCap
<1> DEFINE q == x \div PipeCap
           m == x % PipeCap
<1>1. PipeCap \in Nat \ {0}
  BY FdAssumption
<1>2. q \in Nat /\ m \in 0 .. PipeCap - 1 /\ Splits(x, PipeCap, q, m)
  BY <1>1, RemainderIs
<1> HIDE DEF q, m
<1>3. x = q * PipeCap + m
  BY <1>2 DEF Splits
<1>4. CASE q = 0
  BY <1>1, <1>2, <1>3, <1>4 DEF m
<1>5. CASE q = 1
  BY <1>1, <1>2, <1>3, <1>5 DEF m
<1>6. CASE q >= 2
  <2> DEFINE y == q * PipeCap
  <2>1. y \in Nat /\ 2 * PipeCap <= y
    BY <1>1, <1>2, <1>6, TimesIsMonotonic
  <2>2. x = y + m
    BY <1>3
  <2> HIDE DEF y
  <2> QED
    BY <1>1, <1>2, <2>1, <2>2
<1> QED
  BY <1>2, <1>4, <1>5, <1>6

Wrap(x) == IF x < PipeCap THEN x ELSE x - PipeCap

\* Places less than a round from the same start are apart, and moving on twice
\* is moving on by the sum.
LEMMA WrapApart ==
    ASSUME NEW x \in 0 .. PipeCap - 1, NEW a \in 0 .. PipeCap - 1, NEW b \in 0 .. PipeCap - 1,
           NEW m, m = x + a, NEW n, n = x + b, Wrap(m) = Wrap(n)
    PROVE  a = b
<1>1. PipeCap \in Nat
  BY FdAssumption
<1> QED
  BY <1>1 DEF Wrap

LEMMA FreeIsApart ==
    ASSUME NEW x \in 0 .. PipeCap - 1, NEW len \in 0 .. PipeCap, NEW i \in 1 .. len,
           NEW j \in Nat, j >= 1, len + j <= PipeCap
    PROVE  Wrap(x + i - 1) # Wrap(x + (len + j) - 1)
<1> DEFINE a == i - 1
           b == len + j - 1
           m == x + i - 1
           n == x + (len + j) - 1
<1>1. PipeCap \in Nat
  BY FdAssumption
<1>2. m = x + a /\ n = x + b /\ a \in 0 .. PipeCap - 1 /\ b \in 0 .. PipeCap - 1 /\ a # b
  BY <1>1
<1> HIDE DEF a, b, m, n
<1>3. Wrap(m) # Wrap(n)
  BY <1>2, WrapApart
<1> QED
  BY <1>3 DEF m, n

LEMMA WrapMoves ==
    ASSUME NEW x \in 0 .. PipeCap - 1, NEW a \in 0 .. PipeCap, NEW b \in Nat, a + b <= PipeCap,
           NEW y, y = Wrap(x + a), NEW m, m = y + b, NEW n, n = x + (a + b)
    PROVE  Wrap(m) = Wrap(n)
<1>1. PipeCap \in Nat
  BY FdAssumption
<1> QED
  BY <1>1 DEF Wrap

\* A ring's tail is its head moved on by the bytes in it.
Rings == {r \in PipeType : /\ r.head < PipeCap /\ r.tail < PipeCap /\ r.len <= PipeCap
                           /\ r.tail = Wrap(r.head + r.len)}

LEMMA RingIs ==
    ASSUME NEW r \in Rings
    PROVE  /\ r \in PipeType /\ r.buf \in [0 .. PipeCap - 1 -> Byte]
           /\ r.head \in 0 .. PipeCap - 1 /\ r.tail \in 0 .. PipeCap - 1 /\ r.len \in 0 .. PipeCap
           /\ r.tail = Wrap(r.head + r.len)
           /\ PipeCap \in Nat /\ PipeCap > 0
<1>1. PipeCap \in Nat /\ PipeCap > 0
  BY FdAssumption
<1>2. r \in PipeType /\ r.buf \in [0 .. PipeCap - 1 -> Byte]
      /\ r.head \in Nat /\ r.tail \in Nat /\ r.len \in Nat
  BY DEF Rings, PipeType
<1>3. r.head < PipeCap /\ r.tail < PipeCap /\ r.len <= PipeCap /\ r.tail = Wrap(r.head + r.len)
  BY DEF Rings
<1> QED
  BY <1>1, <1>2, <1>3

\* What is in a ring: len bytes, from the head on.
LEMMA RingBytesIs ==
    ASSUME NEW r \in Rings
    PROVE  /\ RingBytes(r) \in Seq(Byte) /\ Len(RingBytes(r)) = r.len
           /\ \A i \in 1 .. r.len : /\ RingBytes(r)[i] = r.buf[Wrap(r.head + i - 1)]
                                    /\ Wrap(r.head + i - 1) \in 0 .. PipeCap - 1
<1>1. \A i \in 1 .. r.len : /\ r.head + i - 1 \in Nat /\ r.head + i - 1 < 2 * PipeCap
                            /\ Wrap(r.head + i - 1) \in 0 .. PipeCap - 1
  BY RingIs, SMTT(30) DEF Wrap
<1>2. \A i \in 1 .. r.len : (r.head + i - 1) % PipeCap = Wrap(r.head + i - 1)
  BY <1>1, WrapIs DEF Wrap
<1> DEFINE s == [i \in 1 .. r.len |-> r.buf[(r.head + i - 1) % PipeCap]]
<1>3. \A i \in 1 .. r.len : s[i] = r.buf[Wrap(r.head + i - 1)] /\ s[i] \in Byte
  BY <1>1, <1>2, RingIs
<1>4. s \in [1 .. r.len -> Byte]
  <2>1. s = [i \in 1 .. r.len |-> s[i]]
    OBVIOUS
  <2> HIDE DEF s
  <2> QED
    BY <1>3, <2>1
<1>5. RingBytes(r) = s
  BY DEF RingBytes
<1> HIDE DEF s
<1>6. s \in Seq(Byte) /\ Len(s) = r.len
  BY <1>4, RingIs
<1> QED
  BY <1>1, <1>3, <1>5, <1>6

\* Least of AbstractPipe.
LEMMA LeastIs ==
    ASSUME NEW a \in Int, NEW b \in Int
    PROVE  Pipe!Least(a, b) = Min({a, b})
  BY MinOfTwo DEF Pipe!Least

\* __PipeRead__ takes the first bytes of the queue.
LEMMA PipeReadIs ==
    ASSUME NEW r \in Rings, NEW n \in Nat
    PROVE  /\ PipeRead(r, n).ring \in Rings
           /\ PipeRead(r, n).bytes = SubSeq(RingBytes(r), 1, Pipe!Least(n, r.len))
           /\ RingBytes(PipeRead(r, n).ring) = SubSeq(RingBytes(r), Pipe!Least(n, r.len) + 1, r.len)
<1> DEFINE k == Min({n, r.len})
           q == RingBytes(r)
           bytes == [j \in 1 .. k |-> r.buf[(r.head + j - 1) % PipeCap]]
           s1 == [r EXCEPT !.head = (r.head + k) % PipeCap]
           s == [s1 EXCEPT !.len = r.len - k]
<1>1. r.len \in Nat
  BY RingIs
<1>2. k \in Nat /\ k <= r.len /\ k = Pipe!Least(n, r.len)
  BY <1>1, MinOfTwo, LeastIs
<1>3. PipeRead(r, n).bytes = bytes /\ PipeRead(r, n).ring = s
  BY DEF PipeRead
<1> HIDE DEF k
<1>4. (r.head + k) % PipeCap = Wrap(r.head + k) /\ Wrap(r.head + k) \in 0 .. PipeCap - 1
  <2>1. r.head + k \in Nat /\ r.head + k < 2 * PipeCap
    BY <1>2, RingIs
  <2>2. (r.head + k) % PipeCap = Wrap(r.head + k)
    BY <2>1, WrapIs DEF Wrap
  <2> QED
    BY <2>1, <2>2, RingIs DEF Wrap
<1>5. /\ s \in PipeType /\ s.buf = r.buf /\ s.head = Wrap(r.head + k) /\ s.tail = r.tail
      /\ s.len = r.len - k
  <2>1. r.len - k \in Nat /\ Wrap(r.head + k) \in Nat
    BY <1>1, <1>2, <1>4, RingIs
  <2>2. s1 = [r EXCEPT !.head = Wrap(r.head + k)]
    BY <1>4
  <2> HIDE DEF s1
  <2>3. s1 \in PipeType /\ s1.buf = r.buf /\ s1.head = Wrap(r.head + k) /\ s1.tail = r.tail
    BY <2>1, <2>2, RingIs DEF PipeType
  <2> QED
    BY <2>1, <2>3 DEF PipeType
<1> HIDE DEF s
<1>6. s \in Rings
  <2>1. s.tail = Wrap(s.head + s.len)
    BY <1>1, <1>2, <1>5, RingIs DEF Wrap
  <2>2. s.head < PipeCap /\ s.tail < PipeCap /\ s.len <= PipeCap
    BY <1>1, <1>2, <1>4, <1>5, RingIs
  <2> QED
    BY <1>5, <2>1, <2>2 DEF Rings
<1>7. q \in Seq(Byte) /\ Len(q) = r.len /\ \A i \in 1 .. r.len : q[i] = r.buf[Wrap(r.head + i - 1)]
  BY RingBytesIs
<1>8. bytes = SubSeq(q, 1, k)
  <2> DEFINE w == SubSeq(q, 1, k)
  <2>1. ASSUME NEW i \in 1 .. k PROVE bytes[i] = q[i] /\ q[i] \in Byte
    <3>1. i \in 1 .. r.len
      BY <1>1, <1>2
    <3>2. bytes[i] = q[i]
      BY <3>1 DEF RingBytes
    <3> QED
      BY <1>7, <3>1, <3>2
  <2>2. bytes \in [1 .. k -> Byte]
    <3>1. bytes = [i \in 1 .. k |-> bytes[i]]
      OBVIOUS
    <3> HIDE DEF bytes, q
    <3> QED
      BY <2>1, <3>1
  <2> HIDE DEF bytes, q
  <2>3. bytes \in Seq(Byte) /\ Len(bytes) = k
    BY <1>2, <2>2
  <2>4. w \in Seq(Byte) /\ Len(w) = k /\ \A i \in 1 .. k : w[i] = q[i]
    BY <1>1, <1>2, <1>7
  <2> HIDE DEF w
  <2> QED
    BY <2>1, <2>3, <2>4, SeqEqual DEF w
<1>9. RingBytes(s) = SubSeq(q, k + 1, r.len)
  <2> DEFINE z == RingBytes(s)
             w == SubSeq(q, k + 1, r.len)
  <2>1. z \in Seq(Byte) /\ Len(z) = r.len - k
        /\ \A i \in 1 .. r.len - k : z[i] = r.buf[Wrap(Wrap(r.head + k) + i - 1)]
    BY <1>5, <1>6, RingBytesIs
  <2> HIDE DEF q
  <2>2. w \in Seq(Byte) /\ Len(w) = r.len - k /\ \A i \in 1 .. r.len - k : w[i] = q[k + i]
    BY <1>1, <1>2, <1>7
  <2> HIDE DEF w, z
  <2>3. ASSUME NEW i \in 1 .. r.len - k PROVE z[i] = w[i]
    <3>1. k + i \in 1 .. r.len
      BY <1>1, <1>2
    <3>2. Wrap(Wrap(r.head + k) + i - 1) = Wrap(r.head + (k + i) - 1)
      BY <1>1, <1>2, RingIs, SMTT(30) DEF Wrap
    <3> QED
      BY <1>7, <2>1, <2>2, <3>1, <3>2
  <2> QED
    BY <2>1, <2>2, <2>3, SeqEqual DEF z, w
<1> QED
  BY <1>2, <1>3, <1>6, <1>8, <1>9


\* The buffer after the first k bytes of d have been stored from the tail on.
Filled(r, d, k) == [i \in DOMAIN r.buf |->
                      IF \E j \in 1 .. k : (r.tail + j - 1) % PipeCap = i
                      THEN d[CHOOSE j \in 1 .. k : (r.tail + j - 1) % PipeCap = i] ELSE r.buf[i]]

\* b is the buffer of r, with the first k bytes of d from the tail on.
IsFilled(b, r, d, k) ==
    /\ b \in [0 .. PipeCap - 1 -> Byte]
    /\ \A j \in 1 .. k : b[Wrap(r.tail + j - 1)] = d[j]
    /\ \A i \in 0 .. PipeCap - 1 : (\A j \in 1 .. k : Wrap(r.tail + j - 1) # i) => b[i] = r.buf[i]

LEMMA FilledIs ==
    ASSUME NEW r \in Rings, NEW d \in Seq(Byte), NEW k \in Nat, k <= Len(d), k <= PipeCap - r.len,
           NEW b, b = Filled(r, d, k)
    PROVE  IsFilled(b, r, d, k)
<1> DEFINE A(i) == {j \in 1 .. k : (r.tail + j - 1) % PipeCap = i}
           at(i) == CHOOSE j \in 1 .. k : (r.tail + j - 1) % PipeCap = i
<1>1. DOMAIN r.buf = 0 .. PipeCap - 1 /\ r.buf \in [0 .. PipeCap - 1 -> Byte]
  BY RingIs
<1>2. \A i \in 0 .. PipeCap - 1 :
        b[i] = IF \E j \in 1 .. k : (r.tail + j - 1) % PipeCap = i THEN d[at(i)] ELSE r.buf[i]
  BY <1>1, Zenon DEF Filled
<1>3. ASSUME NEW j \in 1 .. k
      PROVE  (r.tail + j - 1) % PipeCap = Wrap(r.tail + j - 1) /\ Wrap(r.tail + j - 1) \in 0 .. PipeCap - 1
  <2>1. r.tail + j - 1 \in Nat /\ r.tail + j - 1 < 2 * PipeCap
    BY RingIs
  <2>2. (r.tail + j - 1) % PipeCap = Wrap(r.tail + j - 1)
    BY <2>1, WrapIs DEF Wrap
  <2> QED
    BY <2>1, <2>2, RingIs DEF Wrap
<1>4. ASSUME NEW j \in 1 .. k, NEW h \in 1 .. k, Wrap(r.tail + j - 1) = Wrap(r.tail + h - 1)
      PROVE  j = h
  <2> DEFINE a == j - 1
             b1 == h - 1
             m == r.tail + j - 1
             n == r.tail + h - 1
  <2>1. a \in 0 .. PipeCap - 1 /\ b1 \in 0 .. PipeCap - 1 /\ r.tail \in 0 .. PipeCap - 1
    BY RingIs
  <2>2. m = r.tail + a /\ n = r.tail + b1 /\ Wrap(m) = Wrap(n)
    BY <1>4, RingIs
  <2>3. a = b1 => j = h
    OBVIOUS
  <2> HIDE DEF a, b1, m, n
  <2> QED
    BY <2>1, <2>2, <2>3, WrapApart
<1>5. ASSUME NEW i, \E j \in 1 .. k : (r.tail + j - 1) % PipeCap = i
      PROVE  at(i) \in 1 .. k /\ (r.tail + at(i) - 1) % PipeCap = i
  BY <1>5, Zenon
<1> HIDE DEF at
<1>6. ASSUME NEW j \in 1 .. k PROVE b[Wrap(r.tail + j - 1)] = d[j]
  <2> DEFINE i == Wrap(r.tail + j - 1)
  <2>1. i \in 0 .. PipeCap - 1 /\ (r.tail + j - 1) % PipeCap = i
    BY <1>3
  <2> HIDE DEF i
  <2>2. at(i) \in 1 .. k /\ (r.tail + at(i) - 1) % PipeCap = i
    BY <1>5, <2>1
  <2>3. at(i) = j
    BY <1>3, <1>4, <2>1, <2>2
  <2>4. b[i] = d[at(i)]
    BY <1>2, <2>1
  <2> QED
    BY <2>3, <2>4 DEF i
<1>7. ASSUME NEW i \in 0 .. PipeCap - 1, \A j \in 1 .. k : Wrap(r.tail + j - 1) # i
      PROVE  b[i] = r.buf[i]
  BY <1>2, <1>3, <1>7
<1>8. \A i \in 0 .. PipeCap - 1 : b[i] \in Byte
  <2> SUFFICES ASSUME NEW i \in 0 .. PipeCap - 1 PROVE b[i] \in Byte
    OBVIOUS
  <2>1. CASE \E j \in 1 .. k : Wrap(r.tail + j - 1) = i
    <3>1. PICK j \in 1 .. k : Wrap(r.tail + j - 1) = i
      BY <2>1
    <3>2. j \in 1 .. Len(d)
      OBVIOUS
    <3> QED
      BY <1>6, <3>1, <3>2
  <2>2. CASE ~ \E j \in 1 .. k : Wrap(r.tail + j - 1) = i
    BY <1>1, <1>7, <2>2
  <2> QED
    BY <2>1, <2>2
<1>9. b \in [0 .. PipeCap - 1 -> Byte]
  <2>1. b = [i \in 0 .. PipeCap - 1 |-> b[i]]
    BY <1>1, Zenon DEF Filled
  <2> QED
    BY <1>8, <2>1
<1> QED
  BY <1>6, <1>7, <1>9 DEF IsFilled

\* __PipeWrite__ puts the bytes that fit at the end of the queue.
LEMMA PipeWriteIs ==
    ASSUME NEW r \in Rings, NEW d \in Seq(Byte)
    PROVE  /\ PipeWrite(r, d) \in Rings
           /\ RingBytes(PipeWrite(r, d)) =
                RingBytes(r) \o SubSeq(d, 1, Pipe!Least(Len(d), PipeCap - r.len))
<1> DEFINE k == Min({Len(d), PipeCap - r.len})
           b == Filled(r, d, k)
           s1 == [r EXCEPT !.buf = b]
           s2 == [s1 EXCEPT !.tail = (r.tail + k) % PipeCap]
           s == [s2 EXCEPT !.len = r.len + k]
           q == RingBytes(r)
           z == RingBytes(s)
           w == SubSeq(d, 1, k)
<1>1. Len(d) \in Nat /\ PipeCap - r.len \in Nat /\ r.len \in Nat
  BY RingIs
<1>2. k \in Nat /\ k <= Len(d) /\ k <= PipeCap - r.len /\ k = Pipe!Least(Len(d), PipeCap - r.len)
  BY <1>1, MinOfTwo, LeastIs
<1>3. PipeWrite(r, d) = s
  BY DEF PipeWrite, Room, Filled
<1> HIDE DEF k
<1>4. (r.tail + k) % PipeCap = Wrap(r.tail + k) /\ Wrap(r.tail + k) \in 0 .. PipeCap - 1
  <2>1. r.tail + k \in Nat /\ r.tail + k < 2 * PipeCap
    BY <1>2, RingIs
  <2>2. (r.tail + k) % PipeCap = Wrap(r.tail + k)
    BY <2>1, WrapIs DEF Wrap
  <2>3. PipeCap \in Nat /\ PipeCap > 0
    BY RingIs
  <2> QED
    BY <2>1, <2>2, <2>3 DEF Wrap
<1>5. /\ b \in [0 .. PipeCap - 1 -> Byte]
      /\ \A j \in 1 .. k : b[Wrap(r.tail + j - 1)] = d[j]
      /\ \A i \in 0 .. PipeCap - 1 : (\A j \in 1 .. k : Wrap(r.tail + j - 1) # i) => b[i] = r.buf[i]
  <2>1. b = Filled(r, d, k)
    OBVIOUS
  <2> HIDE DEF b, s1, s2, s, q, z, w
  <2>2. IsFilled(b, r, d, k)
    BY <1>2, <2>1, FilledIs
  <2> QED
    BY <2>2, Zenon DEF IsFilled
<1> HIDE DEF b
<1>6. /\ s \in PipeType /\ s.buf = b /\ s.head = r.head /\ s.tail = Wrap(r.tail + k)
      /\ s.len = r.len + k
  <2>1. s1 \in PipeType /\ s1.buf = b /\ s1.head = r.head /\ s1.len = r.len
    BY <1>5, RingIs DEF PipeType
  <2>2. s2 = [s1 EXCEPT !.tail = Wrap(r.tail + k)] /\ Wrap(r.tail + k) \in Nat
    <3>1. Wrap(r.tail + k) \in Nat
      BY <1>4
    <3> QED
      BY <1>4, <3>1
  <2> HIDE DEF s1, s2
  <2>3. s2 \in PipeType /\ s2.buf = b /\ s2.head = r.head /\ s2.tail = Wrap(r.tail + k)
    BY <2>1, <2>2 DEF PipeType
  <2>4. r.len + k \in Nat
    BY <1>1, <1>2
  <2> QED
    BY <2>3, <2>4 DEF PipeType
<1> HIDE DEF s
<1>7. s \in Rings
  <2>1. s.tail = Wrap(s.head + s.len)
    <3> DEFINE m == r.tail + k
               n == r.head + (r.len + k)
    <3>1. r.len + k <= PipeCap /\ r.head \in 0 .. PipeCap - 1 /\ r.len \in 0 .. PipeCap
          /\ r.tail = Wrap(r.head + r.len)
      BY <1>1, <1>2, RingIs
    <3>2. m = r.tail + k /\ n = r.head + (r.len + k)
      OBVIOUS
    <3> HIDE DEF m, n
    <3>3. Wrap(m) = Wrap(n)
      BY <1>2, <3>1, <3>2, WrapMoves
    <3> QED
      BY <1>6, <3>3 DEF m, n
  <2>2. s.head < PipeCap /\ s.tail < PipeCap /\ s.len <= PipeCap
    BY <1>1, <1>2, <1>4, <1>6, RingIs, SMTT(30)
  <2> QED
    BY <1>6, <2>1, <2>2 DEF Rings
<1>8. /\ q \in Seq(Byte) /\ Len(q) = r.len
      /\ \A i \in 1 .. r.len : q[i] = r.buf[Wrap(r.head + i - 1)] /\ Wrap(r.head + i - 1) \in 0 .. PipeCap - 1
  BY RingBytesIs
<1>9. /\ z \in Seq(Byte) /\ Len(z) = r.len + k
      /\ \A i \in 1 .. r.len + k : z[i] = b[Wrap(r.head + i - 1)]
  BY <1>6, <1>7, RingBytesIs
<1>10. w \in Seq(Byte) /\ Len(w) = k /\ \A i \in 1 .. k : w[i] = d[i]
  BY <1>1, <1>2
<1> HIDE DEF q, z, w
<1>11. /\ q \o w \in Seq(Byte) /\ Len(q \o w) = r.len + k
       /\ \A i \in 1 .. r.len + k : (q \o w)[i] = IF i <= r.len THEN q[i] ELSE w[i - r.len]
  <2>1. /\ q \o w \in Seq(Byte) /\ Len(q \o w) = Len(q) + Len(w)
        /\ \A i \in 1 .. Len(q) + Len(w) : (q \o w)[i] = IF i <= Len(q) THEN q[i] ELSE w[i - Len(q)]
    BY <1>8, <1>10, ConcatProperties, Zenon
  <2>2. Len(q) = r.len /\ Len(w) = k
    BY <1>8, <1>10
  <2> QED
    BY <2>1, <2>2, Zenon
<1>12. ASSUME NEW j \in 1 .. k, NEW i, i = r.len + j
       PROVE  Wrap(r.tail + j - 1) = Wrap(r.head + i - 1)
  <2> DEFINE a == j - 1
             m == r.tail + j - 1
             n == r.head + i - 1
  <2>1. a \in Nat /\ r.len + a <= PipeCap /\ r.head \in 0 .. PipeCap - 1 /\ r.len \in 0 .. PipeCap
        /\ r.tail = Wrap(r.head + r.len)
    BY <1>1, <1>2, RingIs
  <2>2. m = r.tail + a /\ n = r.head + (r.len + a)
    BY <1>1, <1>12, RingIs
  <2> HIDE DEF a, m, n
  <2>3. Wrap(m) = Wrap(n)
    BY <2>1, <2>2, WrapMoves
  <2> QED
    BY <2>3 DEF m, n
<1>13. ASSUME NEW i \in 1 .. r.len + k PROVE z[i] = (q \o w)[i]
  <2>1. CASE i <= r.len
    <3>1. i \in 1 .. r.len
      BY <1>1, <2>1
    <3>2. ASSUME NEW j \in 1 .. k PROVE Wrap(r.tail + j - 1) # Wrap(r.head + i - 1)
      <4>1. Wrap(r.tail + j - 1) = Wrap(r.head + (r.len + j) - 1)
        BY <1>12
      <4>2. r.head \in 0 .. PipeCap - 1 /\ r.len \in 0 .. PipeCap /\ r.len + j <= PipeCap
            /\ j \in Nat /\ j >= 1
        BY <1>1, <1>2, RingIs
      <4> HIDE DEF s1, s2
      <4> QED
        BY <3>1, <4>1, <4>2, FreeIsApart
    <3>3. b[Wrap(r.head + i - 1)] = r.buf[Wrap(r.head + i - 1)]
      BY <1>5, <1>8, <3>1, <3>2
    <3> QED
      BY <1>8, <1>9, <1>11, <2>1, <3>1, <3>3
  <2>2. CASE ~(i <= r.len)
    <3> DEFINE j == i - r.len
    <3>1. j \in 1 .. k /\ Wrap(r.tail + j - 1) = Wrap(r.head + i - 1)
      <4>1. j \in 1 .. k /\ i = r.len + j
        BY <1>1, <1>2, <2>2
      <4> HIDE DEF j
      <4> QED
        BY <1>12, <4>1
    <3>2. (q \o w)[i] = w[j]
      BY <1>11, <2>2
    <3> HIDE DEF j
    <3> QED
      BY <1>5, <1>9, <1>10, <3>1, <3>2
  <2> QED
    BY <2>1, <2>2
<1>14. z = q \o w
  BY <1>9, <1>11, <1>13, SeqEqual
<1> QED
  BY <1>2, <1>3, <1>7, <1>14 DEF q, z, w


\* Every pipe that is open has a ring.
PipeInv == pipes \in [PipeIds -> Rings \cup {NoPipe}]

Queue(r) == IF r = NoPipe THEN NoPipe ELSE RingBytes(r)

LEMMA OpenPipeIs ==
    ASSUME NEW r \in Rings
    PROVE  r # NoPipe /\ Queue(r) = RingBytes(r) /\ Queue(r) # NoPipe
<1>1. r \in PipeType /\ RingBytes(r) \in Seq(Byte)
  BY RingIs, RingBytesIs
<1> QED
  BY <1>1, FdAssumption DEF Queue

NewRing == [buf |-> [i \in 0 .. PipeCap - 1 |-> 0], head |-> 0, tail |-> 0, len |-> 0]

LEMMA NewRingIs == NewRing \in Rings /\ Queue(NewRing) = << >>
<1>1. PipeCap \in Nat /\ PipeCap > 0
  BY FdAssumption
<1>2. NewRing \in Rings /\ NewRing.len = 0
  BY <1>1 DEF NewRing, Rings, PipeType, Byte, Wrap
<1>3. RingBytes(NewRing) \in Seq(Byte) /\ Len(RingBytes(NewRing)) = 0
  BY <1>2, RingBytesIs
<1> QED
  BY <1>2, <1>3, OpenPipeIs

LEMMA ThePipeIs == ThePipe \in PipeIds
  BY FdAssumption, Zenon DEF ThePipe

\* The mapped variables.
LEMMA StutterIs ==
    ASSUME pipes'[ThePipe] = pipes[ThePipe], got' = got
    PROVE  [Pipe!Next]_<<Queue(pipes[ThePipe]), got>>
  BY DEF Queue

\* A step of a pipe that is open: what it is left with.
LEMMA StepOnPipe ==
    ASSUME PipeInv, NEW p \in PipeIds, NEW x \in Rings \cup {NoPipe},
           pipes' = [pipes EXCEPT ![p] = x]
    PROVE  /\ PipeInv'
           /\ pipes'[ThePipe] = IF p = ThePipe THEN x ELSE pipes[ThePipe]
           /\ pipes[p] # NoPipe => pipes[p] \in Rings
<1>1. ThePipe \in PipeIds
  BY ThePipeIs
<1> QED
  BY <1>1 DEF PipeInv

LEMMA PipeOpens ==
    ASSUME PipeInv, NEW c \in Cpus, PosixPipe(c)
    PROVE  PipeInv' /\ [Pipe!Next]_<<Queue(pipes[ThePipe]), got>>
<1>1. PICK p \in PipeIds : pipes[p] = NoPipe /\ pipes' = [pipes EXCEPT ![p] = NewRing]
  BY DEF PosixPipe, NewRing
<1>2. got' = got
  BY DEF PosixPipe
<1>3. NewRing \in Rings
  BY NewRingIs
<1>4. PipeInv' /\ pipes'[ThePipe] = IF p = ThePipe THEN NewRing ELSE pipes[ThePipe]
  BY <1>1, <1>3, StepOnPipe
<1>5. CASE p = ThePipe
  <2>1. Queue(pipes[ThePipe]) = NoPipe /\ Queue(pipes'[ThePipe]) = << >>
    BY <1>1, <1>4, <1>5, NewRingIs DEF Queue
  <2>2. Pipe!Open
    BY <1>2, <2>1 DEF Pipe!Open, Queue
  <2> QED
    BY <1>4, <2>2 DEF Pipe!Next
<1>6. CASE p # ThePipe
  BY <1>2, <1>4, <1>6, StutterIs
<1> QED
  BY <1>5, <1>6

LEMMA PipeCloses ==
    ASSUME PipeInv, TableInv, NEW c \in Cpus, NEW fd \in Fds, PosixClose(c, fd)
    PROVE  PipeInv' /\ [Pipe!Next]_<<Queue(pipes[ThePipe]), got>>
<1>1. got' = got
  BY DEF PosixClose
<1>2. CASE pipes' = pipes
  BY <1>1, <1>2, StutterIs DEF PipeInv
<1>3. CASE pipes' # pipes
  <2> DEFINE p == fds[fd].obj
  <2>1. /\ fds[fd] # NoEntry /\ fds[fd].kind = "pipe" /\ pipes[p] # NoPipe
        /\ pipes' = [pipes EXCEPT ![p] = NoPipe]
    BY <1>3 DEF PosixClose
  <2>2. p \in PipeIds
    BY <2>1, EntriesIs DEF TableInv, Tables
  <2> HIDE DEF p
  <2>3. /\ PipeInv' /\ pipes'[ThePipe] = IF p = ThePipe THEN NoPipe ELSE pipes[ThePipe]
        /\ pipes[p] \in Rings
    BY <2>1, <2>2, StepOnPipe
  <2>4. CASE p = ThePipe
    <3>1. Queue(pipes[ThePipe]) # NoPipe /\ Queue(pipes'[ThePipe]) = NoPipe
      BY <2>3, <2>4, OpenPipeIs DEF Queue
    <3>2. Pipe!Close
      BY <1>1, <3>1 DEF Pipe!Close, Queue
    <3> QED
      BY <2>3, <3>2 DEF Pipe!Next
  <2>5. CASE p # ThePipe
    BY <1>1, <2>3, <2>5, StutterIs
  <2> QED
    BY <2>4, <2>5
<1> QED
  BY <1>2, <1>3

LEMMA PipeIsRead ==
    ASSUME PipeInv, TableInv, NEW c \in Cpus, NEW fd \in Fds, NEW n \in ReadLens,
           PosixRead(c, fd, n)
    PROVE  PipeInv' /\ [Pipe!Next]_<<Queue(pipes[ThePipe]), got>>
<1>1. CASE UNCHANGED <<pipes, got>>
  BY <1>1, StutterIs DEF PipeInv
<1>2. CASE ~UNCHANGED <<pipes, got>>
  <2>1. fds[fd] # NoEntry /\ fds[fd].kind = "pipe"
    BY <1>2 DEF PosixRead
  <2>2. PICK p \in PipeIds : p = fds[fd].obj
    BY <2>1, EntriesIs DEF TableInv, Tables
  <2>3. pipes[p] # NoPipe
    BY <1>2, <2>2 DEF PosixRead
  <2> DEFINE r == PipeRead(pipes[p], n)
  <2>4. /\ pipes' = [pipes EXCEPT ![p] = r.ring]
        /\ got' = IF p = ThePipe THEN r.bytes ELSE got
    BY <1>2, <2>2 DEF PosixRead
  <2>5. n \in Nat /\ n \in 0 .. PipeCap
    BY FdAssumption
  <2>6. pipes[p] \in Rings
    BY <2>3 DEF PipeInv
  <2>7. /\ r.ring \in Rings
        /\ r.bytes = SubSeq(RingBytes(pipes[p]), 1, Pipe!Least(n, pipes[p].len))
        /\ RingBytes(r.ring) = SubSeq(RingBytes(pipes[p]), Pipe!Least(n, pipes[p].len) + 1, pipes[p].len)
    BY <2>5, <2>6, PipeReadIs
  <2>8. Len(RingBytes(pipes[p])) = pipes[p].len
    BY <2>6, RingBytesIs
  <2> HIDE DEF r
  <2>9. PipeInv' /\ pipes'[ThePipe] = IF p = ThePipe THEN r.ring ELSE pipes[ThePipe]
    BY <2>4, <2>7, StepOnPipe
  <2>10. CASE p = ThePipe
    <3>1. /\ Queue(pipes[ThePipe]) = RingBytes(pipes[p]) /\ Queue(pipes[ThePipe]) # NoPipe
          /\ Queue(pipes'[ThePipe]) = RingBytes(r.ring)
      BY <2>6, <2>7, <2>9, <2>10, OpenPipeIs
    <3>2. Pipe!Read(n)
      BY <2>4, <2>7, <2>8, <2>10, <3>1 DEF Pipe!Read, Queue
    <3> QED
      BY <2>5, <2>9, <3>2 DEF Pipe!Next
  <2>11. CASE p # ThePipe
    BY <2>4, <2>9, <2>11, StutterIs
  <2> QED
    BY <2>10, <2>11
<1> QED
  BY <1>1, <1>2

LEMMA PipeIsWritten ==
    ASSUME PipeInv, TableInv, NEW c \in Cpus, NEW fd \in Fds, NEW d \in Chunks,
           PosixWrite(c, fd, d)
    PROVE  PipeInv' /\ [Pipe!Next]_<<Queue(pipes[ThePipe]), got>>
<1>1. got' = got
  BY DEF PosixWrite
<1>2. CASE pipes' = pipes
  BY <1>1, <1>2, StutterIs DEF PipeInv
<1>3. CASE pipes' # pipes
  <2>1. fds[fd] # NoEntry /\ fds[fd].kind = "pipe"
    BY <1>3 DEF PosixWrite
  <2>2. PICK p \in PipeIds : p = fds[fd].obj
    BY <2>1, EntriesIs DEF TableInv, Tables
  <2>3. pipes[p] # NoPipe
    BY <1>3, <2>2 DEF PosixWrite
  <2> DEFINE r == PipeWrite(pipes[p], d)
  <2>4. pipes' = [pipes EXCEPT ![p] = r]
    BY <1>3, <2>2 DEF PosixWrite
  <2>5. d \in Seq(Byte)
    BY FdAssumption
  <2>6. pipes[p] \in Rings
    BY <2>3 DEF PipeInv
  <2>7. /\ r \in Rings
        /\ RingBytes(r) = RingBytes(pipes[p])
                            \o SubSeq(d, 1, Pipe!Least(Len(d), PipeCap - pipes[p].len))
    BY <2>5, <2>6, PipeWriteIs
  <2>8. Len(RingBytes(pipes[p])) = pipes[p].len
    BY <2>6, RingBytesIs
  <2> HIDE DEF r
  <2>9. PipeInv' /\ pipes'[ThePipe] = IF p = ThePipe THEN r ELSE pipes[ThePipe]
    BY <2>4, <2>7, StepOnPipe
  <2>10. CASE p = ThePipe
    <3>1. /\ Queue(pipes[ThePipe]) = RingBytes(pipes[p]) /\ Queue(pipes[ThePipe]) # NoPipe
          /\ Queue(pipes'[ThePipe]) = RingBytes(r)
      BY <2>6, <2>7, <2>9, <2>10, OpenPipeIs
    <3>2. Pipe!Write(d)
      BY <1>1, <2>7, <2>8, <3>1 DEF Pipe!Write, Queue
    <3> QED
      BY <2>9, <3>2 DEF Pipe!Next
  <2>11. CASE p # ThePipe
    BY <1>1, <2>9, <2>11, StutterIs
  <2> QED
    BY <2>10, <2>11
<1> QED
  BY <1>2, <1>3

LEMMA PipeStep ==
    PipeInv /\ TableInv /\ [FdNext]_allVars => PipeInv' /\ [Pipe!Next]_<<Queue(pipes[ThePipe]), got>>
<1> SUFFICES ASSUME PipeInv, TableInv, [FdNext]_allVars
             PROVE  PipeInv' /\ [Pipe!Next]_<<Queue(pipes[ThePipe]), got>>
  OBVIOUS
<1>1. CASE UNCHANGED <<pipes, got>>
  BY <1>1, StutterIs DEF PipeInv
<1>2. CASE \E c \in Cpus : PosixPipe(c)
  BY <1>2, PipeOpens
<1>3. CASE \E c \in Cpus, fd \in Fds : PosixClose(c, fd)
  BY <1>3, PipeCloses
<1>4. CASE \E c \in Cpus, fd \in Fds, n \in ReadLens : PosixRead(c, fd, n)
  BY <1>4, PipeIsRead
<1>5. CASE \E c \in Cpus, fd \in Fds, d \in Chunks : PosixWrite(c, fd, d)
  BY <1>5, PipeIsWritten
<1>6. CASE \E c \in Cpus, p \in Paths : PosixOpen(c, p)
  BY <1>1, <1>6 DEF PosixOpen
<1>7. CASE \E fd \in Fds : PosixDup(fd)
  BY <1>1, <1>7 DEF PosixDup, Copy
<1>8. CASE \E fd, new \in Fds : PosixDup2(fd, new)
  BY <1>1, <1>8 DEF PosixDup2, Copy
<1>9. CASE \E c \in Cpus, fd \in Fds, off \in {0, 1}, w \in {"set", "cur"} : PosixLseek(c, fd, off, w)
  BY <1>1, <1>9 DEF PosixLseek, fdVars
<1>10. CASE UNCHANGED allVars
  BY <1>1, <1>10 DEF allVars, fdVars
<1> QED
  BY <1>2, <1>3, <1>4, <1>5, <1>6, <1>7, <1>8, <1>9, <1>10 DEF FdNext

\* __PipeRead__ and __PipeWrite__ on a ring with a wrapping head and tail
\* implement a bounded queue of bytes (AbstractPipe), for any capacity, and
\* whichever descriptors are opened, copied and closed meanwhile.
THEOREM PipesAreQueues == FdSpec => ImplementsPipe
<1>1. FdInit => PipeInv /\ Pipe!Init
  <2> SUFFICES ASSUME FdInit PROVE PipeInv /\ Pipe!Init
    OBVIOUS
  <2>1. pipes = [p \in PipeIds |-> NoPipe] /\ got = << >>
    BY DEF FdInit
  <2> QED
    BY <2>1, ThePipeIs DEF PipeInv, Pipe!Init
<1>2. PipeInv /\ TableInv /\ [FdNext]_allVars => PipeInv' /\ [Pipe!Next]_<<Queue(pipes[ThePipe]), got>>
  BY PipeStep
<1> QED
  BY <1>1, <1>2, TableInvariant, PTL DEF FdSpec, ImplementsPipe, Pipe!Spec, Queue


-----------------------------------------------------------------------------
(* Paths and mount points *)

LEMMA GreatestNat ==
    ASSUME NEW b \in Nat, NEW T \in SUBSET (0 .. b), T # {}
    PROVE  \E x \in T : \A y \in T : y <= x
<1> DEFINE U == {b - x : x \in T}
<1>1. U \in SUBSET Nat /\ U # {}
  <2>1. \A x \in T : b - x \in Nat
    OBVIOUS
  <2>2. PICK x \in T : TRUE
    OBVIOUS
  <2>3. b - x \in U
    OBVIOUS
  <2> QED
    BY <2>1, <2>3
<1>2. PICK u \in U : \A v \in U : u <= v
  BY <1>1, LeastNat
<1>3. PICK x \in T : u = b - x
  BY <1>2
<1>4. ASSUME NEW y \in T PROVE y <= x
  <2>1. b - y \in U
    OBVIOUS
  <2> QED
    BY <1>2, <1>3, <2>1
<1> QED
  BY <1>4

LEMMA SubSeqIs ==
    ASSUME NEW S, NEW s \in Seq(S), NEW k \in Nat, k <= Len(s)
    PROVE  /\ SubSeq(s, 1, k) \in Seq(S) /\ Len(SubSeq(s, 1, k)) = k
           /\ \A i \in 1 .. k : SubSeq(s, 1, k)[i] = s[i]
<1> DEFINE u == SubSeq(s, 1, k)
<1>1. \A i \in 1 .. k : s[i] \in S
  OBVIOUS
<1>2. /\ u \in Seq(S) /\ Len(u) = IF 1 <= k THEN k - 1 + 1 ELSE 0
      /\ \A i \in 1 .. k - 1 + 1 : u[i] = s[1 + i - 1]
  BY <1>1, SubSeqProperties
<1>3. k - 1 + 1 = k /\ \A i \in 1 .. k : 1 + i - 1 = i
  OBVIOUS
<1> HIDE DEF u
<1> QED
  BY <1>2, <1>3 DEF u

LEMMA TailIs ==
    ASSUME NEW S, NEW s \in Seq(S), NEW k \in Nat
    PROVE  SubSeq(s, k + 1, Len(s)) \in Seq(S)
<1>1. Len(s) \in Nat /\ \A i \in k + 1 .. Len(s) : s[i] \in S
  OBVIOUS
<1> QED
  BY <1>1, SubSeqProperties

LEMMA PrefixIs ==
    ASSUME NEW S, NEW s \in Seq(S), NEW t \in Seq(S)
    PROVE  IsPrefix(s, t) <=> Len(s) <= Len(t) /\ \A i \in 1 .. Len(s) : s[i] = t[i]
<1>1. CASE ~(Len(s) <= Len(t))
  BY <1>1 DEF IsPrefix
<1>2. CASE Len(s) <= Len(t)
  <2> DEFINE u == SubSeq(s, 1, Len(s))
             v == SubSeq(t, 1, Len(s))
  <2>1. Len(s) \in Nat
    OBVIOUS
  <2>2. u \in Seq(S) /\ Len(u) = Len(s) /\ \A i \in 1 .. Len(s) : u[i] = s[i]
    BY <2>1, SubSeqIs
  <2>3. v \in Seq(S) /\ Len(v) = Len(s) /\ \A i \in 1 .. Len(s) : v[i] = t[i]
    BY <1>2, <2>1, SubSeqIs
  <2>4. IsPrefix(s, t) <=> u = v
    BY <1>2 DEF IsPrefix
  <2> HIDE DEF u, v
  <2>5. ASSUME \A i \in 1 .. Len(s) : s[i] = t[i] PROVE u = v
    BY <2>2, <2>3, <2>5, SeqEqual
  <2> QED
    BY <1>2, <2>2, <2>3, <2>4, <2>5
<1> QED
  BY <1>1, <1>2

\* strncmp of a mount's path and the start of a path.
LEMMA StringPrefixIs ==
    ASSUME NEW mp \in Seq(Name), NEW p \in Seq(Name)
    PROVE  StringPrefix(mp, p) <=>
             \/ mp = << >>
             \/ /\ Len(mp) >= 1 /\ Len(mp) <= Len(p)
                /\ \A i \in 1 .. Len(mp) - 1 : mp[i] = p[i]
                /\ Len(mp[Len(mp)]) <= Len(p[Len(mp)])
                /\ \A i \in 1 .. Len(mp[Len(mp)]) : mp[Len(mp)][i] = p[Len(mp)][i]
<1>1. CASE mp = << >>
  BY <1>1 DEF StringPrefix
<1>2. CASE mp # << >> /\ ~(Len(mp) <= Len(p))
  BY <1>2 DEF StringPrefix
<1>3. CASE mp # << >> /\ Len(mp) <= Len(p)
  <2> DEFINE n == Len(mp)
             u == SubSeq(mp, 1, n - 1)
             v == SubSeq(p, 1, n - 1)
             a == mp[n]
             b == p[n]
  <2>1. n \in Nat /\ n >= 1 /\ n <= Len(p) /\ n - 1 \in Nat /\ n - 1 <= Len(mp) /\ n - 1 <= Len(p)
    BY <1>3
  <2>2. a \in Seq(STRING) /\ b \in Seq(STRING)
    <3>1. a \in Name /\ b \in Name
      BY <2>1
    <3> QED
      BY <3>1 DEF Name
  <2>3. StringPrefix(mp, p) <=> u = v /\ IsPrefix(a, b)
    BY <1>3 DEF StringPrefix, Front, Last
  <2>4. u \in Seq(Name) /\ Len(u) = n - 1 /\ \A i \in 1 .. n - 1 : u[i] = mp[i]
    BY <2>1, SubSeqIs
  <2>5. v \in Seq(Name) /\ Len(v) = n - 1 /\ \A i \in 1 .. n - 1 : v[i] = p[i]
    BY <2>1, SubSeqIs
  <2>6. IsPrefix(a, b) <=> Len(a) <= Len(b) /\ \A i \in 1 .. Len(a) : a[i] = b[i]
    BY <2>2, PrefixIs
  <2> HIDE DEF u, v
  <2>7. u = v <=> \A i \in 1 .. n - 1 : mp[i] = p[i]
    <3>1. ASSUME \A i \in 1 .. n - 1 : mp[i] = p[i] PROVE u = v
      BY <2>4, <2>5, <3>1, SeqEqual
    <3> QED
      BY <2>4, <2>5, <3>1
  <2> QED
    BY <1>3, <2>1, <2>3, <2>6, <2>7
<1> QED
  BY <1>1, <1>2, <1>3

\* Of two paths that are string prefixes of a third one, the shorter one is a
\* string prefix of the other.
LEMMA PrefixesAreOrdered ==
    ASSUME NEW p \in Seq(Name), NEW a \in Seq(Name), NEW b \in Seq(Name),
           StringPrefix(a, p), StringPrefix(b, p), Len(a) <= Len(b),
           Len(a) = Len(b) /\ a # << >> => Len(a[Len(a)]) <= Len(b[Len(b)])
    PROVE  StringPrefix(a, b)
<1>1. CASE a = << >>
  BY <1>1 DEF StringPrefix
<1>2. CASE a # << >>
  <2> DEFINE n == Len(a)
             m == Len(b)
  <2>1. n \in Nat /\ m \in Nat /\ n >= 1 /\ n <= m /\ b # << >>
    BY <1>2
  <2>2. /\ n <= Len(p) /\ \A i \in 1 .. n - 1 : a[i] = p[i]
        /\ Len(a[n]) <= Len(p[n]) /\ \A i \in 1 .. Len(a[n]) : a[n][i] = p[n][i]
    BY <1>2, StringPrefixIs
  <2>3. /\ m <= Len(p) /\ \A i \in 1 .. m - 1 : b[i] = p[i]
        /\ Len(b[m]) <= Len(p[m]) /\ \A i \in 1 .. Len(b[m]) : b[m][i] = p[m][i]
    BY <2>1, StringPrefixIs
  <2>4. \A i \in 1 .. n - 1 : a[i] = b[i]
    BY <2>1, <2>2, <2>3
  <2>5. Len(a[n]) <= Len(b[n]) /\ \A i \in 1 .. Len(a[n]) : a[n][i] = b[n][i]
    <3>1. CASE n < m
      <4>1. b[n] = p[n]
        BY <2>1, <2>3, <3>1
      <4> QED
        BY <2>2, <4>1
    <3>2. CASE n = m
      <4>1. Len(a[n]) \in Nat /\ Len(b[n]) \in Nat /\ Len(a[n]) <= Len(b[n])
        <5>1. a[n] \in Name /\ b[n] \in Name
          BY <2>1
        <5> QED
          BY <1>2, <3>2, <5>1 DEF Name
      <4>2. \A i \in 1 .. Len(a[n]) : i \in 1 .. Len(b[n])
        BY <4>1
      <4> QED
        BY <2>2, <2>3, <3>2, <4>1, <4>2
    <3> QED
      BY <2>1, <3>1, <3>2
  <2> HIDE DEF n, m
  <2>6. Len(a) = n /\ Len(b) = m
    BY DEF n, m
  <2> QED
    BY <2>1, <2>4, <2>5, <2>6, StringPrefixIs
<1> QED
  BY <1>1, <1>2


MountType == [sb : PseudoSbs \cup RamSbs, path : Seq(Name)]

LEMMA MountIs ==
    ASSUME mounts \in Seq(MountType), NEW i \in 1 .. Len(mounts)
    PROVE  /\ mounts[i] \in MountType /\ mounts[i].sb \in PseudoSbs \cup RamSbs
           /\ mounts[i].path \in Seq(Name) /\ Len(mounts[i].path) \in Nat
<1>1. mounts[i] \in MountType
  OBVIOUS
<1>2. mounts[i].sb \in PseudoSbs \cup RamSbs /\ mounts[i].path \in Seq(Name)
  BY <1>1 DEF MountType
<1> QED
  BY <1>1, <1>2

\* __find_mount__: an entry whose path is a string prefix, or none.
LEMMA FindMountIs ==
    ASSUME mounts \in Seq(MountType), NEW p \in Seq(Name), FindMount(p) # 0
    PROVE  FindMount(p) \in 1 .. Len(mounts) /\ StringPrefix(mounts[FindMount(p)].path, p)
<1> DEFINE path(i) == mounts[i].path
           match == {i \in 1 .. Len(mounts) : StringPrefix(path(i), p)}
           best == {i \in match : \A j \in match : StringPrefix(path(j), path(i))}
<1>1. FindMount(p) = Min(best) /\ match # {}
  BY DEF FindMount
<1>2. Len(mounts) \in Nat /\ match \subseteq 1 .. Len(mounts) /\ Len(p) \in Nat
  OBVIOUS
<1>3. \A i \in match : path(i) \in Seq(Name) /\ Len(path(i)) \in Nat /\ StringPrefix(path(i), p)
  BY MountIs
<1> HIDE DEF match, path
\* the longest paths that match ...
<1>4. PICK n \in {Len(path(i)) : i \in match} : \A m \in {Len(path(i)) : i \in match} : m <= n
  <2> DEFINE T == {Len(path(i)) : i \in match}
  <2>1. ASSUME NEW i \in match PROVE Len(path(i)) \in 0 .. Len(p)
    <3>1. path(i) = << >> \/ Len(path(i)) <= Len(p)
      BY <1>3, StringPrefixIs
    <3> QED
      BY <1>2, <1>3, <3>1
  <2>2. T \in SUBSET (0 .. Len(p)) /\ T # {}
    BY <1>1, <2>1
  <2> HIDE DEF T
  <2>3. \E x \in T : \A y \in T : y <= x
    BY <1>2, <2>2, GreatestNat
  <2> QED
    BY <2>3 DEF T
<1> DEFINE long == {i \in match : Len(path(i)) = n}
<1>5. long # {} /\ long \subseteq match /\ \A i \in match : Len(path(i)) <= n
  BY <1>4
\* ... and of those one whose last name is longest.
<1>6. PICK i \in match : /\ Len(path(i)) = n
                         /\ n # 0 => \A j \in long : Len(path(j)[n]) <= Len(path(i)[n])
  <2>1. CASE n = 0
    BY <1>5, <2>1
  <2>2. CASE n # 0
    <3> DEFINE T == {Len(path(j)[n]) : j \in long}
    <3>1. n \in Nat
      BY <1>3, <1>4
    <3>2. ASSUME NEW j \in long
          PROVE  Len(path(j)[n]) \in Nat /\ Len(path(j)[n]) <= Len(p[n]) /\ Len(p[n]) \in Nat
      <4>1. path(j) \in Seq(Name) /\ StringPrefix(path(j), p) /\ Len(path(j)) = n
        BY <1>3
      <4>2. n <= Len(p) /\ Len(path(j)[n]) <= Len(p[n])
        BY <2>2, <4>1, StringPrefixIs
      <4>3. path(j)[n] \in Name /\ p[n] \in Name
        BY <1>2, <2>2, <3>1, <4>1, <4>2
      <4> QED
        BY <4>2, <4>3 DEF Name
    <3>3. Len(p[n]) \in Nat
      BY <1>5, <3>2
    <3>4. T \in SUBSET (0 .. Len(p[n])) /\ T # {}
      <4>1. \A j \in long : Len(path(j)[n]) \in 0 .. Len(p[n])
        BY <3>2
      <4>2. PICK j \in long : TRUE
        BY <1>5
      <4> HIDE DEF long
      <4>3. Len(path(j)[n]) \in T
        OBVIOUS
      <4> QED
        BY <4>1, <4>3
    <3> HIDE DEF T, long
    <3>5. PICK x \in T : \A y \in T : y <= x
      BY <3>3, <3>4, GreatestNat
    <3> QED
      BY <3>5 DEF T, long
  <2> QED
    BY <2>1, <2>2
<1>7. i \in best
  <2> SUFFICES ASSUME NEW j \in match PROVE StringPrefix(path(j), path(i))
    BY DEF path
  <2>1. /\ path(i) \in Seq(Name) /\ path(j) \in Seq(Name) /\ StringPrefix(path(i), p)
        /\ StringPrefix(path(j), p) /\ Len(path(j)) <= Len(path(i))
    BY <1>3, <1>5, <1>6
  <2>2. ASSUME Len(path(j)) = Len(path(i)), path(j) # << >>
        PROVE  Len(path(j)[Len(path(j))]) <= Len(path(i)[Len(path(i))])
    <3>1. n # 0 /\ j \in long
      BY <1>6, <2>1, <2>2
    <3> QED
      BY <1>6, <2>2, <3>1
  <2> QED
    BY <2>1, <2>2, PrefixesAreOrdered
<1>8. best \in SUBSET Nat /\ best # {} /\ best \subseteq match
  <2>1. best \subseteq match
    OBVIOUS
  <2>2. match \in SUBSET Nat
    BY <1>2
  <2> HIDE DEF best
  <2> QED
    BY <1>7, <2>1, <2>2
<1> HIDE DEF best
<1>9. Min(best) \in match
  BY <1>8, MinIs
<1> QED
  BY <1>1, <1>9 DEF match, path


\* v points to one of n nodes.
Placed(v, n) == v \in VnodeType /\ v.node \in 1 .. n

LEMMA PlacedIs ==
    ASSUME NEW v, NEW n, Placed(v, n)
    PROVE  /\ v # NoVnode /\ v = Vnode(v.sb, v.node) /\ v.sb \in PseudoSbs \cup RamSbs
           /\ v.node \in 1 .. n
<1>1. v \in VnodeType /\ v.node \in 1 .. n
  BY DEF Placed
<1>2. v # NoVnode
  BY <1>1, VfsAssumption
<1> QED
  BY <1>1, <1>2 DEF VnodeType, Vnode

LEMMA VnodeIs ==
    ASSUME NEW sb \in PseudoSbs \cup RamSbs, NEW n \in Nat, NEW i \in 1 .. n
    PROVE  Placed(Vnode(sb, i), n) /\ Vnode(sb, i).sb = sb
  BY DEF Placed, Vnode, VnodeType

\* __walk__ stays on the superblock it starts from.
LEMMA WalkFromIs ==
    ASSUME nodes \in Tree, NEW v, Placed(v, Len(nodes)), NEW p \in Seq(Name), WalkFrom(v, p) # NoVnode
    PROVE  Placed(WalkFrom(v, p), Len(nodes)) /\ WalkFrom(v, p).sb = v.sb
<1>1. v # NoVnode /\ v.sb \in PseudoSbs \cup RamSbs /\ v.node \in 1 .. Len(nodes) /\ Len(nodes) \in Nat
  BY PlacedIs, TreeIs
<1>2. CASE p = << >>
  BY <1>1, <1>2 DEF WalkFrom
<1>3. CASE p # << >>
  <2> DEFINE n == Walk(nodes, v.node, p)
  <2>1. n # 0 /\ WalkFrom(v, p) = Vnode(v.sb, n)
    BY <1>1, <1>3 DEF WalkFrom, NoNode
  <2>2. n \in 0 .. Len(nodes)
    <3>1. Len(p) \in Nat /\ v.node \in 0 .. Len(nodes)
      BY <1>1
    <3>2. \E at : n = at[Len(p)] /\ WalkFollows(nodes, v.node, p, at)
      BY <3>1, WalkIs
    <3> QED
      BY <3>1, <3>2 DEF WalkFollows
  <2> HIDE DEF n
  <2>3. n \in 1 .. Len(nodes)
    BY <1>1, <2>1, <2>2
  <2> QED
    BY <1>1, <2>1, <2>3, VnodeIs
<1> QED
  BY <1>2, <1>3

LEMMA BelowIs ==
    ASSUME mounts \in Seq(MountType), NEW p \in Seq(Name), FindMount(p) # 0
    PROVE  Below(p) \in Seq(Name)
<1> DEFINE mp == mounts[FindMount(p)].path
           n == Len(mp)
           cut == SubSeq(p[n], Len(Last(mp)) + 1, Len(p[n]))
           rest == SubSeq(p, n + 1, Len(p))
<1>1. mp \in Seq(Name) /\ n \in Nat /\ StringPrefix(mp, p)
  BY FindMountIs, MountIs
<1>2. Below(p) = TailOf(mp, p)
  BY DEF Below
<1> HIDE DEF mp
<1>3. CASE mp = << >>
  BY <1>2, <1>3 DEF TailOf
<1>4. CASE mp # << >>
  <2>1. n >= 1 /\ n <= Len(p) /\ Len(p) \in Nat
    BY <1>1, <1>4, StringPrefixIs
  <2>2. p[n] \in Seq(STRING) /\ Last(mp) \in Seq(STRING)
    <3>1. p[n] \in Name /\ mp[n] \in Name
      BY <1>1, <2>1
    <3> QED
      BY <3>1 DEF Name, Last
  <2>3. cut \in Name
    <3>1. Len(Last(mp)) \in Nat
      BY <2>2
    <3> QED
      BY <2>2, <3>1, TailIs DEF Name
  <2>4. rest \in Seq(Name)
    BY <1>1, TailIs
  <2>5. Below(p) = (IF cut = << >> THEN << >> ELSE <<cut>>) \o rest
    BY <1>2, <1>4 DEF TailOf
  <2> HIDE DEF cut, rest, n
  <2>6. (IF cut = << >> THEN << >> ELSE <<cut>>) \in Seq(Name)
    BY <2>3
  <2> QED
    BY <2>4, <2>5, <2>6, ConcatProperties
<1> QED
  BY <1>3, <1>4

\* Every vnode of the root and of the mount table.
Pointers ==
    /\ nodes \in Tree
    /\ mounts \in Seq(MountType)
    /\ root # NoVnode => Placed(root, Len(nodes))

\* VfsResolve: a node of the root's tree or of a mounted one.
LEMMA ResolveIs ==
    ASSUME Pointers, NEW p \in Seq(Name), NEW v, v = Resolve(p), v # NoVnode
    PROVE  /\ Placed(v, Len(nodes)) /\ root # NoVnode
           /\ v.sb = root.sb \/ \E i \in 1 .. Len(mounts) : v.sb = mounts[i].sb
<1> DEFINE m == FindMount(p)
<1>1. root # NoVnode /\ Placed(root, Len(nodes)) /\ nodes \in Tree /\ mounts \in Seq(MountType)
  BY DEF Resolve, Pointers
<1>2. CASE p = << >>
  BY <1>1, <1>2 DEF Resolve
<1>3. CASE p # << >> /\ m = 0
  <2>1. v = WalkFrom(root, p)
    BY <1>1, <1>3 DEF Resolve
  <2> QED
    BY <1>1, <2>1, WalkFromIs
<1>4. CASE p # << >> /\ m # 0
  <2>1. v = WalkFrom(SbRoot(mounts[m].sb), Below(p))
    BY <1>1, <1>4 DEF Resolve
  <2>2. m \in 1 .. Len(mounts) /\ Below(p) \in Seq(Name)
    BY <1>1, <1>4, FindMountIs, BelowIs
  <2> HIDE DEF m
  <2>3. SbRoot(mounts[m].sb) = Vnode(mounts[m].sb, Root)
    BY <2>1 DEF SbRoot, WalkFrom
  <2>4. Placed(Vnode(mounts[m].sb, Root), Len(nodes)) /\ Vnode(mounts[m].sb, Root).sb = mounts[m].sb
    <3>1. Len(nodes) \in Nat /\ Root \in 1 .. Len(nodes)
      BY <1>1, TreeIs DEF Root
    <3>2. mounts[m].sb \in PseudoSbs \cup RamSbs
      BY <1>1, <2>2, MountIs
    <3> QED
      BY <3>1, <3>2, VnodeIs
  <2>5. Placed(v, Len(nodes)) /\ v.sb = mounts[m].sb
    BY <1>1, <2>1, <2>2, <2>3, <2>4, WalkFromIs
  <2> QED
    BY <1>1, <2>2, <2>5
<1> QED
  BY <1>2, <1>3, <1>4

-----------------------------------------------------------------------------
(* VfsLock *)

\* At most one CPU is left with the lock.
LockInv ==
    /\ held \in [Cpus -> Nat]
    /\ \A c, d \in Cpus : c # d => held[c] = 0 \/ held[d] = 0

\* A call that will release VfsLock when its node is there has it.
Unlocks(q) == q.stage # "idle" /\ q.unlock
UnlockInv == \A c \in Cpus : Unlocks(pending[c]) => held[c] >= 1

LEMMA UnlocksKept ==
    ASSUME UnlockInv, held \in [Cpus -> Nat], held' \in [Cpus -> Nat], NEW c \in Cpus,
           \A d \in Cpus \ {c} : held'[d] >= held[d] /\ (Unlocks(pending'[d]) => Unlocks(pending[d])),
           Unlocks(pending'[c]) => held'[c] >= 1
    PROVE  UnlockInv'
<1>1. ASSUME NEW d \in Cpus, Unlocks(pending'[d]) PROVE held'[d] >= 1
  <2>1. CASE d = c
    BY <1>1, <2>1
  <2>2. CASE d # c
    <3>1. held'[d] \in Nat /\ held[d] \in Nat /\ held'[d] >= held[d] /\ held[d] >= 1
      BY <1>1, <2>2 DEF UnlockInv
    <3> QED
      BY <3>1
  <2> QED
    BY <2>1, <2>2
<1>2. \A d \in Cpus : Unlocks(pending'[d]) => held'[d] >= 1
  BY <1>1
<1> QED
  BY <1>2 DEF UnlockInv, Unlocks

\* What a call does under VfsLock leaves no CPU's count lower.
LockStep == LockInv' /\ \A c \in Cpus : held'[c] >= held[c]

LEMMA CallIsLockStep ==
    ASSUME LockInv, NEW c \in Cpus, NEW leak \in Nat, Call(c, leak)
    PROVE  LockStep
<1>1. held' = [held EXCEPT ![c] = @ + leak] /\ \A d \in Cpus \ {c} : held[d] = 0
  BY DEF Call
<1>2. held[c] \in Nat /\ held[c] + leak \in Nat
  BY DEF LockInv
<1>3. held' \in [Cpus -> Nat] /\ \A d \in Cpus \ {c} : held'[d] = 0
  BY <1>1, <1>2 DEF LockInv
<1>4. \A d \in Cpus : held'[d] >= held[d]
  BY <1>1, <1>2 DEF LockInv
<1> QED
  BY <1>3, <1>4 DEF LockStep, LockInv

\* Calls that leave the creations alone keep UnlockInv.
LEMMA LockStepUnlocks ==
    ASSUME LockInv, UnlockInv, LockStep, pending' = pending
    PROVE  UnlockInv'
<1>1. ASSUME NEW d \in Cpus, Unlocks(pending[d]) PROVE held'[d] >= 1
  <2>1. held'[d] \in Nat /\ held[d] \in Nat /\ held'[d] >= held[d] /\ held[d] >= 1
    BY <1>1 DEF UnlockInv, LockInv, LockStep
  <2> QED
    BY <2>1
<1>2. \A d \in Cpus : Unlocks(pending'[d]) => held'[d] >= 1
  BY <1>1 DEF Unlocks
<1> QED
  BY <1>2 DEF UnlockInv, Unlocks

LEMMA LeaksAre ==
    /\ \A b \in BOOLEAN : Fails(b) \in {0, 1}
    /\ \A p : ResolveLeak(p) \in {0, 1} /\ \A b \in BOOLEAN : OpenLeak(p, b) \in 0 .. 2
    /\ \A p, q : RenameLeak(p, q) \in {0, 1}
    /\ \A p, q, v, w : CopyLeak(p, q, v, w) \in 0 .. 5
<1>1. \A b \in BOOLEAN : Fails(b) \in {0, 1}
  BY DEF Fails
<1>2. \A p : ResolveLeak(p) \in {0, 1}
  BY DEF ResolveLeak
<1>3. ASSUME NEW p, NEW b \in BOOLEAN PROVE OpenLeak(p, b) \in 0 .. 2
  <2>1. Fails(b \/ Resolve(p) = NoVnode) \in {0, 1} /\ ResolveLeak(p) \in {0, 1}
    BY <1>1, <1>2
  <2> QED
    BY <2>1 DEF OpenLeak
<1>4. \A p, q : RenameLeak(p, q) \in {0, 1}
  BY <1>1 DEF RenameLeak
<1>5. ASSUME NEW p, NEW q, NEW v, NEW w PROVE CopyLeak(p, q, v, w) \in 0 .. 5
  <2>1. Fails(CopyFails(v, w)) \in {0, 1} /\ Fails(v = NoVnode) \in {0, 1} /\ Fails(w = NoVnode) \in {0, 1}
    BY <1>1 DEF CopyFails
  <2> QED
    BY <1>2, <2>1 DEF CopyLeak
<1> QED
  BY <1>1, <1>2, <1>3, <1>4, <1>5


\* The calls that change nothing, or VfsLock only.
LEMMA ReadsIs ==
    ASSUME LockInv, NEW c \in Cpus, NEW leak \in Nat, Reads(c, leak)
    PROVE  LockStep /\ UNCHANGED <<nodes, mountVars, files, pending>>
<1>1. Call(c, leak)
  BY DEF Reads
<1> QED
  BY <1>1, CallIsLockStep DEF Reads, mountVars

LEMMA ReadCallsIs ==
    ASSUME LockInv, NEW c \in Cpus, ReadCalls(c)
    PROVE  LockStep /\ UNCHANGED <<nodes, mountVars, files, pending>>
<1> DEFINE R == \E leak \in Nat : Reads(c, leak)
<1>1. R => LockStep /\ UNCHANGED <<nodes, mountVars, files, pending>>
  BY ReadsIs
<1>2. /\ \A b \in BOOLEAN : Fails(b) \in {0, 1}
      /\ \A p : ResolveLeak(p) \in {0, 1} /\ \A b \in BOOLEAN : OpenLeak(p, b) \in 0 .. 2
      /\ \A p, q : RenameLeak(p, q) \in {0, 1}
      /\ \A p, q, v, w : CopyLeak(p, q, v, w) \in 0 .. 5
  BY LeaksAre
<1>3. ASSUME NEW b \in BOOLEAN, Reads(c, Fails(b)) PROVE R
  BY <1>2, <1>3
<1>4. ASSUME NEW p, NEW b \in BOOLEAN, Reads(c, ResolveLeak(p) + Fails(b)) PROVE R
  <2>1. ResolveLeak(p) + Fails(b) \in Nat
    BY <1>2
  <2> QED
    BY <1>4, <2>1
<1>5. ASSUME NEW p, NEW a \in BOOLEAN, NEW b \in BOOLEAN, Reads(c, OpenLeak(p, a) + Fails(b)) PROVE R
  <2>1. OpenLeak(p, a) + Fails(b) \in Nat
    BY <1>2
  <2> QED
    BY <1>5, <2>1
<1>6. ASSUME NEW p, VfsAccess(c, p) PROVE R
  BY <1>2, <1>6 DEF VfsAccess
<1>7. ASSUME NEW p, NEW q, VfsCopy(c, p, q) PROVE R
  BY <1>2, <1>7 DEF VfsCopy
<1>8. ASSUME NEW p, NEW q, VfsMove(c, p, q) PROVE R
  <2>1. PICK v \in {NoVnode, Resolve(p)}, w \in {NoVnode, Resolve(q)} :
          Reads(c, RenameLeak(p, q) + CopyLeak(p, q, v, w) + Fails(CopyFails(v, w) \/ Base(p) = NoVnode))
    BY <1>8 DEF VfsMove
  <2> DEFINE b == CopyFails(v, w) \/ Base(p) = NoVnode
  <2>2. Fails(b) \in {0, 1}
    BY <1>2 DEF CopyFails
  <2> HIDE DEF b
  <2>3. RenameLeak(p, q) + CopyLeak(p, q, v, w) + Fails(b) \in Nat
    BY <1>2, <2>2
  <2> QED
    BY <2>1, <2>3 DEF b
<1> HIDE DEF R
<1>9. ASSUME NEW b \in BOOLEAN, VfsListFs(c, b) \/ VfsMountTableEnumerate(c, b) PROVE R
  BY <1>3, <1>9 DEF VfsListFs, VfsMountTableEnumerate
<1>10. ASSUME NEW p,
              \/ VfsRemount(c, p) \/ VfsMountTableFind(c, p)
              \/ VfsUnlink(c, p) \/ VfsRmdir(c, p) \/ VfsSymlink(c, p)
       PROVE  R
  BY <1>3, <1>10 DEF VfsRemount, VfsMountTableFind, VfsUnlink, VfsRmdir, VfsSymlink
<1>11. ASSUME NEW p,
              VfsStats(c, p) \/ VfsReaddir(c, p) \/ VfsReadlink(c, p) \/ VfsTruncate(c, p)
       PROVE  R
  BY <1>4, <1>11 DEF VfsStats, VfsReaddir, VfsReadlink, VfsTruncate
<1>12. ASSUME NEW p, VfsExists(c, p) \/ VfsAccess(c, p) PROVE R
  BY <1>6, <1>12 DEF VfsExists
<1>13. ASSUME NEW p, VfsReadAll(c, p) PROVE R
  BY <1>5, <1>13 DEF VfsReadAll
<1>14. ASSUME NEW p, VfsWriteAll(c, p, 0) \/ VfsWriteAll(c, p, 1) PROVE R
  BY <1>5, <1>14 DEF VfsWriteAll
<1>15. ASSUME NEW p, NEW q, VfsLink(c, p, q) PROVE R
  BY <1>4, <1>15 DEF VfsLink
<1>16. ASSUME NEW p, NEW q, VfsRename(c, p, q) PROVE R
  BY <1>3, <1>16 DEF VfsRename, RenameLeak
<1>17. R
  BY <1>7, <1>8, <1>9, <1>10, <1>11, <1>12, <1>13, <1>14, <1>15, <1>16 DEF ReadCalls
<1> QED
  BY <1>1, <1>17 DEF R


-----------------------------------------------------------------------------
(* The mount table *)

\* A list without its i-th element.
Shorter(S, s, i, t) ==
    /\ t \in Seq(S) /\ Len(t) = Len(s) - 1
    /\ \A j \in 1 .. Len(t) : t[j] = IF j < i THEN s[j] ELSE s[j + 1]

LEMMA RemoveAtIs ==
    ASSUME NEW S, NEW s \in Seq(S), NEW i \in 1 .. Len(s), NEW t, t = RemoveAt(s, i)
    PROVE  Shorter(S, s, i, t)
<1> DEFINE n == Len(s)
           u == SubSeq(s, 1, i - 1)
           v == SubSeq(s, i + 1, n)
<1>1. n \in Nat /\ \A j \in 1 .. n : s[j] \in S
  BY LenProperties, ElementOfSeq
<1> HIDE DEF n
<1>2. i \in Nat /\ i >= 1 /\ i <= n
  BY <1>1 DEF n
<1>3. u \in Seq(S) /\ Len(u) = i - 1 /\ \A j \in 1 .. i - 1 : u[j] = s[j]
  <2>1. \A j \in 1 .. i - 1 : s[j] \in S
    BY <1>1, <1>2
  <2> QED
    BY <1>2, <2>1, SubSeqProperties
<1>4. v \in Seq(S) /\ Len(v) = n - i /\ \A j \in 1 .. n - i : v[j] = s[j + i]
  <2>1. \A j \in i + 1 .. n : s[j] \in S
    BY <1>1, <1>2
  <2>2. /\ v \in Seq(S)
        /\ Len(v) = IF i + 1 <= n THEN n - (i + 1) + 1 ELSE 0
        /\ \A j \in 1 .. n - (i + 1) + 1 : v[j] = s[(i + 1) + j - 1]
    BY <1>1, <1>2, <2>1, SubSeqProperties
  <2> QED
    BY <1>1, <1>2, <2>2
<1>5. t = u \o v
  BY DEF RemoveAt, n
<1> HIDE DEF u, v
<1>6. /\ t \in Seq(S) /\ Len(t) = n - 1
      /\ \A j \in 1 .. n - 1 : t[j] = IF j <= i - 1 THEN u[j] ELSE v[j - (i - 1)]
  <2>1. /\ u \o v \in Seq(S) /\ Len(u \o v) = Len(u) + Len(v)
        /\ \A j \in 1 .. Len(u) + Len(v) : (u \o v)[j] = IF j <= Len(u) THEN u[j] ELSE v[j - Len(u)]
    BY <1>3, <1>4, ConcatProperties
  <2>2. Len(u) = i - 1 /\ Len(u) + Len(v) = n - 1
    BY <1>1, <1>2, <1>3, <1>4
  <2> QED
    BY <1>5, <2>1, <2>2
<1>7. ASSUME NEW j \in 1 .. n - 1 PROVE t[j] = IF j < i THEN s[j] ELSE s[j + 1]
  <2>1. CASE j < i
    BY <1>2, <1>3, <1>6, <2>1
  <2>2. CASE ~(j < i)
    <3>1. j - (i - 1) \in 1 .. n - i
      BY <1>1, <1>2, <2>2
    <3>2. v[j - (i - 1)] = s[(j - (i - 1)) + i] /\ (j - (i - 1)) + i = j + 1
      BY <1>2, <1>4, <3>1
    <3> QED
      BY <1>2, <1>6, <2>2, <3>2
  <2> QED
    BY <2>1, <2>2
<1> QED
  BY <1>6, <1>7 DEF n, Shorter

Reachable(sb, lv, al, sp) == sb \in lv \cup al /\ sb \notin sp

\* What two entries of the mount table share is in al ...
EntriesOk(ms, lv, al, sp) ==
    /\ \A i \in 1 .. Len(ms) : Reachable(ms[i].sb, lv, al, sp)
    /\ \A i, j \in 1 .. Len(ms) : i # j /\ ms[i].sb = ms[j].sb => ms[i].sb \in al

\* ... and so is the superblock of the root, unless "/" is where it is mounted.
RootOk(r, ms, lv, al, sp, n) ==
    r # NoVnode =>
      /\ Placed(r, n) /\ Reachable(r.sb, lv, al, sp)
      /\ r.sb \in al \/ /\ r.sb \in RamSbs
                        /\ \A i \in 1 .. Len(ms) : ms[i].sb = r.sb => ms[i].path = << >>

MountInv ==
    /\ mounts \in Seq(MountType)
    /\ spare \subseteq RamSbs
    /\ EntriesOk(mounts, live, aliased, spare)
    /\ RootOk(root, mounts, live, aliased, spare, Len(nodes))

LEMMA MountInvStutters ==
    ASSUME MountInv, UNCHANGED <<mounts, root, live, spare, aliased>>, Len(nodes') = Len(nodes)
    PROVE  MountInv'
  BY DEF MountInv

LEMMA AppendIs ==
    ASSUME NEW S, NEW s \in Seq(S), NEW e \in S, NEW t, t = Append(s, e)
    PROVE  /\ t \in Seq(S) /\ Len(t) = Len(s) + 1 /\ Len(s) \in Nat /\ t[Len(s) + 1] = e
           /\ \A i \in 1 .. Len(s) : t[i] = s[i]
           /\ \A i \in 1 .. Len(t) : i \in 1 .. Len(s) \/ i = Len(s) + 1
  OBVIOUS

\* One more entry.
LEMMA MountAdded ==
    ASSUME NEW ms \in Seq(MountType), NEW e \in MountType, NEW t, t = Append(ms, e),
           NEW lv, NEW al, NEW sp, EntriesOk(ms, lv, al, sp), Reachable(e.sb, lv, al, sp),
           e.sb \in al \/ \A i \in 1 .. Len(ms) : ms[i].sb # e.sb
    PROVE  t \in Seq(MountType) /\ EntriesOk(t, lv, al, sp)
<1> DEFINE n == Len(ms)
<1>1. /\ t \in Seq(MountType) /\ Len(t) = n + 1 /\ n \in Nat /\ t[n + 1] = e
      /\ \A i \in 1 .. n : t[i] = ms[i]
      /\ \A i \in 1 .. Len(t) : i \in 1 .. n \/ i = n + 1
  BY AppendIs
<1>2. /\ \A i \in 1 .. n : Reachable(ms[i].sb, lv, al, sp)
      /\ \A i, j \in 1 .. n : i # j /\ ms[i].sb = ms[j].sb => ms[i].sb \in al
  BY DEF EntriesOk
<1> HIDE DEF n
<1>3. \A i \in 1 .. Len(t) : Reachable(t[i].sb, lv, al, sp)
  BY <1>1, <1>2
<1>4. ASSUME NEW i \in 1 .. Len(t), NEW j \in 1 .. Len(t), i # j, t[i].sb = t[j].sb
      PROVE  t[i].sb \in al
  <2>1. CASE i \in 1 .. n /\ j \in 1 .. n
    BY <1>1, <1>2, <1>4, <2>1
  <2>2. CASE i = n + 1 /\ j \in 1 .. n
    BY <1>1, <1>4, <2>2 DEF n
  <2>3. CASE i \in 1 .. n /\ j = n + 1
    BY <1>1, <1>4, <2>3 DEF n
  <2> QED
    BY <1>1, <1>4, <2>1, <2>2, <2>3
<1> QED
  BY <1>1, <1>3, <1>4 DEF EntriesOk

LEMMA RootSeesMountAdded ==
    ASSUME NEW ms \in Seq(MountType), NEW e \in MountType, NEW t, t = Append(ms, e),
           NEW lv, NEW al, NEW sp, NEW n, NEW r, RootOk(r, ms, lv, al, sp, n),
           r # NoVnode => r.sb \in al \/ r.sb # e.sb
    PROVE  RootOk(r, t, lv, al, sp, n)
<1>1. /\ \A i \in 1 .. Len(ms) : t[i] = ms[i]
      /\ \A i \in 1 .. Len(t) : i \in 1 .. Len(ms) \/ i = Len(ms) + 1
      /\ t[Len(ms) + 1] = e
  BY AppendIs
<1>2. CASE r # NoVnode /\ r.sb \notin al
  <2>1. r.sb # e.sb /\ Placed(r, n) /\ Reachable(r.sb, lv, al, sp) /\ r.sb \in RamSbs
        /\ \A i \in 1 .. Len(ms) : ms[i].sb = r.sb => ms[i].path = << >>
    BY <1>2 DEF RootOk
  <2>2. \A i \in 1 .. Len(t) : t[i].sb = r.sb => t[i].path = << >>
    BY <1>1, <2>1
  <2> QED
    BY <2>1, <2>2 DEF RootOk
<1>3. CASE r = NoVnode \/ r.sb \in al
  BY <1>3 DEF RootOk
<1> QED
  BY <1>2, <1>3

\* A larger set of live superblocks, a larger set of aliased ones and a smaller
\* set of spare ones change nothing.
LEMMA OkIsMonotonic ==
    ASSUME NEW ms, NEW r, NEW n, NEW lv, NEW al, NEW sp, NEW lv2, NEW al2, NEW sp2,
           lv \subseteq lv2, al \subseteq al2, sp2 \subseteq sp
    PROVE  /\ EntriesOk(ms, lv, al, sp) => EntriesOk(ms, lv2, al2, sp2)
           /\ RootOk(r, ms, lv, al, sp, n) => RootOk(r, ms, lv2, al2, sp2, n)
<1>1. \A sb : Reachable(sb, lv, al, sp) => Reachable(sb, lv2, al2, sp2)
  BY DEF Reachable
<1> QED
  BY <1>1 DEF EntriesOk, RootOk

LEMMA MountKeeps ==
    ASSUME MountInv, nodes \in Tree, NEW c \in Cpus, NEW p \in Paths, NEW name, VfsMount(c, p, name)
    PROVE  MountInv'
<1> DEFINE n == Len(nodes)
<1>1. nodes' = nodes /\ aliased' = aliased
  BY DEF VfsMount
<1>2. CASE UNCHANGED <<mounts, root, live, spare>>
  BY <1>1, <1>2, MountInvStutters
<1>3. CASE ~UNCHANGED <<mounts, root, live, spare>>
  <2>1. PICK sb \in spare :
          /\ spare' = spare \ {sb} /\ live' = live \cup {sb} /\ mounts' = MountAt(sb, p)
          /\ root' = IF root = NoVnode /\ p = << >> THEN Vnode(sb, Root) ELSE root
    BY <1>3 DEF VfsMount
  <2> DEFINE e == [sb |-> sb, path |-> p]
  <2>2. mounts \in Seq(MountType) /\ e \in MountType /\ sb \in RamSbs
    BY VfsAssumption DEF MountInv, MountType
  <2>3. e.sb = sb /\ e.path = p /\ mounts' = Append(mounts, e)
    BY <2>1 DEF MountAt
  <2> HIDE DEF e
  <2>4. EntriesOk(mounts, live, aliased, spare) /\ RootOk(root, mounts, live, aliased, spare, n)
    BY DEF MountInv
  <2>5. EntriesOk(mounts, live', aliased, spare') /\ RootOk(root, mounts, live', aliased, spare', n)
    BY <2>1, <2>4, OkIsMonotonic
  <2>6. Reachable(sb, live', aliased, spare')
    BY <2>1 DEF Reachable
  <2>7. /\ \A i \in 1 .. Len(mounts) : mounts[i].sb # sb
        /\ root # NoVnode => root.sb # sb
    BY <2>4 DEF EntriesOk, RootOk, Reachable
  <2>8. mounts' \in Seq(MountType) /\ EntriesOk(mounts', live', aliased, spare')
    BY <2>2, <2>3, <2>5, <2>6, <2>7, MountAdded
  <2>9. RootOk(root, mounts', live', aliased, spare', n)
    BY <2>2, <2>3, <2>5, <2>7, RootSeesMountAdded
  <2>10. RootOk(root', mounts', live', aliased, spare', n)
    <3>1. CASE root = NoVnode /\ p = << >>
      <4>1. root' = Vnode(sb, Root)
        BY <2>1, <3>1
      <4>2. n \in Nat /\ Root \in 1 .. n
        BY TreeIs DEF Root
      <4> HIDE DEF n
      <4>3. Placed(root', n) /\ root'.sb = sb
        BY <2>2, <4>1, <4>2, VnodeIs
      <4>4. /\ \A i \in 1 .. Len(mounts) : mounts'[i] = mounts[i]
            /\ \A i \in 1 .. Len(mounts') : i \in 1 .. Len(mounts) \/ i = Len(mounts) + 1
            /\ mounts'[Len(mounts) + 1] = e
        BY <2>2, <2>3, AppendIs
      <4>5. \A i \in 1 .. Len(mounts') : mounts'[i].sb = sb => mounts'[i].path = << >>
        BY <2>3, <2>7, <3>1, <4>4
      <4> QED
        BY <2>2, <2>6, <4>3, <4>5 DEF RootOk
    <3>2. CASE ~(root = NoVnode /\ p = << >>)
      BY <2>1, <2>9, <3>2
    <3> QED
      BY <3>1, <3>2
  <2>11. spare' \subseteq RamSbs
    BY <2>1 DEF MountInv
  <2> QED
    BY <1>1, <2>8, <2>10, <2>11 DEF MountInv
<1> QED
  BY <1>2, <1>3

LEMMA UnmountKeeps ==
    ASSUME MountInv, NEW c \in Cpus, NEW p \in Paths, VfsUnmount(c, p)
    PROVE  MountInv'
<1>1. nodes' = nodes /\ aliased' = aliased /\ spare' = spare
  BY DEF VfsUnmount, Reads
<1>2. CASE UNCHANGED <<mounts, root, live>>
  BY <1>1, <1>2, MountInvStutters
<1>3. CASE ~UNCHANGED <<mounts, root, live>>
  <2> DEFINE at == {i \in 1 .. Len(mounts) : mounts[i].path = p}
             k == Min(at)
             n == Len(mounts)
             gone == mounts[k].sb
             from(i) == IF i < k THEN i ELSE i + 1
  <2>1. /\ at # {} /\ live' = live \ {gone} /\ mounts' = RemoveAt(mounts, k)
        /\ root' = IF p = << >> THEN NoVnode ELSE root
    BY <1>3 DEF VfsUnmount, Reads, RemovedEntry, WithoutEntry, RootAfterUnmount
  <2>2. k \in at
    BY <2>1, MinIs
  <2>3. mounts \in Seq(MountType) /\ k \in 1 .. n /\ n \in Nat /\ mounts[k].path = p
    BY <2>2 DEF MountInv
  <2> HIDE DEF at, k
  <2>4. /\ mounts' \in Seq(MountType) /\ Len(mounts') = n - 1
        /\ \A j \in 1 .. Len(mounts') : mounts'[j] = IF j < k THEN mounts[j] ELSE mounts[j + 1]
    <3>1. k \in 1 .. Len(mounts)
      BY <2>3
    <3>2. Shorter(MountType, mounts, k, mounts')
      BY <2>1, <2>3, <3>1, RemoveAtIs
    <3> QED
      BY <3>2 DEF Shorter
  <2> HIDE DEF n, gone
  <2>5. \A i \in 1 .. n - 1 : /\ from(i) \in 1 .. n /\ from(i) # k
                              /\ mounts'[i] = mounts[from(i)]
    <3> SUFFICES ASSUME NEW i \in 1 .. n - 1
                 PROVE  from(i) \in 1 .. n /\ from(i) # k /\ mounts'[i] = mounts[from(i)]
      OBVIOUS
    <3>1. CASE i < k
      BY <2>3, <2>4, <3>1
    <3>2. CASE ~(i < k)
      BY <2>3, <2>4, <3>2
    <3> QED
      BY <3>1, <3>2
  <2>6. \A i, j \in 1 .. n - 1 : i # j => from(i) # from(j)
    BY <2>3
  <2> HIDE DEF from
  <2>7. /\ \A i \in 1 .. n : Reachable(mounts[i].sb, live, aliased, spare)
        /\ \A i, j \in 1 .. n : i # j /\ mounts[i].sb = mounts[j].sb => mounts[i].sb \in aliased
    BY DEF MountInv, EntriesOk, n
  <2>8. EntriesOk(mounts', live', aliased, spare)
    <3>1. ASSUME NEW i \in 1 .. n - 1 PROVE Reachable(mounts'[i].sb, live', aliased, spare)
      <4>1. mounts[from(i)].sb = gone => gone \in aliased
        BY <2>3, <2>5, <2>7 DEF gone
      <4> QED
        BY <2>1, <2>5, <2>7, <4>1 DEF Reachable
    <3>2. ASSUME NEW i \in 1 .. n - 1, NEW j \in 1 .. n - 1, i # j, mounts'[i].sb = mounts'[j].sb
          PROVE  mounts'[i].sb \in aliased
      BY <2>5, <2>6, <2>7, <3>2
    <3> QED
      BY <2>4, <3>1, <3>2 DEF EntriesOk
  <2>9. RootOk(root', mounts', live', aliased, spare, Len(nodes))
    <3>1. CASE p = << >>
      BY <2>1, <3>1 DEF RootOk
    <3>2. CASE p # << >> /\ root # NoVnode
      <4>1. /\ Placed(root, Len(nodes)) /\ Reachable(root.sb, live, aliased, spare)
            /\ root.sb \in aliased \/ /\ root.sb \in RamSbs
                                      /\ \A i \in 1 .. n : mounts[i].sb = root.sb => mounts[i].path = << >>
        BY <3>2 DEF MountInv, RootOk, n
      <4>2. root.sb = gone => root.sb \in aliased
        BY <2>3, <3>2, <4>1 DEF gone
      <4>3. Reachable(root.sb, live', aliased, spare)
        BY <2>1, <4>1, <4>2 DEF Reachable
      <4>4. root.sb \in aliased \/ /\ root.sb \in RamSbs
                                   /\ \A i \in 1 .. Len(mounts') :
                                        mounts'[i].sb = root.sb => mounts'[i].path = << >>
        BY <2>4, <2>5, <4>1
      <4> QED
        BY <2>1, <3>2, <4>1, <4>3, <4>4 DEF RootOk
    <3>3. CASE p # << >> /\ root = NoVnode
      BY <2>1, <3>3 DEF RootOk
    <3> QED
      BY <3>1, <3>2, <3>3
  <2>10. spare \subseteq RamSbs
    BY DEF MountInv
  <2> QED
    BY <1>1, <2>4, <2>8, <2>9, <2>10 DEF MountInv
<1> QED
  BY <1>2, <1>3

LEMMA ShutdownKeeps ==
    ASSUME MountInv, NEW c \in Cpus, VfsShutdown(c)
    PROVE  MountInv'
<1>1. mounts' = << >> /\ root' = NoVnode /\ UNCHANGED <<nodes, spare, aliased>>
  BY DEF VfsShutdown
<1>2. << >> \in Seq(MountType) /\ Len(<< >>) = 0
  OBVIOUS
<1> QED
  BY <1>1, <1>2 DEF MountInv, EntriesOk, RootOk

LEMMA SwitchRootKeeps ==
    ASSUME MountInv, nodes \in Tree, NEW c \in Cpus, NEW p \in Paths, VfsSwitchRoot(c, p)
    PROVE  MountInv'
<1> DEFINE v == Resolve(p)
<1>1. /\ root' = IF v = NoVnode THEN root ELSE v
      /\ aliased' = IF v \in {NoVnode, root} THEN aliased ELSE aliased \cup {v.sb}
      /\ UNCHANGED <<nodes, mounts, live, spare>>
  BY DEF VfsSwitchRoot
<1>2. CASE v \in {NoVnode, root}
  BY <1>1, <1>2, MountInvStutters
<1>3. CASE v \notin {NoVnode, root}
  <2>1. p \in Seq(Name)
    BY VfsAssumption
  <2>2. Pointers
    BY DEF MountInv, RootOk, Pointers
  <2>3. v # NoVnode /\ v = Resolve(p)
    BY <1>3
  <2> HIDE DEF v
  <2>4. /\ Placed(v, Len(nodes)) /\ root # NoVnode
        /\ v.sb = root.sb \/ \E i \in 1 .. Len(mounts) : v.sb = mounts[i].sb
    BY <2>1, <2>2, <2>3, ResolveIs
  <2>5. Reachable(v.sb, live, aliased, spare)
    BY <2>4 DEF MountInv, EntriesOk, RootOk
  <2>6. root' = v /\ aliased' = aliased \cup {v.sb}
    BY <1>1, <1>3
  <2>7. EntriesOk(mounts, live, aliased', spare)
    <3>1. EntriesOk(mounts, live, aliased', spare) /\ RootOk(root, mounts, live, aliased', spare, Len(nodes))
      BY <2>6, OkIsMonotonic DEF MountInv
    <3> QED
      BY <3>1
  <2>8. RootOk(root', mounts, live, aliased', spare, Len(nodes))
    BY <2>4, <2>5, <2>6 DEF RootOk, Reachable
  <2> QED
    BY <1>1, <2>7, <2>8 DEF MountInv
<1> QED
  BY <1>2, <1>3

LEMMA BindKeeps ==
    ASSUME MountInv, NEW c \in Cpus, NEW src \in Paths, NEW dst \in Paths, VfsBindMount(c, src, dst)
    PROVE  MountInv'
<1> DEFINE m == FindMount(src)
           e == [sb |-> mounts[m].sb, path |-> dst]
<1>1. UNCHANGED <<nodes, root, live, spare>>
  BY DEF VfsBindMount
<1>2. CASE UNCHANGED <<mounts, aliased>>
  BY <1>1, <1>2, MountInvStutters
<1>3. CASE ~UNCHANGED <<mounts, aliased>>
  <2>1. m # 0 /\ mounts' = Append(mounts, e) /\ aliased' = aliased \cup {mounts[m].sb}
    BY <1>3 DEF VfsBindMount, MountAt
  <2>2. mounts \in Seq(MountType) /\ src \in Seq(Name) /\ dst \in Seq(Name)
    BY VfsAssumption DEF MountInv
  <2>3. m \in 1 .. Len(mounts) /\ mounts[m].sb \in PseudoSbs \cup RamSbs
    BY <2>1, <2>2, FindMountIs, MountIs
  <2> HIDE DEF m
  <2>4. e \in MountType /\ e.sb = mounts[m].sb
    BY <2>2, <2>3 DEF MountType
  <2> HIDE DEF e
  <2>5. EntriesOk(mounts, live, aliased', spare) /\ RootOk(root, mounts, live, aliased', spare, Len(nodes))
    BY <2>1, OkIsMonotonic DEF MountInv
  <2>6. Reachable(e.sb, live, aliased', spare) /\ e.sb \in aliased'
    BY <2>1, <2>3, <2>4 DEF MountInv, EntriesOk, Reachable
  <2>7. mounts' \in Seq(MountType) /\ EntriesOk(mounts', live, aliased', spare)
    BY <2>1, <2>2, <2>4, <2>5, <2>6, MountAdded, ZenonT(40)
  <2>8. RootOk(root, mounts', live, aliased', spare, Len(nodes))
    <3>1. root # NoVnode => root.sb \in aliased' \/ root.sb # e.sb
      BY <2>6
    <3> QED
      BY <2>1, <2>2, <2>4, <2>5, <3>1, RootSeesMountAdded, ZenonT(40)
  <2> QED
    BY <1>1, <2>7, <2>8 DEF MountInv
<1> QED
  BY <1>2, <1>3

LEMMA MoveKeeps ==
    ASSUME MountInv, NEW c \in Cpus, NEW src \in Paths, NEW dst \in Paths, VfsMoveMount(c, src, dst)
    PROVE  MountInv'
<1> DEFINE m == FindMount(src)
           n == Len(mounts)
           e == [mounts[m] EXCEPT !.path = dst]
<1>1. UNCHANGED <<nodes, root, live, spare>>
  BY DEF VfsMoveMount
<1>2. CASE UNCHANGED <<mounts, aliased>>
  BY <1>1, <1>2, MountInvStutters
<1>3. CASE ~UNCHANGED <<mounts, aliased>>
  <2>1. /\ m # 0 /\ mounts' = [mounts EXCEPT ![m] = e]
        /\ aliased' = IF root = NoVnode \/ root.sb # mounts[m].sb THEN aliased ELSE aliased \cup {root.sb}
    BY <1>3 DEF VfsMoveMount
  <2>2. mounts \in Seq(MountType) /\ src \in Seq(Name) /\ dst \in Seq(Name) /\ n \in Nat
    BY VfsAssumption DEF MountInv
  <2>3. m \in 1 .. n /\ mounts[m] \in MountType
    BY <2>1, <2>2, FindMountIs, MountIs
  <2> HIDE DEF m
  <2>4. e \in MountType /\ e.sb = mounts[m].sb
    BY <2>2, <2>3 DEF MountType
  <2> HIDE DEF e
  <2>5. /\ mounts' \in Seq(MountType) /\ Len(mounts') = n
        /\ \A i \in 1 .. n : mounts'[i] = IF i = m THEN e ELSE mounts[i]
    BY <2>1, <2>2, <2>3, <2>4
  <2>6. \A i \in 1 .. n : mounts'[i].sb = mounts[i].sb
    BY <2>4, <2>5
  <2>7. EntriesOk(mounts, live, aliased', spare) /\ RootOk(root, mounts, live, aliased', spare, Len(nodes))
    <3>1. aliased \subseteq aliased'
      BY <2>1
    <3> QED
      BY <3>1, OkIsMonotonic DEF MountInv
  <2> HIDE DEF n
  <2>8. EntriesOk(mounts', live, aliased', spare)
    BY <2>5, <2>6, <2>7 DEF EntriesOk, n
  <2>9. RootOk(root, mounts', live, aliased', spare, Len(nodes))
    <3> SUFFICES ASSUME root # NoVnode, root.sb \notin aliased'
                 PROVE  RootOk(root, mounts', live, aliased', spare, Len(nodes))
      BY <2>7 DEF RootOk
    <3>1. root.sb # mounts[m].sb
      BY <2>1
    <3>2. \A i \in 1 .. n : mounts[i].sb = root.sb => mounts[i].path = << >>
      BY <2>7 DEF RootOk, n
    <3>3. \A i \in 1 .. Len(mounts') : mounts'[i].sb = root.sb => mounts'[i].path = << >>
      BY <2>4, <2>5, <3>1, <3>2
    <3> QED
      BY <2>7, <3>3 DEF RootOk
  <2> QED
    BY <1>1, <2>5, <2>8, <2>9 DEF MountInv
<1> QED
  BY <1>2, <1>3

LEMMA RegisterPseudoKeeps ==
    ASSUME MountInv, NEW c \in Cpus, NEW p \in Paths, NEW sb \in PseudoSbs, VfsRegisterPseudoFs(c, p, sb)
    PROVE  MountInv'
<1> DEFINE e == [sb |-> sb, path |-> p]
<1>1. UNCHANGED <<nodes, root, live, spare, aliased>>
  BY DEF VfsRegisterPseudoFs
<1>2. CASE mounts' = mounts
  BY <1>1, <1>2, MountInvStutters
<1>3. CASE mounts' # mounts
  <2>1. mounts' = Append(mounts, e) /\ sb \in live /\ \A i \in 1 .. Len(mounts) : mounts[i].sb # sb
    BY <1>3 DEF VfsRegisterPseudoFs, MountAt
  <2>2. mounts \in Seq(MountType) /\ e \in MountType /\ e.sb = sb
    BY VfsAssumption DEF MountInv, MountType
  <2> HIDE DEF e
  <2>3. Reachable(e.sb, live, aliased, spare) /\ sb \notin RamSbs
    BY <2>1, <2>2, VfsAssumption DEF MountInv, Reachable
  <2>4. EntriesOk(mounts, live, aliased, spare) /\ RootOk(root, mounts, live, aliased, spare, Len(nodes))
    BY DEF MountInv
  <2>5. mounts' \in Seq(MountType) /\ EntriesOk(mounts', live, aliased, spare)
    BY <2>1, <2>2, <2>3, <2>4, MountAdded
  <2>6. RootOk(root, mounts', live, aliased, spare, Len(nodes))
    <3>1. root # NoVnode => root.sb \in aliased \/ root.sb # e.sb
      BY <2>2, <2>3, <2>4 DEF RootOk
    <3> QED
      BY <2>1, <2>2, <2>4, <3>1, RootSeesMountAdded
  <2> QED
    BY <1>1, <2>5, <2>6 DEF MountInv
<1> QED
  BY <1>2, <1>3

LEMMA MountCallsKeep ==
    ASSUME MountInv, nodes \in Tree, LockInv, NEW c \in Cpus, MountCalls(c)
    PROVE  MountInv' /\ LockStep /\ UNCHANGED <<nodes, files, pending>>
<1>0. \A b \in BOOLEAN : Fails(b) \in Nat
  BY LeaksAre
<1>1. ASSUME NEW n \in FsNames, VfsRegisterFs(c, n) \/ VfsUnregisterFs(c, n)
      PROVE  MountInv' /\ LockStep /\ UNCHANGED <<nodes, files, pending>>
  <2>1. UNCHANGED <<nodes, mounts, root, live, spare, aliased, files, pending>>
    BY <1>1 DEF VfsRegisterFs, VfsUnregisterFs
  <2>2. \E leak \in Nat : Call(c, leak)
    <3>1. CASE VfsRegisterFs(c, n)
      <4>1. Call(c, 1) \/ Call(c, 0)
        BY <3>1 DEF VfsRegisterFs, Fails
      <4> QED
        BY <4>1
    <3>2. CASE VfsUnregisterFs(c, n)
      <4>1. Call(c, 1) \/ Call(c, 0)
        BY <3>2 DEF VfsUnregisterFs, Fails
      <4> QED
        BY <4>1
    <3> QED
      BY <1>1, <3>1, <3>2
  <2> QED
    BY <2>1, <2>2, MountInvStutters, CallIsLockStep
<1>2. ASSUME NEW p \in Paths, NEW n \in FsNames, VfsMount(c, p, n)
      PROVE  MountInv' /\ LockStep /\ UNCHANGED <<nodes, files, pending>>
  <2>1. \E leak \in Nat : Call(c, leak)
    BY <1>0, <1>2 DEF VfsMount
  <2>2. UNCHANGED <<nodes, files, pending>>
    BY <1>2 DEF VfsMount
  <2> QED
    BY <1>2, <2>1, <2>2, MountKeeps, CallIsLockStep
<1>3. ASSUME NEW p \in Paths, VfsUnmount(c, p)
      PROVE  MountInv' /\ LockStep /\ UNCHANGED <<nodes, files, pending>>
  <2>1. \E leak \in Nat : Call(c, leak)
    BY <1>3 DEF VfsUnmount, Reads
  <2>2. UNCHANGED <<nodes, files, pending>>
    BY <1>3 DEF VfsUnmount, Reads
  <2> QED
    BY <1>3, <2>1, <2>2, UnmountKeeps, CallIsLockStep
<1>4. ASSUME NEW p \in Paths, VfsSwitchRoot(c, p)
      PROVE  MountInv' /\ LockStep /\ UNCHANGED <<nodes, files, pending>>
  <2>1. \E leak \in Nat : Call(c, leak)
    <3>1. ResolveLeak(p) \in {0, 1} /\ Fails(Resolve(p) = NoVnode) \in {0, 1}
      BY LeaksAre
    <3>2. ResolveLeak(p) + Fails(Resolve(p) = NoVnode) \in Nat
      BY <3>1
    <3> QED
      BY <1>4, <3>2 DEF VfsSwitchRoot
  <2>2. UNCHANGED <<nodes, files, pending>>
    BY <1>4 DEF VfsSwitchRoot
  <2> QED
    BY <1>4, <2>1, <2>2, SwitchRootKeeps, CallIsLockStep
<1>5. ASSUME NEW src \in Paths, NEW dst \in Paths, VfsBindMount(c, src, dst) \/ VfsMoveMount(c, src, dst)
      PROVE  MountInv' /\ LockStep /\ UNCHANGED <<nodes, files, pending>>
  <2>1. \E leak \in Nat : Call(c, leak)
    BY <1>0, <1>5 DEF VfsBindMount, VfsMoveMount
  <2>2. UNCHANGED <<nodes, files, pending>>
    BY <1>5 DEF VfsBindMount, VfsMoveMount
  <2> QED
    BY <1>5, <2>1, <2>2, BindKeeps, MoveKeeps, CallIsLockStep
<1>6. ASSUME NEW p \in Paths, NEW sb \in PseudoSbs, VfsRegisterPseudoFs(c, p, sb)
      PROVE  MountInv' /\ LockStep /\ UNCHANGED <<nodes, files, pending>>
  <2>1. \E leak \in Nat : Call(c, leak)
    <3>1. Call(c, 1) \/ Call(c, 0)
      BY <1>6 DEF VfsRegisterPseudoFs, Fails
    <3> QED
      BY <3>1
  <2>2. UNCHANGED <<nodes, files, pending>>
    BY <1>6 DEF VfsRegisterPseudoFs
  <2> QED
    BY <1>6, <2>1, <2>2, RegisterPseudoKeeps, CallIsLockStep
<1>7. ASSUME NEW len, VfsSetMaxPath(c, len)
      PROVE  MountInv' /\ LockStep /\ UNCHANGED <<nodes, files, pending>>
  <2>1. UNCHANGED <<nodes, mounts, root, live, spare, aliased, files, pending>>
    BY <1>7 DEF VfsSetMaxPath
  <2>2. \E leak \in Nat : Call(c, leak)
    <3>1. Call(c, 1) \/ Call(c, 0)
      BY <1>7 DEF VfsSetMaxPath, Fails
    <3> QED
      BY <3>1
  <2> QED
    BY <2>1, <2>2, MountInvStutters, CallIsLockStep
<1>8. ASSUME VfsShutdown(c)
      PROVE  MountInv' /\ LockStep /\ UNCHANGED <<nodes, files, pending>>
  <2>1. Call(c, 0) /\ 0 \in Nat
    BY <1>8 DEF VfsShutdown
  <2>2. UNCHANGED <<nodes, files, pending>>
    BY <1>8 DEF VfsShutdown
  <2> QED
    BY <1>8, <2>1, <2>2, ShutdownKeeps, CallIsLockStep
<1> QED
  BY <1>1, <1>2, <1>3, <1>4, <1>5, <1>6, <1>7, <1>8 DEF MountCalls


-----------------------------------------------------------------------------
(* Nodes that are added *)

\* t has the nodes of ns, and more; only the root has got new children.
Extends(ns, t) ==
    /\ t \in Tree /\ Len(ns) <= Len(t)
    /\ \A i \in 1 .. Len(ns) :
         /\ t[i].name = ns[i].name /\ t[i].type = ns[i].type
         /\ Len(ns[i].children) <= Len(t[i].children)
         /\ i # Root => t[i].children = ns[i].children /\ t[i].count = ns[i].count

\* ... after those that were there.
AddsLast(ns, t) ==
    /\ ns[Root].count <= t[Root].count
    /\ \A i \in 1 .. ns[Root].count : t[Root].children[i] = ns[Root].children[i]

LEMMA PutChildKeeps ==
    ASSUME NEW x \in NodeType, NEW slot \in 0 .. Len(x.children), NEW m \in Nat,
           NEW y, y = PutChild(x, slot, m)
    PROVE  /\ y.name = x.name /\ y.type = x.type /\ Len(x.children) <= Len(y.children)
           /\ slot = x.count => /\ x.count <= y.count
                                /\ \A i \in 1 .. x.count : y.children[i] = x.children[i]
<1> DEFINE cs == x.children
           cs2 == Stored(cs, slot + 1, m)
           z == [x EXCEPT !.children = cs2]
<1>1. cs \in Seq(Nat) /\ Len(cs) \in Nat /\ slot \in Nat /\ slot <= Len(cs) /\ x.count \in Nat
  BY NodeIs
<1>2. CASE ~(slot < MaxChildren)
  BY <1>1, <1>2 DEF PutChild
<1>3. CASE slot < MaxChildren
  <2>1. y = [z EXCEPT !.count = slot + 1]
    BY <1>3 DEF PutChild
  <2>2. Len(cs) <= Len(cs2) /\ \A i \in 1 .. slot : cs2[i] = cs[i]
    <3>1. CASE slot + 1 <= Len(cs)
      <4>1. cs2 = [cs EXCEPT ![slot + 1] = m]
        BY <3>1 DEF Stored
      <4> HIDE DEF cs2, cs
      <4> QED
        BY <1>1, <3>1, <4>1
    <3>2. CASE ~(slot + 1 <= Len(cs))
      <4>1. cs2 = Append(cs, m)
        BY <3>2 DEF Stored
      <4> HIDE DEF cs2, cs
      <4> QED
        BY <1>1, <3>2, <4>1
    <3> QED
      BY <3>1, <3>2
  <2> HIDE DEF cs2
  <2>3. z.children = cs2 /\ z.name = x.name /\ z.type = x.type
        /\ z \in [name : {x.name}, type : {x.type}, data : {x.data}, children : {cs2}, count : {x.count}]
    BY DEF NodeType
  <2> HIDE DEF z
  <2>4. y.children = cs2 /\ y.name = x.name /\ y.type = x.type /\ y.count = slot + 1
    BY <2>1, <2>3
  <2> QED
    BY <1>1, <2>2, <2>4
<1> QED
  BY <1>2, <1>3

LEMMA GrownExtends ==
    ASSUME NEW ns \in Tree, NEW slot \in 0 .. Len(ns[Root].children), NEW name, NEW type,
           NEW t, Grown(ns, Root, slot, name, type, t)
    PROVE  Extends(ns, t) /\ (slot = ns[Root].count => AddsLast(ns, t))
<1> DEFINE x == ns[Root]
           y == t[Root]
<1>1. Len(ns) \in Nat /\ Root \in 1 .. Len(ns) /\ x \in NodeType
  BY TreeIs DEF Root
<1>2. /\ t \in Tree /\ Len(t) = Len(ns) + 1 /\ y = PutChild(x, slot, Len(ns) + 1)
      /\ \A i \in 1 .. Len(ns) \ {Root} : t[i] = ns[i]
  BY DEF Grown
<1>3. /\ y.name = x.name /\ y.type = x.type /\ Len(x.children) <= Len(y.children)
      /\ slot = x.count => /\ x.count <= y.count
                           /\ \A i \in 1 .. x.count : y.children[i] = x.children[i]
  <2>1. Len(ns) + 1 \in Nat
    BY <1>1
  <2> HIDE DEF y
  <2>2. slot \in 0 .. Len(x.children)
    OBVIOUS
  <2> HIDE DEF x
  <2> QED
    BY <1>1, <1>2, <2>1, <2>2, PutChildKeeps
<1>4. \A i \in 1 .. Len(ns) : Len(ns[i].children) \in Nat
  BY TreeIs
<1>5. Extends(ns, t)
  BY <1>1, <1>2, <1>3, <1>4 DEF Extends
<1> QED
  BY <1>3, <1>5 DEF AddsLast

LEMMA DataIs ==
    ASSUME NEW x \in NodeType, NEW d \in Seq(Byte)
    PROVE  LET y == [x EXCEPT !.data = d]
           IN y \in NodeType /\ y.name = x.name /\ y.type = x.type /\ y.children = x.children /\ y.count = x.count
  BY DEF NodeType

\* The file is emptied.
LEMMA EmptiedExtends ==
    ASSUME NEW ns \in Tree, NEW d \in 1 .. Len(ns), NEW t, t = [ns EXCEPT ![d].data = << >>]
    PROVE  Extends(ns, t) /\ AddsLast(ns, t) /\ t[Root].count = ns[Root].count
<1> DEFINE x == [ns[d] EXCEPT !.data = << >>]
<1>1. /\ Len(ns) \in Nat /\ Root \in 1 .. Len(ns) /\ ns[d] \in NodeType /\ ns \in Seq(NodeType)
      /\ Linked(ns[d], Len(ns)) /\ ns[Root].count \in Nat
      /\ \A i \in 1 .. Len(ns) : Len(ns[i].children) \in Nat
  BY TreeIs DEF Root, Tree, WellLinked
<1>2. t = [ns EXCEPT ![d] = x]
  OBVIOUS
<1>3. /\ x \in NodeType /\ x.name = ns[d].name /\ x.type = ns[d].type
      /\ x.children = ns[d].children /\ x.count = ns[d].count
  <2>1. << >> \in Seq(Byte)
    OBVIOUS
  <2> QED
    BY <1>1, <2>1, DataIs
<1> HIDE DEF x
<1>4. Linked(x, Len(ns))
  BY <1>1, <1>3 DEF Linked
<1>5. t \in Tree
  <2>1. [ns EXCEPT ![d] = x] \in Tree
    BY <1>3, <1>4, ReplaceIs
  <2> QED
    BY <1>2, <2>1
<1>6. Len(t) = Len(ns) /\ \A i \in 1 .. Len(ns) : t[i] = IF i = d THEN x ELSE ns[i]
  BY <1>1, <1>2, <1>3
<1>7. \A i \in 1 .. Len(ns) : /\ t[i].name = ns[i].name /\ t[i].type = ns[i].type
                              /\ t[i].children = ns[i].children /\ t[i].count = ns[i].count
  BY <1>3, <1>6
<1>8. Extends(ns, t)
  BY <1>1, <1>5, <1>6, <1>7 DEF Extends
<1>9. AddsLast(ns, t)
  BY <1>1, <1>7 DEF AddsLast
<1> QED
  BY <1>1, <1>7, <1>8, <1>9

\* A name that is found is found again.
LEMMA ChildStays ==
    ASSUME NEW ns \in Tree, NEW t, Extends(ns, t), AddsLast(ns, t), NEW d \in 1 .. Len(ns),
           NEW name, NEW types, Child(ns, d, name, types) # 0
    PROVE  Child(t, d, name, types) = Child(ns, d, name, types)
<1> DEFINE A == Matches(ns, d, name, types)
           B == Matches(t, d, name, types)
           k == ns[d].count
<1>1. /\ t \in Tree /\ d \in 1 .. Len(t) /\ Len(ns) \in Nat /\ Len(t) \in Nat /\ Len(ns) <= Len(t)
      /\ k \in 0 .. Len(ns[d].children) /\ Len(ns[d].children) \in Nat /\ t[d].count \in Nat
  <2>1. t \in Tree /\ Len(ns) <= Len(t)
    BY DEF Extends
  <2>2. Len(ns) \in Nat /\ Len(t) \in Nat /\ d \in 1 .. Len(t)
    BY <2>1, TreeIs
  <2>3. k \in 0 .. Len(ns[d].children) /\ Len(ns[d].children) \in Nat
    BY TreeIs
  <2>4. t[d].count \in 0 .. Len(t[d].children) /\ Len(t[d].children) \in Nat
    BY <2>1, <2>2, TreeIs
  <2> QED
    BY <2>1, <2>2, <2>3, <2>4
<1>2. k <= t[d].count /\ \A i \in 1 .. k : t[d].children[i] = ns[d].children[i]
  <2>1. CASE d = Root
    BY <2>1 DEF AddsLast
  <2>2. CASE d # Root
    <3>1. t[d].children = ns[d].children /\ t[d].count = k
      BY <2>2 DEF Extends
    <3> QED
      BY <1>1, <3>1
  <2> QED
    BY <2>1, <2>2
<1>3. ASSUME NEW i \in 1 .. k PROVE i \in A <=> i \in B
  <2>1. ns[d].children[i] \in 1 .. Len(ns) /\ t[d].children[i] = ns[d].children[i]
    <3>1. i \in 1 .. Len(ns[d].children)
      BY <1>1
    <3> QED
      BY <1>2, <3>1, TreeIs
  <2> DEFINE j == ns[d].children[i]
  <2>2. t[j].name = ns[j].name /\ t[j].type = ns[j].type
    <3> HIDE DEF j
    <3>1. j \in 1 .. Len(ns)
      BY <2>1 DEF j
    <3> QED
      BY <3>1 DEF Extends
  <2>3. i \in 1 .. t[d].count
    BY <1>1, <1>2
  <2> QED
    BY <2>1, <2>2, <2>3 DEF Matches
<1>4. A \subseteq 1 .. k /\ B \subseteq Nat
  BY DEF Matches
<1>5. PICK i \in A : Child(ns, d, name, types) = ns[d].children[i] /\ \A j \in A : i <= j
  BY ChildIs
<1>6. \/ Child(t, d, name, types) = 0 /\ B = {}
      \/ \E j \in B : Child(t, d, name, types) = t[d].children[j] /\ \A h \in B : j <= h
  BY <1>1, ChildIs
<1> HIDE DEF A, B, k
<1>7. i \in 1 .. k /\ i \in B
  BY <1>3, <1>4
<1>8. PICK j \in B : Child(t, d, name, types) = t[d].children[j] /\ \A h \in B : j <= h
  BY <1>6, <1>7
<1>9. j <= i /\ j \in Nat /\ j \in 1 .. t[d].count
  BY <1>4, <1>7, <1>8 DEF B, Matches
<1>10. j \in 1 .. k
  BY <1>1, <1>7, <1>9 DEF k
<1>11. j \in A
  BY <1>3, <1>8, <1>10
<1>12. j = i
  BY <1>5, <1>7, <1>9, <1>10, <1>11
<1> QED
  BY <1>2, <1>5, <1>7, <1>8, <1>12

LEMMA WalkStays ==
    ASSUME NEW ns \in Tree, NEW t, Extends(ns, t), AddsLast(ns, t),
           NEW d \in 1 .. Len(ns), NEW path, Len(path) \in Nat, Walk(ns, d, path) # 0
    PROVE  Walk(t, d, path) = Walk(ns, d, path)
<1> DEFINE n == Len(path)
<1>1. t \in Tree /\ Len(ns) \in Nat /\ Len(t) \in Nat /\ d \in 0 .. Len(ns) /\ d \in 0 .. Len(t)
  BY TreeIs DEF Extends
<1>2. PICK a : Walk(ns, d, path) = a[n] /\ WalkFollows(ns, d, path, a)
  BY <1>1, WalkIs
<1>3. PICK b : Walk(t, d, path) = b[n] /\ WalkFollows(t, d, path, b)
  BY <1>1, WalkIs
<1>4. /\ a[0] = d /\ b[0] = d
      /\ \A k \in 1 .. n : a[k] = RamVfsLookup(ns, a[k - 1], path[k])
      /\ \A k \in 1 .. n : b[k] = RamVfsLookup(t, b[k - 1], path[k])
      /\ \A k \in 0 .. n : a[k] \in 0 .. Len(ns)
  BY <1>2, <1>3 DEF WalkFollows
<1>5. ASSUME NEW i \in 0 .. Len(ns), NEW name, RamVfsLookup(ns, i, name) # 0
      PROVE  i # 0 /\ RamVfsLookup(t, i, name) = RamVfsLookup(ns, i, name)
  <2>1. i # 0 /\ ns[i].type = "dir"
    BY <1>5 DEF RamVfsLookup, NoNode
  <2>2. i \in 1 .. Len(ns) /\ t[i].type = "dir"
    <3>1. i \in 1 .. Len(ns)
      BY <1>1, <2>1
    <3> QED
      BY <2>1, <3>1 DEF Extends
  <2>3. /\ RamVfsLookup(ns, i, name) = Child(ns, i, name, {"dir", "file"})
        /\ RamVfsLookup(t, i, name) = Child(t, i, name, {"dir", "file"})
    BY <2>1, <2>2 DEF RamVfsLookup, NoNode
  <2> QED
    BY <1>5, <2>1, <2>2, <2>3, ChildStays
<1> DEFINE T == {k \in Nat : k <= n => (a[k] # 0 => b[k] = a[k])}
<1>6. 0 \in T
  BY <1>4
<1>7. ASSUME NEW k \in Nat, k \in T PROVE k + 1 \in T
  <2> SUFFICES ASSUME k + 1 <= n, a[k + 1] # 0 PROVE b[k + 1] = a[k + 1]
    OBVIOUS
  <2>1. k + 1 \in 1 .. n /\ (k + 1) - 1 = k /\ k \in 0 .. n /\ k <= n
    OBVIOUS
  <2>2. /\ a[k + 1] = RamVfsLookup(ns, a[k], path[k + 1])
        /\ b[k + 1] = RamVfsLookup(t, b[k], path[k + 1])
        /\ a[k] \in 0 .. Len(ns)
    BY <1>4, <2>1
  <2>3. a[k] # 0 /\ RamVfsLookup(t, a[k], path[k + 1]) = a[k + 1]
    BY <1>5, <2>2
  <2>4. b[k] = a[k]
    BY <1>7, <2>1, <2>3
  <2> QED
    BY <2>2, <2>3, <2>4
<1> HIDE DEF T
<1>8. \A k \in Nat : k \in T
  BY <1>6, <1>7, Induction
<1> QED
  BY <1>2, <1>3, <1>8 DEF T


-----------------------------------------------------------------------------
(* Open files *)

\* A file is open on a node, and its two offsets drift apart by no more than
\* what was read.
FileOk(x, n) ==
    /\ x \in FileType /\ Placed(x.vnode, n)
    /\ x.pos = NoPos \/ (x.pos \in Nat /\ x.pos <= x.offset /\ x.offset <= 2 * x.pos)

FileInv ==
    /\ nodes \in Tree
    /\ files \in [FileIds -> FileType \cup {NoFile}]
    /\ \A f \in FileIds : files[f] # NoFile => FileOk(files[f], Len(nodes))

LEMMA FileIs ==
    ASSUME NEW x, NEW n, FileOk(x, n)
    PROVE  /\ x \in FileType /\ x # NoFile /\ x = [vnode |-> x.vnode, offset |-> x.offset, pos |-> x.pos]
           /\ x.offset \in Int /\ x.pos \in Int
           /\ Placed(x.vnode, n) /\ x.vnode \in VnodeType /\ x.vnode.node \in 1 .. n
  BY VfsAssumption DEF FileOk, FileType, Placed

LEMMA FileChanges ==
    ASSUME FileInv, nodes' = nodes, NEW f \in FileIds, NEW x, x = NoFile \/ FileOk(x, Len(nodes)),
           files' = [files EXCEPT ![f] = x]
    PROVE  FileInv'
<1>1. x \in FileType \cup {NoFile}
  BY FileIs
<1>2. files' \in [FileIds -> FileType \cup {NoFile}]
      /\ \A g \in FileIds : files'[g] = IF g = f THEN x ELSE files[g]
  BY <1>1 DEF FileInv
<1> QED
  BY <1>2 DEF FileInv

LEMMA FileInvStutters ==
    ASSUME FileInv, UNCHANGED <<nodes, files>>
    PROVE  FileInv'
  BY DEF FileInv

\* VfsOpen opens one file or none.
LEMMA VfsOpenIs ==
    ASSUME NEW c \in Cpus, NEW p, VfsOpen(c, p)
    PROVE  /\ nodes' = nodes
           /\ \/ files' = files
              \/ /\ Resolve(p) # NoVnode
                 /\ \E f \in FileIds : /\ files[f] = NoFile
                                       /\ files' = [files EXCEPT ![f] = RamVfsOpen(nodes, Resolve(p))]
<1>1. CASE Reads(c, OpenLeak(p, TRUE))
  BY <1>1 DEF Reads
<1>2. CASE ~Reads(c, OpenLeak(p, TRUE))
  BY <1>2 DEF VfsOpen
<1> QED
  BY <1>1, <1>2

LEMMA OpenKeepsFiles ==
    ASSUME FileInv, MountInv, NEW c \in Cpus, NEW p \in Paths, VfsOpen(c, p)
    PROVE  FileInv'
<1>1. nodes' = nodes
  BY VfsOpenIs
<1>2. CASE files' = files
  BY <1>1, <1>2, FileInvStutters
<1>3. CASE files' # files
  <2>1. PICK v : v = Resolve(p)
    OBVIOUS
  <2>2. PICK f \in FileIds : v # NoVnode /\ files' = [files EXCEPT ![f] = RamVfsOpen(nodes, v)]
    BY <1>3, <2>1, VfsOpenIs
  <2>3. p \in Seq(Name) /\ Pointers
    BY VfsAssumption DEF FileInv, MountInv, RootOk, Pointers
  <2>4. Placed(v, Len(nodes))
    BY <2>1, <2>2, <2>3, ResolveIs
  <2> DEFINE x == RamVfsOpen(nodes, v)
  <2>5. FileOk(x, Len(nodes))
    <3>1. v \in VnodeType
      BY <2>4 DEF Placed
    <3>2. x = [vnode |-> v, offset |-> 0, pos |-> 0] \/ x = [vnode |-> v, offset |-> 0, pos |-> 0 - 1]
      BY DEF RamVfsOpen, NoPos
    <3> HIDE DEF x
    <3> QED
      BY <2>4, <3>1, <3>2 DEF FileOk, FileType, NoPos
  <2> HIDE DEF x
  <2> QED
    BY <1>1, <2>2, <2>5, FileChanges DEF x
<1> QED
  BY <1>2, <1>3

\* RamFSRead returns bytes of the file.
LEMMA RamFSReadIs ==
    ASSUME NEW ns \in Tree, NEW i \in 1 .. Len(ns), NEW off \in Nat, NEW len \in Nat
    PROVE  RamFSRead(ns, i, off, len) \in Seq(Byte)
<1> DEFINE d == ns[i].data
           e == Min({off + len, Len(d)})
<1>1. d \in Seq(Byte) /\ Len(d) \in Nat
  BY TreeIs
<1>2. e \in Nat /\ e <= Len(d)
  BY <1>1, MinOfTwo
<1> HIDE DEF e
<1>3. SubSeq(d, off + 1, e) \in Seq(Byte)
  <2>1. \A j \in off + 1 .. e : d[j] \in Byte
    BY <1>1, <1>2
  <2> HIDE DEF d
  <2> QED
    BY <1>2, <2>1, SubSeqProperties
<1>4. \/ RamFSRead(ns, i, off, len) = << >>
      \/ RamFSRead(ns, i, off, len) = SubSeq(d, off + 1, e)
  BY DEF RamFSRead, e
<1> HIDE DEF d
<1>5. << >> \in Seq(Byte)
  OBVIOUS
<1> QED
  BY <1>3, <1>4, <1>5

LEMMA ReadKeepsFileOk ==
    ASSUME FileInv, NEW x, FileOk(x, Len(nodes)), NEW len \in Nat,
           NEW y, y = ReadFile(x, len).file
    PROVE  FileOk(y, Len(nodes))
<1> DEFINE bytes == IF x.pos = NoPos THEN << >> ELSE RamFSRead(nodes, x.vnode.node, x.pos, len)
           g == Len(bytes)
           file == IF bytes = << >> THEN x ELSE [x EXCEPT !.pos = @ + g, !.offset = @ + g]
           r == RamVfsRead(nodes, x, len)
<1>1. /\ x \in FileType /\ x.offset \in Int /\ x.pos \in Int /\ x.vnode \in VnodeType
      /\ x.vnode.node \in 1 .. Len(nodes) /\ Placed(x.vnode, Len(nodes))
      /\ x = [vnode |-> x.vnode, offset |-> x.offset, pos |-> x.pos]
      /\ x.pos = NoPos \/ (x.pos \in Nat /\ x.pos <= x.offset /\ x.offset <= 2 * x.pos)
  BY FileIs DEF FileOk
<1>2. r = [bytes |-> bytes, file |-> file]
  BY DEF RamVfsRead
<1>3. y = [file EXCEPT !.offset = @ + g]
  BY <1>2 DEF ReadFile
<1>4. bytes \in Seq(Byte) /\ g \in Nat
  <2>1. CASE x.pos = NoPos
    BY <2>1
  <2>2. CASE x.pos # NoPos
    <3>1. bytes = RamFSRead(nodes, x.vnode.node, x.pos, len)
      BY <2>2
    <3>2. bytes \in Seq(Byte)
      BY <1>1, <2>2, <3>1, RamFSReadIs DEF FileInv
    <3> HIDE DEF bytes
    <3> QED
      BY <3>2
  <2> QED
    BY <2>1, <2>2
<1>5. bytes # << >> => x.pos # NoPos
  OBVIOUS
<1>6. bytes = << >> => g = 0
  OBVIOUS
<1> HIDE DEF bytes, g
<1>7. CASE bytes = << >>
  <2>1. y = [x EXCEPT !.offset = @ + 0]
    BY <1>3, <1>6, <1>7
  <2>2. y = x
    BY <1>1, <2>1
  <2> QED
    BY <2>2
<1>8. CASE bytes # << >>
  <2>1. file = [vnode |-> x.vnode, offset |-> x.offset + g, pos |-> x.pos + g]
    BY <1>1, <1>8
  <2> HIDE DEF file
  <2>2. y = [vnode |-> x.vnode, offset |-> x.offset + g + g, pos |-> x.pos + g]
    BY <1>3, <2>1
  <2>3. x.offset + g + g \in Int /\ x.pos + g \in Nat /\ x.pos + g <= x.offset + g + g
        /\ x.offset + g + g <= 2 * (x.pos + g)
    BY <1>1, <1>4, <1>5, <1>8
  <2> QED
    BY <1>1, <2>2, <2>3 DEF FileOk, FileType
<1> QED
  BY <1>7, <1>8

LEMMA ReadKeepsFiles ==
    ASSUME FileInv, NEW c \in Cpus, NEW f \in FileIds, NEW len \in Nat, VfsRead(c, f, len)
    PROVE  FileInv' /\ \A g \in FileIds : files[g] # NoFile => files'[g] # NoFile
<1>1. nodes' = nodes /\ files[f] # NoFile
  BY DEF VfsRead
<1>2. CASE len = 0
  <2>1. files' = files
    BY <1>2 DEF VfsRead
  <2> QED
    BY <1>1, <2>1, FileInvStutters
<1>3. CASE len # 0
  <2>1. PICK y : y = ReadFile(files[f], len).file
    OBVIOUS
  <2>2. files' = [files EXCEPT ![f] = y]
    BY <1>3, <2>1 DEF VfsRead
  <2>3. FileOk(files[f], Len(nodes))
    BY <1>1 DEF FileInv
  <2>4. FileOk(y, Len(nodes))
    BY <2>1, <2>3, ReadKeepsFileOk
  <2> QED
    BY <1>1, <2>2, <2>4, FileChanges, FileIs DEF FileInv
<1> QED
  BY <1>2, <1>3

LEMMA SeekKeepsFileOk ==
    ASSUME FileInv, NEW x, FileOk(x, Len(nodes)), NEW off \in Int, NEW w \in {"set", "cur", "end"},
           NEW y, y = RamVfsLseek(nodes, x, off, w)
    PROVE  FileOk(y, Len(nodes))
<1> DEFINE size == IF x.pos = NoPos THEN 0 ELSE Len(nodes[x.vnode.node].data)
           base == CASE w = "set" -> 0 [] w = "cur" -> x.offset [] w = "end" -> size
           up == Max({0, base + off})
           new == IF x.pos = NoPos THEN up ELSE Min({up, size})
<1>1. /\ x.offset \in Int /\ x.vnode \in VnodeType
      /\ x.vnode.node \in 1 .. Len(nodes) /\ Placed(x.vnode, Len(nodes))
      /\ x = [vnode |-> x.vnode, offset |-> x.offset, pos |-> x.pos]
  BY FileIs
<1>2. size \in Nat
  BY <1>1, TreeIs DEF FileInv
<1>3. y = [x EXCEPT !.offset = new, !.pos = IF @ = NoPos THEN NoPos ELSE new]
  BY DEF RamVfsLseek
<1> HIDE DEF size
<1>4. base \in Int
  BY <1>1, <1>2
<1> HIDE DEF base
<1>5. up \in Nat
  BY <1>4, MaxOfTwo
<1> HIDE DEF up
<1>6. new \in Nat
  BY <1>2, <1>5, MinOfTwo
<1> HIDE DEF new
<1>7. y = [vnode |-> x.vnode, offset |-> new, pos |-> IF x.pos = NoPos THEN NoPos ELSE new]
  BY <1>1, <1>3
<1> QED
  BY <1>1, <1>6, <1>7 DEF FileOk, FileType, NoPos

LEMMA LseekKeepsFiles ==
    ASSUME FileInv, NEW c \in Cpus, NEW f \in FileIds, NEW off \in Int, NEW w \in {"set", "cur", "end"},
           VfsLseek(c, f, off, w)
    PROVE  FileInv' /\ \A g \in FileIds : files[g] # NoFile => files'[g] # NoFile
<1>1. nodes' = nodes /\ files[f] # NoFile
  BY DEF VfsLseek
<1>2. PICK y : y = RamVfsLseek(nodes, files[f], off, w)
  OBVIOUS
<1>3. files' = [files EXCEPT ![f] = y]
  BY <1>2 DEF VfsLseek
<1>4. FileOk(y, Len(nodes))
  BY <1>1, <1>2, SeekKeepsFileOk DEF FileInv
<1> QED
  BY <1>1, <1>3, <1>4, FileChanges, FileIs DEF FileInv

LEMMA CloseKeepsFiles ==
    ASSUME FileInv, NEW c \in Cpus, NEW f \in FileIds, VfsClose(c, f)
    PROVE  FileInv'
  BY FileChanges DEF VfsClose

\* The calls on open files.
FileCall(c) ==
    \/ \E p \in Paths : VfsOpen(c, p)
    \/ \E f \in FileIds : \/ VfsClose(c, f)
                          \/ \E bad \in BOOLEAN : VfsFstats(c, f, bad)
                          \/ \E len \in Nat : VfsRead(c, f, len) \/ VfsWrite(c, f, len)
                          \/ \E off \in Int, w \in {"set", "cur", "end"} : VfsLseek(c, f, off, w)

LEMMA FileCallKeeps ==
    ASSUME FileInv, MountInv, LockInv, NEW c \in Cpus, FileCall(c)
    PROVE  FileInv' /\ MountInv' /\ LockStep /\ UNCHANGED <<nodes, pending>>
<1>1. ASSUME UNCHANGED <<nodes, mountVars>> PROVE MountInv'
  BY <1>1, MountInvStutters DEF mountVars
<1>2. ASSUME NEW p \in Paths, VfsOpen(c, p)
      PROVE  FileInv' /\ MountInv' /\ LockStep /\ UNCHANGED <<nodes, pending>>
  <2>1. \A b \in BOOLEAN : OpenLeak(p, b) \in Nat
    BY LeaksAre
  <2>2. CASE Reads(c, OpenLeak(p, TRUE))
    <3>1. LockStep /\ UNCHANGED <<nodes, mountVars, files, pending>>
      BY <2>1, <2>2, ReadsIs
    <3> QED
      BY <1>1, <3>1, FileInvStutters
  <2>3. CASE ~Reads(c, OpenLeak(p, TRUE))
    <3>1. UNCHANGED <<nodes, mountVars, pending>> /\ Call(c, OpenLeak(p, FALSE))
      BY <1>2, <2>3 DEF VfsOpen
    <3> QED
      BY <1>1, <1>2, <2>1, <3>1, OpenKeepsFiles, CallIsLockStep
  <2> QED
    BY <2>2, <2>3
<1>3. ASSUME NEW f \in FileIds, VfsClose(c, f)
      PROVE  FileInv' /\ MountInv' /\ LockStep /\ UNCHANGED <<nodes, pending>>
  <2>1. UNCHANGED <<nodes, mountVars, pending>> /\ Call(c, 0) /\ 0 \in Nat
    BY <1>3 DEF VfsClose
  <2> QED
    BY <1>1, <1>3, <2>1, CloseKeepsFiles, CallIsLockStep
<1>4. ASSUME NEW f \in FileIds,
             (\E bad \in BOOLEAN : VfsFstats(c, f, bad)) \/ \E len \in Nat : VfsWrite(c, f, len)
      PROVE  FileInv' /\ MountInv' /\ LockStep /\ UNCHANGED <<nodes, pending>>
  <2>1. Reads(c, 0) \/ Reads(c, 1)
    BY <1>4 DEF VfsFstats, VfsWrite, Fails
  <2>2. LockStep /\ UNCHANGED <<nodes, mountVars, files, pending>>
    BY <2>1, ReadsIs
  <2> QED
    BY <1>1, <2>2, FileInvStutters
<1>5. ASSUME NEW f \in FileIds, NEW len \in Nat, VfsRead(c, f, len)
      PROVE  FileInv' /\ MountInv' /\ LockStep /\ UNCHANGED <<nodes, pending>>
  <2>1. UNCHANGED <<nodes, mountVars, pending>> /\ (Call(c, 0) \/ Call(c, 1))
    BY <1>5 DEF VfsRead, Fails
  <2>2. LockStep
    BY <2>1, CallIsLockStep
  <2> QED
    BY <1>1, <1>5, <2>1, <2>2, ReadKeepsFiles
<1>6. ASSUME NEW f \in FileIds, NEW off \in Int, NEW w \in {"set", "cur", "end"}, VfsLseek(c, f, off, w)
      PROVE  FileInv' /\ MountInv' /\ LockStep /\ UNCHANGED <<nodes, pending>>
  <2>1. UNCHANGED <<nodes, mountVars, pending>> /\ Call(c, 0) /\ 0 \in Nat
    BY <1>6 DEF VfsLseek
  <2> QED
    BY <1>1, <1>6, <2>1, LseekKeepsFiles, CallIsLockStep
<1> QED
  BY <1>2, <1>3, <1>4, <1>5, <1>6 DEF FileCall


-----------------------------------------------------------------------------
(* Creations *)

AttachCalls == [stage : {"attach"}, dir : {Root}, name : Name, type : {"dir", "file"},
                unlock : BOOLEAN]
AddCalls == [stage : {"add"}, dir : {Root}, name : Name, type : {"dir", "file"},
             unlock : BOOLEAN, stale : BOOLEAN, leaf : Nat, slot : Nat]
Pendings == {Idle} \cup AttachCalls \cup AddCalls

\* A creation that is about to store its node does so at a slot that was the
\* root's count, and still is unless another creation came between.
AddOk(q, ns) ==
    q.stage = "add" => /\ q.leaf <= Len(ns) /\ q.slot <= Len(ns[Root].children)
                       /\ ~q.stale => q.slot = ns[Root].count

PendInv ==
    /\ nodes \in Tree
    /\ pending \in [Cpus -> Pendings]
    /\ \A c \in Cpus : AddOk(pending[c], nodes)

LEMMA PendingIs ==
    ASSUME NEW q \in Pendings
    PROVE  /\ q.stage = "attach" => q \in AttachCalls
           /\ q.stage = "add" => q \in AddCalls
           /\ q \in AttachCalls \cup AddCalls =>
                /\ q.dir = Root /\ q.name \in Name /\ q.type \in {"dir", "file"}
                /\ q.unlock \in BOOLEAN
           /\ q \in AddCalls =>
                q.stage = "add" /\ q.stale \in BOOLEAN /\ q.leaf \in Nat /\ q.slot \in Nat
  BY DEF Pendings, AttachCalls, AddCalls, Idle

LEMMA PendInvStutters ==
    ASSUME PendInv, UNCHANGED <<nodes, pending>>
    PROVE  PendInv'
  BY DEF PendInv

LEMMA PendingChanges ==
    ASSUME PendInv, nodes' = nodes, NEW c \in Cpus, NEW q \in Pendings, AddOk(q, nodes),
           pending' = [pending EXCEPT ![c] = q]
    PROVE  PendInv'
<1>1. pending' \in [Cpus -> Pendings] /\ \A d \in Cpus : pending'[d] = IF d = c THEN q ELSE pending[d]
  BY DEF PendInv
<1> QED
  BY <1>1 DEF PendInv

LEMMA IdleIs == Idle \in Pendings /\ \A ns : AddOk(Idle, ns)
  BY DEF Pendings, AddOk, Idle

LEMMA IsExtended ==
    ASSUME NEW ns \in Tree, NEW t, Extends(ns, t)
    PROVE  /\ Root \in 1 .. Len(ns) /\ Len(ns) <= Len(t) /\ Len(ns) \in Nat /\ Len(t) \in Nat
           /\ Len(ns[Root].children) <= Len(t[Root].children)
           /\ Len(ns[Root].children) \in Nat /\ Len(t[Root].children) \in Nat
<1>1. t \in Tree /\ Root \in 1 .. Len(ns) /\ Len(ns) <= Len(t) /\ Len(ns) \in Nat
      /\ Len(ns[Root].children) \in Nat
  BY TreeIs DEF Extends, Root
<1>2. Len(t) \in Nat /\ Root \in 1 .. Len(t)
  BY <1>1, TreeIs DEF Root
<1>3. Len(t[Root].children) \in Nat
  BY <1>1, <1>2, TreeIs
<1> QED
  BY <1>1, <1>2, <1>3 DEF Extends

\* What is open, mounted and the root stays a node when nodes are added.
LEMMA OthersKeep ==
    ASSUME FileInv, MountInv, Extends(nodes, nodes'), UNCHANGED <<mountVars, files>>
    PROVE  FileInv' /\ MountInv'
<1>1. nodes' \in Tree /\ Len(nodes) <= Len(nodes') /\ Len(nodes) \in Nat /\ Len(nodes') \in Nat
  BY IsExtended DEF Extends, FileInv
<1>2. \A v : Placed(v, Len(nodes)) => Placed(v, Len(nodes'))
  BY <1>1 DEF Placed
<1>3. \A x : FileOk(x, Len(nodes)) => FileOk(x, Len(nodes'))
  BY <1>2 DEF FileOk
<1>4. RootOk(root, mounts, live, aliased, spare, Len(nodes'))
  BY <1>2 DEF MountInv, RootOk
<1>5. FileInv'
  BY <1>1, <1>3 DEF FileInv
<1>6. MountInv'
  BY <1>4 DEF MountInv, mountVars
<1> QED
  BY <1>5, <1>6


LEMMA StaleIs ==
    ASSUME NEW q \in Pendings, q.stage = "add", NEW ns, AddOk(q, ns), NEW t, ns \in Tree, Extends(ns, t),
           NEW z, z = [q EXCEPT !.stale = TRUE]
    PROVE  z \in Pendings /\ AddOk(z, t)
<1>1. q \in AddCalls
  BY PendingIs
<1>2. z \in AddCalls /\ z.stale = TRUE /\ z.leaf = q.leaf /\ z.slot = q.slot
  BY <1>1 DEF AddCalls
<1>3. q.leaf \in Nat /\ q.slot \in Nat
  BY <1>1, PendingIs
<1> QED
  BY <1>2, <1>3, IsExtended DEF Pendings, AddOk

LEMMA OthersAreStale ==
    ASSUME PendInv, Extends(nodes, nodes'), NEW d \in Cpus, NEW z,
           z = IF pending[d].stage = "add" THEN [pending[d] EXCEPT !.stale = TRUE] ELSE pending[d]
    PROVE  z \in Pendings /\ AddOk(z, nodes')
<1>1. pending[d] \in Pendings /\ AddOk(pending[d], nodes) /\ nodes \in Tree
  BY DEF PendInv
<1>2. CASE pending[d].stage = "add"
  BY <1>1, <1>2, StaleIs
<1>3. CASE pending[d].stage # "add"
  BY <1>1, <1>3 DEF AddOk
<1> QED
  BY <1>2, <1>3


\* What a name-space call does.
NameStep ==
    /\ FileInv' /\ MountInv' /\ PendInv' /\ LockInv' /\ UnlockInv'
    /\ Extends(nodes, nodes')
    /\ (\A c \in Cpus : pending[c].stage = "add" => ~pending[c].stale) => AddsLast(nodes, nodes')

LEMMA SameExtends ==
    ASSUME NEW ns \in Tree
    PROVE  Extends(ns, ns) /\ AddsLast(ns, ns)
<1>1. Len(ns) \in Nat /\ Root \in 1 .. Len(ns)
      /\ \A i \in 1 .. Len(ns) : Len(ns[i].children) \in Nat /\ ns[i].count \in 0 .. Len(ns[i].children)
  BY TreeIs DEF Root
<1>2. ns[Root].count <= ns[Root].count
  BY <1>1
<1> QED
  BY <1>1, <1>2 DEF Extends, AddsLast

LEMMA CreationIs ==
    ASSUME NEW name \in Name, NEW type \in {"dir", "file"}, NEW unlock \in BOOLEAN
    PROVE  /\ Creation(name, type, unlock) \in Pendings
           /\ \A ns : AddOk(Creation(name, type, unlock), ns)
           /\ Unlocks(Creation(name, type, unlock)) => unlock
<1>1. PICK q : q = Creation(name, type, unlock)
  OBVIOUS
<1>2. q = [stage |-> "attach", dir |-> Root, name |-> name, type |-> type, unlock |-> unlock]
  BY <1>1 DEF Creation
<1>3. q \in AttachCalls /\ q.stage = "attach"
  BY <1>2 DEF AttachCalls
<1>4. q.unlock <=> unlock
  BY <1>2, Zenon
<1>5. q \in Pendings /\ \A ns : AddOk(q, ns)
  BY <1>3 DEF Pendings, AddOk
<1>6. Unlocks(q) => unlock
  BY <1>4, Zenon DEF Unlocks
<1> QED
  BY <1>1, <1>5, <1>6

\* A creation is left for the steps that follow.
LEMMA StartKeeps ==
    ASSUME FileInv, MountInv, PendInv, LockInv, UnlockInv, NEW c \in Cpus,
           NEW name \in Name, NEW type \in {"dir", "file"}, NEW unlock \in BOOLEAN,
           pending' = [pending EXCEPT ![c] = Creation(name, type, unlock)],
           UNCHANGED <<nodes, mountVars, files>>,
           Call(c, 1) \/ (Call(c, 0) /\ ~unlock)
    PROVE  NameStep
<1>1. LockStep
  BY CallIsLockStep
<1>2. nodes' = nodes /\ nodes \in Tree /\ Extends(nodes, nodes') /\ AddsLast(nodes, nodes')
  BY SameExtends DEF FileInv
<1>3. FileInv' /\ MountInv'
  BY <1>2, OthersKeep
<1>4. PICK q : q = Creation(name, type, unlock)
  OBVIOUS
<1>5. q \in Pendings /\ AddOk(q, nodes) /\ (Unlocks(q) => unlock)
  BY <1>4, CreationIs
<1>6. PendInv'
  BY <1>2, <1>4, <1>5, PendingChanges
<1>7. /\ held \in [Cpus -> Nat] /\ held' \in [Cpus -> Nat]
      /\ \A d \in Cpus : held'[d] >= held[d]
  BY <1>1 DEF LockStep, LockInv
<1>8. pending'[c] = q /\ \A d \in Cpus \ {c} : pending'[d] = pending[d]
  BY <1>4 DEF PendInv
<1>9. unlock => held'[c] >= 1
  <2>1. unlock => held' = [held EXCEPT ![c] = @ + 1]
    BY DEF Call
  <2>2. held[c] \in Nat
    BY <1>7
  <2>3. unlock => held'[c] = held[c] + 1
    BY <1>7, <2>1
  <2> QED
    BY <2>2, <2>3
<1>10. UnlockInv'
  <2>1. \A d \in Cpus \ {c} : Unlocks(pending'[d]) => Unlocks(pending[d])
    BY <1>8
  <2>2. Unlocks(pending'[c]) => held'[c] >= 1
    BY <1>5, <1>8, <1>9
  <2> QED
    BY <1>7, <2>1, <2>2, UnlocksKept
<1> QED
  BY <1>1, <1>2, <1>3, <1>6, <1>10 DEF NameStep, LockStep

\* A call that goes no further than its look-up.
LEMMA StopKeeps ==
    ASSUME FileInv, MountInv, PendInv, LockInv, UnlockInv, NEW c \in Cpus,
           UNCHANGED <<nodes, mountVars, files, pending>>, Call(c, 0) \/ Call(c, 1)
    PROVE  NameStep
<1>1. LockStep
  BY CallIsLockStep
<1>2. nodes' = nodes /\ nodes \in Tree /\ Extends(nodes, nodes') /\ AddsLast(nodes, nodes')
  BY SameExtends DEF FileInv
<1>3. FileInv' /\ MountInv' /\ PendInv' /\ UnlockInv'
  BY <1>1, <1>2, OthersKeep, PendInvStutters, LockStepUnlocks
<1> QED
  BY <1>1, <1>2, <1>3 DEF NameStep, LockStep

\* VfsCreate and VfsMkdir: the creation is left for after the release.
LEMMA StartCreateKeeps ==
    ASSUME FileInv, MountInv, PendInv, LockInv, UnlockInv, NEW c \in Cpus, NEW p \in Paths,
           NEW type \in {"dir", "file"},
           StartCreate(c, p, type), UNCHANGED <<nodes, mountVars, files>>, Call(c, 0) \/ Call(c, 1)
    PROVE  NameStep
<1>1. CASE ~Accepts(Base(p))
  BY <1>1, StopKeeps DEF StartCreate
<1>2. CASE Accepts(Base(p))
  <2>1. p # << >> /\ p \in Seq(Name)
    BY <1>2, VfsAssumption DEF Accepts, Base
  <2>2. Last(p) \in Name
    BY <2>1 DEF Last
  <2>3. pending' = [pending EXCEPT ![c] = Creation(Last(p), type, FALSE)]
    BY <1>2 DEF StartCreate
  <2> QED
    BY <2>2, <2>3, StartKeeps
<1> QED
  BY <1>1, <1>2

LEMMA AttachFindKeeps ==
    ASSUME FileInv, MountInv, PendInv, LockInv, UnlockInv, NEW c \in Cpus, AttachFind(c)
    PROVE  NameStep
<1> DEFINE q == pending[c]
           z == [stage |-> "add", dir |-> q.dir, name |-> q.name, type |-> q.type,
                 unlock |-> q.unlock, stale |-> FALSE,
                 leaf |-> Child(nodes, q.dir, q.name, {"dir", "file"}),
                 slot |-> nodes[q.dir].count]
<1>1. UNCHANGED <<nodes, mountVars, files, held>> /\ q.stage = "attach" /\ pending' = [pending EXCEPT ![c] = z]
  BY DEF AttachFind
<1>2. nodes' = nodes /\ nodes \in Tree /\ Extends(nodes, nodes') /\ AddsLast(nodes, nodes')
  BY <1>1, SameExtends DEF FileInv
<1>3. FileInv' /\ MountInv'
  BY <1>1, <1>2, OthersKeep
<1>4. LockStep
  BY <1>1 DEF LockStep, LockInv
<1>5. q \in AttachCalls
  BY <1>1, PendingIs DEF PendInv
<1>6. q.dir = Root /\ q.name \in Name /\ q.type \in {"dir", "file"} /\ q.unlock \in BOOLEAN
  BY <1>5, PendingIs, Zenon DEF Pendings
<1>7. Root \in 1 .. Len(nodes) /\ Len(nodes) \in Nat
      /\ nodes[Root].count \in 0 .. Len(nodes[Root].children) /\ Len(nodes[Root].children) \in Nat
  BY <1>2, TreeIs DEF Root
<1>8. Child(nodes, Root, q.name, {"dir", "file"}) \in 0 .. Len(nodes)
  BY <1>2, <1>7, ChildIs
<1>9. z \in AddCalls
  BY <1>6, <1>7, <1>8 DEF AddCalls
<1>10. AddOk(z, nodes)
  BY <1>6, <1>7, <1>8 DEF AddOk
<1>11. z.unlock = q.unlock
  BY Zenon
<1>12. Unlocks(z) => Unlocks(q)
  BY <1>1, <1>11 DEF Unlocks
<1> HIDE DEF z
<1>13. PendInv'
  BY <1>1, <1>2, <1>9, <1>10, PendingChanges DEF Pendings
<1>14. pending'[c] = z /\ \A d \in Cpus \ {c} : pending'[d] = pending[d]
  BY <1>1 DEF PendInv
<1>15. UnlockInv'
  <2>1. held' = held /\ held \in [Cpus -> Nat] /\ \A d \in Cpus : held[d] >= held[d]
    BY <1>1 DEF LockInv
  <2>2. Unlocks(pending'[c]) => held'[c] >= 1
    BY <1>12, <1>14, <2>1 DEF UnlockInv
  <2>3. \A d \in Cpus \ {c} : Unlocks(pending'[d]) => Unlocks(pending[d])
    BY <1>14
  <2> QED
    BY <2>1, <2>2, <2>3, UnlocksKept
<1> QED
  BY <1>2, <1>3, <1>4, <1>13, <1>15 DEF NameStep, LockStep

\* A node is added to the root.
LEMMA RootGrows ==
    ASSUME FileInv, MountInv, PendInv, NEW slot \in 0 .. Len(nodes[Root].children), NEW name, NEW type,
           Grown(nodes, Root, slot, name, type, nodes'), UNCHANGED <<mountVars, files>>,
           pending' = [d \in Cpus |-> pending'[d]],
           \A d \in Cpus : \/ pending'[d] = Idle
                           \/ pending'[d] = IF pending[d].stage = "add" THEN [pending[d] EXCEPT !.stale = TRUE]
                                            ELSE pending[d]
    PROVE  /\ FileInv' /\ MountInv' /\ PendInv' /\ Extends(nodes, nodes')
           /\ slot = nodes[Root].count => AddsLast(nodes, nodes')
<1>1. Extends(nodes, nodes') /\ (slot = nodes[Root].count => AddsLast(nodes, nodes'))
  BY GrownExtends DEF FileInv
<1>2. FileInv' /\ MountInv'
  BY <1>1, OthersKeep
<1>3. \A d \in Cpus : pending'[d] \in Pendings /\ AddOk(pending'[d], nodes')
  BY <1>1, OthersAreStale, IdleIs
<1>4. PendInv'
  BY <1>2, <1>3 DEF PendInv, FileInv
<1> QED
  BY <1>1, <1>2, <1>4


\* The end of one creation leaves what the others will do.
LEMMA FinishOthers ==
    ASSUME PendInv, UnlockInv, held \in [Cpus -> Nat], held' \in [Cpus -> Nat], NEW c \in Cpus,
           AttachFinish(c), \A d \in Cpus \ {c} : held'[d] = held[d]
    PROVE  UnlockInv'
<1>1. ~Unlocks(Idle)
  BY DEF Unlocks, Idle
<1>2. \/ pending' = [pending EXCEPT ![c] = Idle]
      \/ pending' = [d \in Cpus |-> IF d = c THEN Idle
                                    ELSE IF pending[d].stage = "add"
                                    THEN [pending[d] EXCEPT !.stale = TRUE]
                                    ELSE pending[d]]
  BY DEF AttachFinish
<1>3. pending'[c] = Idle
  BY <1>2 DEF PendInv
<1>4. ASSUME NEW d \in Cpus \ {c}, Unlocks(pending'[d]) PROVE Unlocks(pending[d])
  <2>1. \/ pending'[d] = pending[d]
        \/ /\ pending[d].stage = "add"
           /\ pending'[d] = [pending[d] EXCEPT !.stale = TRUE]
    BY <1>2 DEF PendInv
  <2>2. CASE pending'[d] = pending[d]
    BY <1>4, <2>2
  <2>3. CASE pending[d].stage = "add" /\ pending'[d] = [pending[d] EXCEPT !.stale = TRUE]
    <3>1. pending[d] \in AddCalls
      BY <2>3, PendingIs DEF PendInv
    <3>2. PICK x \in AddCalls : x = pending[d]
      BY <3>1
    <3>3. [x EXCEPT !.stale = TRUE].unlock = x.unlock
      BY Zenon DEF AddCalls
    <3> QED
      BY <1>4, <2>3, <3>2, <3>3, Zenon DEF Unlocks
  <2> QED
    BY <2>1, <2>2, <2>3
<1>5. \A d \in Cpus \ {c} : held[d] \in Nat /\ held'[d] >= held[d]
  OBVIOUS
<1> QED
  BY <1>1, <1>3, <1>4, <1>5, UnlocksKept

\* The end of a creation gives VfsLock back at most once, and only if its call
\* kept it.
LEMMA FinishUnlocks ==
    ASSUME PendInv, LockInv, UnlockInv, NEW c \in Cpus, AttachFinish(c)
    PROVE  LockInv' /\ UnlockInv'
<1> DEFINE q == pending[c]
           found == RamVfsLookup(nodes', q.dir, q.name) # NoNode
<1>1. q.stage = "add" /\ held' = IF q.unlock /\ found THEN [held EXCEPT ![c] = @ - 1] ELSE held
  BY DEF AttachFinish
<1> HIDE DEF found
<1>2. held \in [Cpus -> Nat] /\ held[c] \in Nat
  BY DEF LockInv
<1>3. CASE q.unlock /\ found
  <2>1. held[c] >= 1
    BY <1>1, <1>3 DEF UnlockInv, Unlocks
  <2>2. held[c] - 1 \in Nat
    BY <1>2, <2>1
  <2>3. held' = [held EXCEPT ![c] = held[c] - 1]
    BY <1>1, <1>3
  <2>4. held' \in [Cpus -> Nat] /\ \A d \in Cpus \ {c} : held'[d] = held[d]
    BY <1>2, <2>2, <2>3
  <2>5. \A d \in Cpus \ {c} : held[d] = 0
    BY <1>2, <2>1 DEF LockInv
  <2>6. LockInv'
    BY <2>4, <2>5 DEF LockInv
  <2> QED
    BY <1>2, <2>4, <2>6, FinishOthers
<1>4. CASE ~(q.unlock /\ found)
  <2>1. held' = held
    BY <1>1, <1>4
  <2>2. LockInv'
    BY <2>1 DEF LockInv
  <2> QED
    BY <1>2, <2>1, <2>2, FinishOthers
<1> QED
  BY <1>3, <1>4

LEMMA AttachFinishKeeps ==
    ASSUME FileInv, MountInv, PendInv, LockInv, UnlockInv, NEW c \in Cpus, AttachFinish(c)
    PROVE  NameStep
<1> DEFINE q == pending[c]
           new == Len(nodes) + 1
<1>1. UNCHANGED <<mountVars, files>> /\ q.stage = "add"
  BY DEF AttachFinish
<1>2. LockInv' /\ UnlockInv'
  BY FinishUnlocks
<1>3. /\ q \in AddCalls /\ q.dir = Root /\ q.name \in Name /\ q.type \in {"dir", "file"}
      /\ q.leaf \in Nat /\ q.slot \in Nat /\ q.leaf <= Len(nodes) /\ q.slot <= Len(nodes[Root].children)
      /\ ~q.stale => q.slot = nodes[Root].count
  <2>1. q \in AddCalls /\ AddOk(q, nodes)
    BY <1>1, PendingIs DEF PendInv
  <2> QED
    BY <1>1, <2>1, PendingIs DEF Pendings, AddOk
<1>4. nodes \in Tree /\ Root \in 1 .. Len(nodes) /\ Len(nodes) \in Nat
      /\ nodes[Root].count \in 0 .. Len(nodes[Root].children) /\ Len(nodes[Root].children) \in Nat
  BY TreeIs DEF Root, FileInv
<1>5. CASE nodes' = nodes /\ pending' = [pending EXCEPT ![c] = Idle]
  <2>1. Extends(nodes, nodes') /\ AddsLast(nodes, nodes')
    BY <1>4, <1>5, SameExtends
  <2>2. FileInv' /\ MountInv' /\ PendInv'
    BY <1>1, <1>5, <2>1, OthersKeep, IdleIs, PendingChanges
  <2> QED
    BY <1>2, <2>1, <2>2 DEF NameStep
<1>6. CASE /\ q.leaf # NoNode /\ q.type = "file" /\ nodes' = [nodes EXCEPT ![q.leaf].data = << >>]
           /\ pending' = [pending EXCEPT ![c] = Idle]
  <2>1. q.leaf \in 1 .. Len(nodes)
    BY <1>3, <1>4, <1>6 DEF NoNode
  <2>2. Extends(nodes, nodes') /\ AddsLast(nodes, nodes') /\ nodes'[Root].count = nodes[Root].count
    BY <1>4, <1>6, <2>1, EmptiedExtends
  <2>3. FileInv' /\ MountInv'
    BY <1>1, <2>2, OthersKeep
  <2>4. /\ pending' \in [Cpus -> Pendings]
        /\ \A d \in Cpus : pending'[d] = Idle \/ pending'[d] = pending[d]
    BY <1>6, IdleIs DEF PendInv
  <2>5. ASSUME NEW d \in Cpus PROVE AddOk(pending'[d], nodes')
    <3>1. CASE pending'[d] = Idle
      BY <3>1, IdleIs
    <3>2. CASE pending'[d] = pending[d]
      <4>1. pending[d] \in Pendings /\ AddOk(pending[d], nodes)
        BY DEF PendInv
      <4>2. pending[d].stage = "add" => pending[d].slot \in Nat
        BY <4>1, PendingIs
      <4>3. pending[d].stage = "add" => pending[d].leaf \in Nat
        BY <4>1, PendingIs
      <4> QED
        BY <1>4, <2>2, <3>2, <4>1, <4>2, <4>3, IsExtended DEF AddOk
    <3> QED
      BY <2>4, <3>1, <3>2
  <2>6. PendInv'
    BY <2>3, <2>4, <2>5 DEF PendInv, FileInv
  <2> QED
    BY <1>2, <2>2, <2>3, <2>6 DEF NameStep
<1>7. ASSUME NEW slot \in {q.slot, nodes[q.dir].count},
             nodes' = Append([nodes EXCEPT ![q.dir] = PutChild(@, slot, new)], Node(q.name, q.type)),
             pending' = [d \in Cpus |-> IF d = c THEN Idle
                                        ELSE IF pending[d].stage = "add"
                                        THEN [pending[d] EXCEPT !.stale = TRUE]
                                        ELSE pending[d]]
      PROVE  NameStep
  <2>1. slot \in 0 .. Len(nodes[Root].children) /\ (~q.stale => slot = nodes[Root].count)
    BY <1>3, <1>4, <1>7
  <2>2. nodes' = Append([nodes EXCEPT ![Root] = PutChild(nodes[Root], slot, Len(nodes) + 1)], Node(q.name, q.type))
    BY <1>3, <1>7
  <2>3. Grown(nodes, Root, slot, q.name, q.type, nodes')
    BY <1>3, <1>4, <2>1, <2>2, NewNodeIs
  <2>4. /\ pending' = [d \in Cpus |-> pending'[d]]
        /\ \A d \in Cpus : \/ pending'[d] = Idle
                           \/ pending'[d] = IF pending[d].stage = "add" THEN [pending[d] EXCEPT !.stale = TRUE]
                                            ELSE pending[d]
    BY <1>7
  <2>5. /\ FileInv' /\ MountInv' /\ PendInv' /\ Extends(nodes, nodes')
        /\ slot = nodes[Root].count => AddsLast(nodes, nodes')
    BY <1>1, <2>1, <2>3, <2>4, RootGrows
  <2>6. (\A d \in Cpus : pending[d].stage = "add" => ~pending[d].stale) => AddsLast(nodes, nodes')
    BY <1>1, <2>1, <2>5
  <2> QED
    BY <1>2, <2>5, <2>6 DEF NameStep
<1> QED
  BY <1>5, <1>6, <1>7 DEF AttachFinish

LEMMA VfsMkpathKeeps ==
    ASSUME FileInv, MountInv, PendInv, LockInv, UnlockInv, NEW c \in Cpus, NEW p \in Paths, VfsMkpath(c, p)
    PROVE  NameStep
<1> DEFINE found == root.sb \in RamSbs /\ Walk(nodes, root.node, p) # NoNode
           makes == Accepts(root) /\ p # << >> /\ RamVfsLookup(nodes, Root, p[1]) = NoNode
<1>1. CASE ~makes /\ Reads(c, Fails(p # << >> /\ ~found))
  <2> HIDE DEF found
  <2>1. Reads(c, 0) \/ Reads(c, 1)
    BY <1>1 DEF Fails
  <2> QED
    BY <2>1, StopKeeps DEF Reads, mountVars
<1>2. CASE /\ makes /\ Call(c, 1)
           /\ pending' = [pending EXCEPT ![c] = Creation(p[1], "dir", Len(p) = 1)]
           /\ UNCHANGED <<nodes, mountVars, files>>
  <2>1. p \in Seq(Name) /\ p # << >>
    BY <1>2, VfsAssumption
  <2>2. p[1] \in Name
    BY <2>1
  <2> HIDE DEF makes
  <2> QED
    BY <1>2, <2>2, StartKeeps
<1> QED
  BY <1>1, <1>2 DEF VfsMkpath

LEMMA NameCallsKeep ==
    ASSUME FileInv, MountInv, PendInv, LockInv, UnlockInv, NEW c \in Cpus, NameCalls(c)
    PROVE  NameStep
<1>1. ASSUME NEW p \in Paths, VfsCreate(c, p)
      PROVE  NameStep
  <2>1. StartCreate(c, p, "file") /\ UNCHANGED <<nodes, mountVars, files>> /\ (Call(c, 0) \/ Call(c, 1))
    BY <1>1 DEF VfsCreate, Fails
  <2> QED
    BY <2>1, StartCreateKeeps
<1>2. ASSUME NEW p \in Paths, VfsMkdir(c, p)
      PROVE  NameStep
  <2>1. StartCreate(c, p, "dir") /\ UNCHANGED <<nodes, mountVars, files>> /\ (Call(c, 0) \/ Call(c, 1))
    BY <1>2 DEF VfsMkdir
  <2> QED
    BY <2>1, StartCreateKeeps
<1> QED
  BY <1>1, <1>2, AttachFindKeeps, AttachFinishKeeps, VfsMkpathKeeps DEF NameCalls


-----------------------------------------------------------------------------
(* The invariant of the virtual file system *)

VfsInv == FileInv /\ MountInv /\ LockInv /\ PendInv /\ UnlockInv

LEMMA BootedIs ==
    ASSUME VfsBooted
    PROVE  VfsInv
<1>1. FirstSb \in RamSbs
  <2>1. \E sb \in RamSbs : TRUE
    BY VfsAssumption
  <2> QED
    BY <2>1, Zenon DEF FirstSb
<1>2. nodes \in Tree /\ Len(nodes) \in Nat /\ Root \in 1 .. Len(nodes)
  <2>1. nodes \in Tree
    BY MountedTree DEF VfsBooted
  <2> QED
    BY <2>1, TreeIs DEF Root
<1>3. FileInv
  BY <1>2 DEF FileInv, VfsBooted
<1>4. LockInv
  BY DEF LockInv, VfsBooted
<1>5. PendInv
  BY <1>2, IdleIs DEF PendInv, VfsBooted
<1>6. MountInv
  <2> DEFINE e == [sb |-> FirstSb, path |-> << >>]
  <2>1. e \in MountType /\ e.sb = FirstSb /\ e.path = << >> /\ mounts = <<e>>
    BY <1>1 DEF MountType, VfsBooted
  <2> HIDE DEF e
  <2>2. mounts \in Seq(MountType) /\ Len(mounts) = 1 /\ mounts[1] = e
    BY <2>1
  <2>3. \A i \in 1 .. Len(mounts) : mounts[i].sb = FirstSb /\ mounts[i].path = << >> /\ i = 1
    BY <2>1, <2>2
  <2>4. Reachable(FirstSb, live, aliased, spare) /\ spare \subseteq RamSbs
    BY DEF Reachable, VfsBooted
  <2>5. EntriesOk(mounts, live, aliased, spare)
    BY <2>3, <2>4 DEF EntriesOk
  <2>6. root = Vnode(FirstSb, Root) /\ Placed(root, Len(nodes)) /\ root.sb = FirstSb
    BY <1>1, <1>2, VnodeIs DEF VfsBooted
  <2>7. RootOk(root, mounts, live, aliased, spare, Len(nodes))
    BY <1>1, <2>3, <2>4, <2>6 DEF RootOk
  <2> QED
    BY <2>2, <2>4, <2>5, <2>7 DEF MountInv
<1>7. UnlockInv
  <2>1. ~Unlocks(Idle)
    BY DEF Unlocks, Idle
  <2> QED
    BY <2>1 DEF UnlockInv, VfsBooted
<1> QED
  BY <1>3, <1>4, <1>5, <1>6, <1>7 DEF VfsInv

LEMMA FileCallIs ==
    ASSUME NEW c \in Cpus, FileCalls(c)
    PROVE  FileCall(c)
<1>1. 0 .. 2 \subseteq Nat /\ {0 - 1, 0, 1} \subseteq Int
  OBVIOUS
<1> QED
  BY <1>1 DEF FileCalls, FileCall

\* Every step keeps the invariant; the steps that change nodes are those of the
\* name-space calls.
LEMMA VfsStep ==
    ASSUME VfsInv, [VfsNext]_vfsVars
    PROVE  /\ VfsInv'
           /\ nodes' # nodes => NameStep
<1>1. CASE UNCHANGED vfsVars
  <2>1. UNCHANGED <<nodes, mounts, root, live, spare, aliased, files, held, pending>>
    BY <1>1 DEF vfsVars, mountVars
  <2>2. FileInv' /\ MountInv' /\ PendInv'
    BY <2>1, FileInvStutters, MountInvStutters, PendInvStutters DEF VfsInv
  <2>3. LockInv' /\ UnlockInv'
    BY <2>1 DEF LockInv, UnlockInv, Unlocks, VfsInv
  <2> QED
    BY <2>1, <2>2, <2>3 DEF VfsInv
<1>2. ASSUME NEW c \in Cpus, MountCalls(c)
      PROVE  VfsInv' /\ nodes' = nodes
  <2>1. MountInv' /\ LockStep /\ UNCHANGED <<nodes, files, pending>>
    BY <1>2, MountCallsKeep DEF VfsInv, FileInv
  <2> QED
    BY <2>1, FileInvStutters, PendInvStutters, LockStepUnlocks DEF VfsInv, LockStep
<1>3. ASSUME NEW c \in Cpus, NameCalls(c)
      PROVE  VfsInv' /\ NameStep
  BY <1>3, NameCallsKeep DEF VfsInv, NameStep
<1>4. ASSUME NEW c \in Cpus, ReadCalls(c)
      PROVE  VfsInv' /\ nodes' = nodes
  <2>1. LockStep /\ UNCHANGED <<nodes, mountVars, files, pending>>
    BY <1>4, ReadCallsIs DEF VfsInv
  <2> QED
    BY <2>1, FileInvStutters, PendInvStutters, MountInvStutters, LockStepUnlocks DEF VfsInv, LockStep, mountVars
<1>5. ASSUME NEW c \in Cpus, FileCall(c)
      PROVE  VfsInv' /\ nodes' = nodes
  <2>1. FileInv' /\ MountInv' /\ LockStep /\ UNCHANGED <<nodes, pending>>
    BY <1>5, FileCallKeeps DEF VfsInv
  <2> QED
    BY <2>1, PendInvStutters, LockStepUnlocks DEF VfsInv, LockStep
<1> QED
  BY <1>1, <1>2, <1>3, <1>4, <1>5, FileCallIs DEF VfsNext

\* The open files, the mount table with its root, the creations and VfsLock are
\* what the conjuncts of VfsInv say, in every state that the calls lead to.
THEOREM VfsInvariant == VfsSpec => []VfsInv
<1>1. VfsBooted => VfsInv
  BY BootedIs
<1>2. VfsInv /\ [VfsNext]_vfsVars => VfsInv'
  BY VfsStep
<1> QED
  BY <1>1, <1>2, PTL DEF VfsSpec

\* A released superblock is found through the mount table or the global root
\* only if VfsBindMount, VfsSwitchRoot or VfsMoveMount made it reachable twice.
THEOREM MountsAreLive == VfsSpec => []MountedIsLive
<1>1. VfsInv => MountedIsLive
  BY DEF VfsInv, MountInv, EntriesOk, RootOk, Reachable, MountedIsLive
<1> QED
  BY <1>1, VfsInvariant, PTL

\* The offset that VfsRead moves twice is never beyond twice the position.
THEOREM OffsetsDrift == VfsSpec => []OffsetDrift
<1>1. VfsInv => OffsetDrift
  BY DEF VfsInv, FileInv, FileOk, OffsetDrift
<1> QED
  BY <1>1, VfsInvariant, PTL

\* A name that leads to a node goes on leading to it, unless two creations
\* overlapped.
THEOREM NamesAreStable == VfsSpec => NamesStayBound
<1> DEFINE Bound ==
      nodes' # nodes =>
        /\ (\A c \in Cpus : pending[c].stage = "add" => ~pending[c].stale)
              => \A p \in Paths : Walk(nodes, Root, p) # NoNode
                                    => Walk(nodes', Root, p) = Walk(nodes, Root, p)
        /\ \A n \in 2..Len(nodes) : nodes'[n].count = nodes[n].count
<1>1. ASSUME VfsInv, [VfsNext]_vfsVars PROVE [Bound]_vfsVars
  <2> SUFFICES ASSUME nodes' # nodes
               PROVE  /\ (\A c \in Cpus : pending[c].stage = "add" => ~pending[c].stale)
                           => \A p \in Paths : Walk(nodes, Root, p) # NoNode
                                                 => Walk(nodes', Root, p) = Walk(nodes, Root, p)
                      /\ \A n \in 2..Len(nodes) : nodes'[n].count = nodes[n].count
    OBVIOUS
  <2>1. NameStep
    BY <1>1, VfsStep
  <2>2. nodes \in Tree /\ Root \in 1 .. Len(nodes) /\ Len(nodes) \in Nat /\ Extends(nodes, nodes')
    BY <1>1, <2>1, TreeIs DEF VfsInv, FileInv, NameStep, Root
  <2>3. \A n \in 2 .. Len(nodes) : nodes'[n].count = nodes[n].count
    BY <2>2 DEF Extends, Root
  <2>4. ASSUME AddsLast(nodes, nodes'), NEW p \in Paths, Walk(nodes, Root, p) # NoNode
        PROVE  Walk(nodes', Root, p) = Walk(nodes, Root, p)
    <3>1. Len(p) \in Nat
      BY VfsAssumption
    <3>2. Walk(nodes, Root, p) # 0
      BY <2>4 DEF NoNode
    <3> QED
      BY <2>2, <2>4, <3>1, <3>2, WalkStays
  <2> QED
    BY <2>1, <2>3, <2>4 DEF NameStep
<1>2. VfsInv /\ [VfsNext]_vfsVars => [Bound]_vfsVars
  BY <1>1
<1> QED
  BY <1>2, VfsInvariant, PTL DEF VfsSpec, NamesStayBound


-----------------------------------------------------------------------------
(* Descriptors and what they refer to *)

\* The calls of the table on files are calls of Vfs.
LEMMA VfsInvInFd ==
    ASSUME VfsInv, TableInv, [FdNext]_allVars
    PROVE  VfsInv'
<1>1. CASE UNCHANGED vfsVars
  BY <1>1, VfsStep
<1>2. ASSUME NEW c \in Cpus, FileCall(c)
      PROVE  VfsInv'
  <2>1. FileInv' /\ MountInv' /\ LockStep /\ UNCHANGED <<nodes, pending>>
    BY <1>2, FileCallKeeps DEF VfsInv
  <2> QED
    BY <2>1, PendInvStutters, LockStepUnlocks DEF VfsInv, LockStep
<1>3. \A fd \in Fds : fds[fd] # NoEntry /\ fds[fd].kind = "file" => fds[fd].obj \in FileIds
  BY EntriesIs DEF TableInv, Tables
<1>4. CASE \E c \in Cpus, p \in Paths : PosixOpen(c, p)
  BY <1>2, <1>4 DEF PosixOpen, FileCall
<1>5. CASE \E c \in Cpus, fd \in Fds : PosixClose(c, fd)
  BY <1>1, <1>2, <1>3, <1>5 DEF PosixClose, FileCall
<1>6. CASE \E c \in Cpus, fd \in Fds, n \in ReadLens : PosixRead(c, fd, n)
  <2>1. ReadLens \subseteq Nat
    BY FdAssumption
  <2> QED
    BY <1>1, <1>2, <1>3, <1>6, <2>1 DEF PosixRead, FileCall
<1>7. CASE \E c \in Cpus, fd \in Fds, d \in Chunks : PosixWrite(c, fd, d)
  <2>1. \A d \in Chunks : Len(d) \in Nat
    BY FdAssumption
  <2> QED
    BY <1>1, <1>2, <1>3, <1>7, <2>1 DEF PosixWrite, FileCall
<1>8. CASE \E c \in Cpus, fd \in Fds, off \in {0, 1}, w \in {"set", "cur"} : PosixLseek(c, fd, off, w)
  BY <1>2, <1>3, <1>8 DEF PosixLseek, FileCall
<1>9. CASE UNCHANGED allVars \/ \E c \in Cpus : PosixPipe(c)
  BY <1>1, <1>9 DEF allVars, PosixPipe
<1>10. CASE \E fd \in Fds : PosixDup(fd)
  BY <1>1, <1>10 DEF PosixDup, Copy
<1>11. CASE \E fd, new \in Fds : PosixDup2(fd, new)
  BY <1>1, <1>11 DEF PosixDup2, Copy
<1> QED
  BY <1>4, <1>5, <1>6, <1>7, <1>8, <1>9, <1>10, <1>11 DEF FdNext

\* Of two descriptors that refer to one structure it is known that they do.
OneEach(t, sh) ==
    \A i, j \in Fds : i # j /\ t[i] # NoEntry /\ t[j] # NoEntry /\ t[i].obj = t[j].obj
                        => t[i].obj \in sh

ObjInv ==
    /\ birth \in [FileIds \cup PipeIds -> Nat]
    /\ OwnObjectUnlessShared
    /\ OneEach(fds, shared)

FdInv == VfsInv /\ TableInv /\ PipeInv /\ ObjInv

\* A structure that is open stays open, and no opening is given it.
LEMMA ObjectsStay ==
    ASSUME ObjInv, TableInv, UNCHANGED <<fds, birth, shared>>,
           \A f \in FileIds : files[f] # NoFile => files'[f] # NoFile,
           \A p \in PipeIds : pipes[p] # NoPipe => pipes'[p] # NoPipe
    PROVE  ObjInv'
<1>1. \A fd \in Fds : fds[fd] # NoEntry => fds[fd] \in Entries
  BY DEF TableInv, Tables
<1>2. ASSUME NEW e \in Entries, Alive(e) PROVE Alive(e)'
  BY <1>2, EntriesIs DEF Alive
<1>3. OwnObjectUnlessShared'
  BY <1>1, <1>2 DEF OwnObjectUnlessShared, ObjInv, Alive
<1> QED
  BY <1>3 DEF ObjInv


LEMMA OpenKeepsObjects ==
    ASSUME ObjInv, TableInv, FileInv, NEW c \in Cpus, NEW p \in Paths, PosixOpen(c, p)
    PROVE  ObjInv'
<1>1. pipes' = pipes /\ shared' = shared /\ VfsOpen(c, p)
  BY DEF PosixOpen
<1>2. \A g \in FileIds : files[g] # NoFile => files'[g] # NoFile /\ files'[g] = files[g]
  BY <1>1, VfsOpenIs DEF FileInv
<1>3. CASE UNCHANGED <<fds, birth>>
  BY <1>1, <1>2, <1>3, ObjectsStay
<1>4. CASE ~UNCHANGED <<fds, birth>>
  <2> DEFINE fd == Min(FreeFds(0))
             e(f) == Entry(f, "file", opens + 1)
  <2>1. PICK f \in FileIds : /\ files[f] = NoFile /\ files'[f] # NoFile
                             /\ fds' = [fds EXCEPT ![fd] = e(f)]
                             /\ birth' = [birth EXCEPT ![f] = opens + 1]
    BY <1>4 DEF PosixOpen
  <2>2. fd \in Fds /\ fds \in Tables /\ opens + 1 \in Nat
    BY <1>4, FreeFdIs DEF PosixOpen, TableInv
  <2>3. e(f).obj = f /\ e(f).kind = "file" /\ e(f).birth = opens + 1
    BY DEF Entry
  <2> HIDE DEF fd, e
  <2>4. /\ birth' \in [FileIds \cup PipeIds -> Nat] /\ birth'[f] = opens + 1
        /\ \A o \in FileIds \cup PipeIds : o # f => birth'[o] = birth[o]
    BY <2>1, <2>2 DEF ObjInv
  <2>5. fds'[fd] = e(f) /\ \A i \in Fds \ {fd} : fds'[i] = fds[i]
    BY <2>1, <2>2 DEF Tables
  <2>6. ASSUME NEW i \in Fds, fds[i] # NoEntry, fds[i].obj \notin shared
        PROVE  fds[i].obj # f /\ Alive(fds[i])'
    <3>1. Alive(fds[i]) /\ fds[i] \in Entries
      BY <2>2, <2>6 DEF ObjInv, OwnObjectUnlessShared, Tables
    <3>2. fds[i].obj # f /\ fds[i].obj \in FileIds \cup PipeIds
      BY <2>1, <3>1, EntriesIs, FdAssumption DEF Alive
    <3>3. birth'[fds[i].obj] = fds[i].birth
      BY <2>4, <3>1, <3>2 DEF Alive
    <3>4. fds[i].kind = "file" => files[fds[i].obj] # NoFile /\ fds[i].obj \in FileIds
      BY <3>1, EntriesIs DEF Alive
    <3>5. fds'[i] = fds[i]
      <4>1. i # fd
        BY <1>4, FreeFdIs, <2>6 DEF fd, PosixOpen
      <4> QED
        BY <2>5, <4>1
    <3> QED
      BY <1>1, <1>2, <3>1, <3>2, <3>3, <3>4, <3>5 DEF Alive
  <2>7. OwnObjectUnlessShared'
    <3> SUFFICES ASSUME NEW i \in Fds, fds'[i] # NoEntry, fds'[i].obj \notin shared'
                 PROVE  Alive(fds[i])'
      BY DEF OwnObjectUnlessShared
    <3>1. CASE i = fd
      BY <2>1, <2>3, <2>4, <2>5, <3>1 DEF Alive
    <3>2. CASE i # fd
      BY <1>1, <2>5, <2>6, <3>2
    <3> QED
      BY <3>1, <3>2
  <2>8. OneEach(fds', shared')
    <3> SUFFICES ASSUME NEW i \in Fds, NEW j \in Fds, i # j, fds'[i] # NoEntry, fds'[j] # NoEntry,
                        fds'[i].obj = fds'[j].obj, fds'[i].obj \notin shared
                 PROVE  FALSE
      BY <1>1 DEF OneEach
    <3> QED
      BY <2>3, <2>5, <2>6 DEF ObjInv, OneEach
  <2> QED
    BY <2>4, <2>7, <2>8 DEF ObjInv
<1> QED
  BY <1>3, <1>4

LEMMA PipeKeepsObjects ==
    ASSUME ObjInv, TableInv, PipeInv, NEW c \in Cpus, PosixPipe(c)
    PROVE  ObjInv'
<1> DEFINE rd == Min(FreeFds(0))
           wr == Min(FreeFds(rd + 1))
<1>1. PICK p, e :
        /\ p \in PipeIds /\ e = Entry(p, "pipe", opens + 1)
        /\ pipes[p] = NoPipe /\ shared' = shared \cup {p}
        /\ pipes' = [pipes EXCEPT ![p] = NewRing]
        /\ fds' = [fds EXCEPT ![rd] = e, ![wr] = e]
        /\ birth' = [birth EXCEPT ![p] = opens + 1]
  BY DEF PosixPipe, NewRing
<1>2. files' = files /\ FreeFds(0) # {} /\ FreeFds(rd + 1) # {}
  BY DEF PosixPipe, vfsVars
<1>3. rd \in Fds /\ rd \in Nat
  BY <1>2, FreeFdIs
<1> HIDE DEF rd
<1>4. wr \in Fds
  BY <1>2, <1>3, FreeFdIs
<1>5. e.obj = p
  BY <1>1 DEF Entry
<1> HIDE DEF wr
<1>6. \A i \in Fds : fds'[i] = e \/ fds'[i] = fds[i]
  BY <1>1, <1>3, <1>4 DEF TableInv, Tables
<1>7. shared' = shared \cup {p} /\ e.obj = p
  BY <1>1, <1>5
<1>8. /\ birth' \in [FileIds \cup PipeIds -> Nat]
      /\ \A o \in FileIds \cup PipeIds : o # p => birth'[o] = birth[o]
  <2>1. opens + 1 \in Nat
    BY DEF TableInv
  <2> QED
    BY <1>1, <2>1 DEF ObjInv
<1>9. \A q \in PipeIds : q # p => pipes'[q] = pipes[q]
  BY <1>1 DEF PipeInv
<1>10. OwnObjectUnlessShared'
  <2> SUFFICES ASSUME NEW i \in Fds, fds'[i] # NoEntry, fds'[i].obj \notin shared'
               PROVE  Alive(fds[i])'
    BY DEF OwnObjectUnlessShared
  <2>1. fds'[i] = fds[i] /\ fds[i].obj # p /\ fds[i].obj \notin shared
    BY <1>6, <1>7
  <2>2. Alive(fds[i]) /\ fds[i] \in Entries
    BY <2>1 DEF ObjInv, OwnObjectUnlessShared, TableInv, Tables
  <2> QED
    BY <1>2, <1>8, <1>9, <2>1, <2>2, EntriesIs DEF Alive
<1>11. OneEach(fds', shared')
  BY <1>6, <1>7 DEF ObjInv, OneEach
<1> QED
  BY <1>8, <1>10, <1>11 DEF ObjInv

LEMMA CopyKeepsObjects ==
    ASSUME ObjInv, TableInv, NEW fd \in Fds, NEW new \in Fds, fds[fd] # NoEntry, Copy(fd, new)
    PROVE  ObjInv'
<1> DEFINE e == [fds[fd] EXCEPT !.refcnt = @ + 1]
<1>1. /\ UNCHANGED <<files, pipes, birth>> /\ shared' = shared \cup {fds[fd].obj}
      /\ fds' = [fds EXCEPT ![new] = e]
  BY DEF Copy, vfsVars
<1>2. e.obj = fds[fd].obj
  BY DEF TableInv, Tables, Entries, EntryType
<1> HIDE DEF e
<1>3. \A i \in Fds : fds'[i] = e \/ fds'[i] = fds[i]
  BY <1>1 DEF TableInv, Tables
<1>4. OwnObjectUnlessShared'
  <2> SUFFICES ASSUME NEW i \in Fds, fds'[i] # NoEntry, fds'[i].obj \notin shared'
               PROVE  Alive(fds[i])'
    BY DEF OwnObjectUnlessShared
  <2>1. fds'[i] = fds[i] /\ fds[i].obj \notin shared
    BY <1>1, <1>2, <1>3
  <2> QED
    BY <1>1, <2>1 DEF ObjInv, OwnObjectUnlessShared, Alive
<1>5. OneEach(fds', shared')
  BY <1>1, <1>2, <1>3 DEF ObjInv, OneEach
<1> QED
  BY <1>1, <1>4, <1>5 DEF ObjInv


\* A structure goes with the last reference of a descriptor: every other one
\* that refers to it is known to share it.
LEMMA CloseKeepsObjects ==
    ASSUME ObjInv, TableInv, PipeInv, FileInv, NEW c \in Cpus, NEW fd \in Fds, PosixClose(c, fd)
    PROVE  ObjInv'
<1>1. PICK e \in Entries : e = fds[fd] /\ e # NoEntry
  BY DEF PosixClose, TableInv, Tables
<1>2. UNCHANGED <<birth, shared>>
  BY DEF PosixClose
<1>3. CASE /\ fds' = [fds EXCEPT ![fd].refcnt = @ - 1]
           /\ UNCHANGED <<files, pipes>>
  <2> DEFINE z == [e EXCEPT !.refcnt = @ - 1]
  <2>1. fds' = [fds EXCEPT ![fd] = z]
    BY <1>1, <1>3
  <2>2. z.obj = e.obj /\ z.kind = e.kind /\ z.birth = e.birth
    BY DEF Entries, EntryType
  <2> HIDE DEF z
  <2>3. fds'[fd] = z /\ \A i \in Fds \ {fd} : fds'[i] = fds[i]
    BY <2>1 DEF TableInv, Tables
  <2>4. OwnObjectUnlessShared'
    <3> SUFFICES ASSUME NEW i \in Fds, fds'[i] # NoEntry, fds'[i].obj \notin shared'
                 PROVE  Alive(fds[i])'
      BY DEF OwnObjectUnlessShared
    <3>1. /\ fds[i] # NoEntry /\ fds'[i].obj = fds[i].obj
          /\ fds'[i].kind = fds[i].kind /\ fds'[i].birth = fds[i].birth
      BY <1>1, <2>2, <2>3
    <3>2. Alive(fds[i])
      BY <1>2, <3>1 DEF ObjInv, OwnObjectUnlessShared
    <3> QED
      BY <1>2, <1>3, <3>1, <3>2 DEF Alive
  <2>5. OneEach(fds', shared')
    BY <1>1, <1>2, <2>2, <2>3 DEF ObjInv, OneEach
  <2> QED
    BY <1>2, <2>4, <2>5 DEF ObjInv
<1>4. CASE /\ fds' = [fds EXCEPT ![fd] = NoEntry]
           /\ \A f \in FileIds : f # e.obj => files'[f] = files[f]
           /\ \A p \in PipeIds : p # e.obj => pipes'[p] = pipes[p]
  <2>1. fds'[fd] = NoEntry /\ \A i \in Fds \ {fd} : fds'[i] = fds[i]
    BY <1>4 DEF TableInv, Tables
  <2>2. OwnObjectUnlessShared'
    <3> SUFFICES ASSUME NEW i \in Fds, fds'[i] # NoEntry, fds'[i].obj \notin shared'
                 PROVE  Alive(fds[i])'
      BY DEF OwnObjectUnlessShared
    <3>1. i # fd /\ fds'[i] = fds[i] /\ fds[i] # NoEntry /\ fds[i].obj \notin shared
      BY <1>2, <2>1
    <3>2. fds[i].obj # e.obj
      BY <1>1, <3>1 DEF ObjInv, OneEach
    <3>3. Alive(fds[i]) /\ fds[i] \in Entries
      BY <3>1 DEF ObjInv, OwnObjectUnlessShared, TableInv, Tables
    <3> QED
      BY <1>2, <1>4, <3>1, <3>2, <3>3, EntriesIs DEF Alive
  <2>3. OneEach(fds', shared')
    BY <1>2, <2>1 DEF ObjInv, OneEach
  <2> QED
    BY <1>2, <2>2, <2>3 DEF ObjInv
<1>5. CASE VfsClose(c, e.obj) /\ UNCHANGED pipes /\ DropEntry(fd)
  <2>1. \A f \in FileIds : f # e.obj => files'[f] = files[f]
    BY <1>5 DEF VfsClose, FileInv
  <2> QED
    BY <1>4, <1>5, <2>1 DEF DropEntry
<1>6. CASE pipes' = [pipes EXCEPT ![e.obj] = NoPipe] /\ UNCHANGED vfsVars /\ DropEntry(fd)
  <2>1. \A p \in PipeIds : p # e.obj => pipes'[p] = pipes[p]
    BY <1>6 DEF PipeInv
  <2> QED
    BY <1>4, <1>6, <2>1 DEF DropEntry, vfsVars
<1>7. CASE fds' = [fds EXCEPT ![fd].refcnt = @ - 1] /\ UNCHANGED <<vfsVars, count, pipes>>
  BY <1>3, <1>7 DEF vfsVars
<1> QED
  BY <1>1, <1>5, <1>6, <1>7 DEF PosixClose

LEMMA DataKeepsObjects ==
    ASSUME ObjInv, TableInv, PipeInv, FileInv, NEW c \in Cpus, NEW fd \in Fds,
           \/ \E n \in ReadLens : PosixRead(c, fd, n)
           \/ \E d \in Chunks : PosixWrite(c, fd, d)
           \/ \E off \in {0, 1}, w \in {"set", "cur"} : PosixLseek(c, fd, off, w)
    PROVE  ObjInv'
<1>1. PICK e \in Entries : e = fds[fd]
  BY DEF PosixRead, PosixWrite, PosixLseek, TableInv, Tables
<1>2. e.kind = "file" => e.obj \in FileIds
  BY EntriesIs
<1>3. UNCHANGED <<fds, birth, shared>>
  BY DEF PosixRead, PosixWrite, PosixLseek, fdVars
<1>4. \A f \in FileIds : files[f] # NoFile => files'[f] # NoFile
  <2>1. CASE UNCHANGED files
    BY <2>1
  <2>2. ASSUME NEW n \in ReadLens, e.kind = "file", VfsRead(c, e.obj, n)
        PROVE  \A f \in FileIds : files[f] # NoFile => files'[f] # NoFile
    <3>1. n \in Nat
      BY FdAssumption
    <3> QED
      BY <1>2, <2>2, <3>1, ReadKeepsFiles
  <2>3. ASSUME NEW off \in {0, 1}, NEW w \in {"set", "cur"}, e.kind = "file", VfsLseek(c, e.obj, off, w)
        PROVE  \A f \in FileIds : files[f] # NoFile => files'[f] # NoFile
    <3>1. off \in Int /\ w \in {"set", "cur", "end"}
      BY <2>3
    <3> QED
      BY <1>2, <2>3, <3>1, LseekKeepsFiles
  <2> QED
    BY <1>1, <2>1, <2>2, <2>3 DEF PosixRead, PosixWrite, PosixLseek, VfsWrite, Reads, vfsVars
<1>5. \A p \in PipeIds : pipes[p] # NoPipe => pipes'[p] # NoPipe
  <2>1. CASE UNCHANGED pipes
    BY <2>1
  <2>2. ASSUME NEW x, pipes[e.obj] # NoPipe, e.kind = "pipe", pipes' = [pipes EXCEPT ![e.obj] = x], x # NoPipe
        PROVE  \A p \in PipeIds : pipes[p] # NoPipe => pipes'[p] # NoPipe
    BY <2>2 DEF PipeInv
  <2>3. ASSUME NEW n \in ReadLens, e.kind = "pipe", pipes[e.obj] # NoPipe
        PROVE  PipeRead(pipes[e.obj], n).ring # NoPipe
    <3>1. pipes[e.obj] \in Rings /\ n \in Nat
      BY <2>3, EntriesIs, FdAssumption DEF PipeInv
    <3> QED
      BY <3>1, PipeReadIs, OpenPipeIs
  <2>4. ASSUME NEW d \in Chunks, e.kind = "pipe", pipes[e.obj] # NoPipe
        PROVE  PipeWrite(pipes[e.obj], d) # NoPipe
    <3>1. pipes[e.obj] \in Rings /\ d \in Seq(Byte)
      BY <2>4, EntriesIs, FdAssumption DEF PipeInv
    <3> QED
      BY <3>1, PipeWriteIs, OpenPipeIs
  <2> QED
    BY <1>1, <2>1, <2>2, <2>3, <2>4 DEF PosixRead, PosixWrite, PosixLseek, fdVars
<1> QED
  BY <1>3, <1>4, <1>5, ObjectsStay


\* The descriptor table, its pipes and the files below them are what the
\* conjuncts of FdInv say, in every state that a process's calls lead to.
THEOREM DescriptorInvariant == FdSpec => []FdInv
<1>1. FdInit => FdInv
  <2> SUFFICES ASSUME FdInit PROVE FdInv
    OBVIOUS
  <2>1. VfsInv
    BY BootedIs DEF FdInit
  <2>2. fds \in Tables /\ InUse(fds) = {} /\ count = 0 /\ opens = 0
    BY DEF FdInit, Tables, InUse
  <2>3. TableInv
    BY <2>2, FS_EmptySet DEF TableInv
  <2>4. PipeInv
    BY DEF FdInit, PipeInv
  <2>5. ObjInv
    BY DEF FdInit, ObjInv, OwnObjectUnlessShared, OneEach
  <2> QED
    BY <2>1, <2>3, <2>4, <2>5 DEF FdInv
<1>2. FdInv /\ TableInv' /\ [FdNext]_allVars => FdInv'
  <2> SUFFICES ASSUME FdInv, TableInv', [FdNext]_allVars PROVE FdInv'
    OBVIOUS
  <2>1. VfsInv' /\ PipeInv'
    BY VfsInvInFd, PipeStep DEF FdInv
  <2>2. VfsInv /\ FileInv /\ TableInv /\ PipeInv /\ ObjInv
    BY DEF FdInv, VfsInv
  <2>3. ObjInv'
    <3>1. CASE \E c \in Cpus, p \in Paths : PosixOpen(c, p)
      BY <2>2, <3>1, OpenKeepsObjects
    <3>2. CASE \E c \in Cpus : PosixPipe(c)
      BY <2>2, <3>2, PipeKeepsObjects
    <3>3. CASE \E c \in Cpus, fd \in Fds : PosixClose(c, fd)
      BY <2>2, <3>3, CloseKeepsObjects
    <3>4. CASE \E fd \in Fds : PosixDup(fd)
      <4>1. PICK fd \in Fds : PosixDup(fd)
        BY <3>4
      <4> DEFINE new == Min(FreeFds(0))
      <4>2. fds[fd] # NoEntry /\ Copy(fd, new) /\ FreeFds(0) # {}
        BY <4>1 DEF PosixDup
      <4>3. new \in Fds
        BY <4>2, FreeFdIs
      <4> HIDE DEF new
      <4> QED
        BY <2>2, <4>2, <4>3, CopyKeepsObjects
    <3>5. CASE UNCHANGED <<vfsVars, fds, pipes, birth, shared>>
      BY <2>2, <3>5, ObjectsStay DEF vfsVars
    <3>6. CASE \E fd, new \in Fds : PosixDup2(fd, new)
      <4>1. PICK fd \in Fds, new \in Fds : PosixDup2(fd, new)
        BY <3>6
      <4> QED
        BY <2>2, <3>5, <4>1, CopyKeepsObjects DEF PosixDup2
    <3>7. CASE UNCHANGED allVars
      BY <3>5, <3>7 DEF allVars, fdVars
    <3> QED
      BY <2>2, <3>1, <3>2, <3>3, <3>4, <3>6, <3>7, DataKeepsObjects DEF FdNext
  <2> QED
    BY <2>1, <2>3 DEF FdInv
<1> QED
  BY <1>1, <1>2, TableInvariant, PTL DEF FdSpec

\* A descriptor whose structure never had two of them refers to the object it
\* was opened on.
THEOREM DescriptorsOwnTheirObjects == FdSpec => []OwnObjectUnlessShared
<1>1. FdInv => OwnObjectUnlessShared
  BY DEF FdInv, ObjInv
<1> QED
  BY <1>1, DescriptorInvariant, PTL


=============================================================================
