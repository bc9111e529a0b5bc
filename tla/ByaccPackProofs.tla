--------------------------- MODULE ByaccPackProofs ---------------------------
(***************************************************************************)
(* Proofs about pack_table(): for any vectors and any sizes of the table,  *)
(* what was packed is found, and nothing else is.                          *)
(*                                                                         *)
(* First the order of the vectors, which is one although its definition    *)
(* counts and compares; then the invariant, action by action.              *)
(***************************************************************************)
EXTENDS ByaccPack, FiniteSetTheorems, WellFoundedInduction, TLAPS

-----------------------------------------------------------------------------
(* The least and the greatest member of a bounded set of numbers. *)
Below == OpToRel(<, Nat)

LEMMA LeastExists ==
    ASSUME NEW S \in SUBSET Nat, S # {}
    PROVE  \E m \in S : \A x \in S : m <= x
<1>1. IsWellFoundedOn(Below, Nat) BY NatLessThanWellFounded DEF Below
<1>2. PICK m \in S : \A x \in S : << x, m >> \notin Below BY <1>1, WFMin
<1>3. \A x \in S : << x, m >> \in Nat \X Nat /\ << x, m >>[1] = x /\ << x, m >>[2] = m OBVIOUS
<1>4. \A x \in S : ~(x < m) BY <1>2, <1>3 DEF Below, OpToRel
<1>5. \A x \in S : m <= x BY <1>4
<1> QED BY <1>5

LEMMA GreatestExists ==
    ASSUME NEW S \in SUBSET Nat, S # {}, NEW n \in Nat, \A x \in S : x <= n
    PROVE  \E m \in S : \A x \in S : x <= m
<1> DEFINE Down == { n - x : x \in S }
<1>1. Down \in SUBSET Nat /\ Down # {} OBVIOUS
<1>2. PICK d \in Down : \A y \in Down : d <= y BY <1>1, LeastExists
<1>3. PICK m \in S : d = n - m BY <1>2
<1>4. \A x \in S : n - m <= n - x BY <1>2, <1>3
<1>5. \A x \in S : x <= m BY <1>4
<1> QED BY <1>5

LEMMA FiniteGreatest ==
    ASSUME NEW S \in SUBSET Int, S # {}, IsFiniteSet(S)
    PROVE  \E m \in S : \A x \in S : x <= m
<1> DEFINE Above(x) == { y \in S : y > x }
           Counts == { Cardinality(Above(x)) : x \in S }
<1>1. \A x \in S : IsFiniteSet(Above(x)) /\ Cardinality(Above(x)) \in Nat
      BY FS_Subset, FS_CardinalityType
<1>2. Counts \in SUBSET Nat /\ Counts # {} BY <1>1
<1>3. PICK c \in Counts : \A d \in Counts : c <= d BY <1>2, LeastExists
<1>4. PICK m \in S : c = Cardinality(Above(m)) BY <1>3
<1>5. ASSUME NEW x \in S, x > m PROVE FALSE
  <2>1. \A y \in S : y > x => y > m BY <1>4, <1>5
  <2>2. Above(x) \in SUBSET Above(m) BY <2>1
  <2>3. x \in Above(m) /\ x \notin Above(x) BY <1>5
  <2>4. /\ Cardinality(Above(x)) <= Cardinality(Above(m))
        /\ Cardinality(Above(x)) # Cardinality(Above(m)) BY <1>1, <2>2, <2>3, FS_Subset
  <2>5. c <= Cardinality(Above(x)) BY <1>3
  <2> HIDE DEF Above
  <2> QED BY <1>1, <1>4, <1>5, <2>4, <2>5
<1> QED BY <1>5

-----------------------------------------------------------------------------
(* The vectors and their order. *)
LEMMA VectorFacts ==
    ASSUME NEW w, VectorOK(w)
    PROVE  /\ Len(w.from) \in Nat
           /\ Len(w.to) = Len(w.from)
           /\ \A k \in 1 .. Len(w.from) : w.from[k] \in Nat /\ w.to[k] \in Nat
           /\ w.from # << >> <=> 1 \in 1 .. Len(w.from)
<1>1. w.from \in Seq(Nat) /\ w.to \in Seq(Nat) /\ Len(w.to) = Len(w.from) BY DEF VectorOK
<1>2. \A k \in 1 .. Len(w.from) : w.from[k] \in Nat /\ w.to[k] \in Nat BY <1>1
<1>3. w.from # << >> <=> 1 \in 1 .. Len(w.from) BY <1>1
<1> QED BY <1>1, <1>2, <1>3 DEF VectorOK

(* The width is a number: the greatest of finitely many. *)
LEMMA WidthIsNumber ==
    ASSUME NEW w, VectorOK(w), w.from # << >>
    PROVE  /\ WidthOf(w) \in Int
           /\ \A k, l \in 1 .. Len(w.from) : w.from[k] - w.from[l] + 1 <= WidthOf(w)
<1> DEFINE Ks == 1 .. Len(w.from)
           f == [p \in Ks \X Ks |-> w.from[p[1]] - w.from[p[2]] + 1]
<1>1. Len(w.from) \in Nat /\ 1 \in Ks /\ \A k \in Ks : w.from[k] \in Nat BY VectorFacts
<1>2. IsFiniteSet(Ks)
  <2>1. 1 \in Int /\ Len(w.from) \in Int BY <1>1
  <2> QED BY <2>1, FS_Interval
<1>3. IsFiniteSet(Ks \X Ks) BY <1>2, FS_Product
<1>4. f \in Surjection(Ks \X Ks, Span(w))
  <2>1. \A p \in Ks \X Ks : f[p] \in Span(w) BY DEF Span
  <2>2. ASSUME NEW x \in Span(w) PROVE \E p \in Ks \X Ks : f[p] = x
    <3>1. PICK k \in Ks, l \in Ks : x = w.from[k] - w.from[l] + 1 BY DEF Span
    <3>2. << k, l >> \in Ks \X Ks /\ f[<< k, l >>] = x BY <3>1
    <3> QED BY <3>2
  <2> HIDE DEF Ks
  <2> QED BY <2>1, <2>2 DEF Surjection
<1>5. IsFiniteSet(Span(w)) BY <1>3, <1>4, FS_Surjection
<1>6. Span(w) \in SUBSET Int /\ Span(w) # {}
  <2>1. \A k, l \in Ks : w.from[k] - w.from[l] + 1 \in Int BY <1>1
  <2>2. \A x \in Span(w) : \E k, l \in Ks : x = w.from[k] - w.from[l] + 1 BY DEF Span
  <2>3. w.from[1] - w.from[1] + 1 \in Span(w) BY <1>1 DEF Span
  <2> HIDE DEF Ks
  <2> QED BY <2>1, <2>2, <2>3
<1>7. \E m \in Span(w) : \A x \in Span(w) : x <= m BY <1>5, <1>6, FiniteGreatest
<1>8. WidthOf(w) \in Span(w) /\ \A x \in Span(w) : x <= WidthOf(w) BY <1>7 DEF WidthOf
<1>9. \A k, l \in Ks : w.from[k] - w.from[l] + 1 \in Span(w) BY DEF Span
<1> HIDE DEF f
<1> QED BY <1>6, <1>8, <1>9

(* vectors of a call, which are finitely many *)
AreVectors(vs) ==
    /\ DOMAIN vs \in SUBSET Nat /\ IsFiniteSet(DOMAIN vs)
    /\ \A v \in DOMAIN vs : VectorOK(vs[v])
Nonempty(vs) == { v \in DOMAIN vs : vs[v].from # << >> }

(* Of two vectors one comes first. *)
LEMMA Lexicographic ==
    ASSUME NEW a \in Int, NEW b \in Int, NEW c \in Int, NEW x \in Int, NEW y \in Int, NEW z \in Int,
           a > b \/ (a = b /\ x < y), b > c \/ (b = c /\ y < z)
    PROVE  a > c \/ (a = c /\ x < z)
<1> QED OBVIOUS

LEMMA BeforeIsOrder ==
    ASSUME NEW vs, AreVectors(vs)
    PROVE  /\ \A v \in Nonempty(vs) : ~Before(vs, v, v)
           /\ \A v, w \in Nonempty(vs) : v # w => Before(vs, v, w) \/ Before(vs, w, v)
           /\ \A u, v, w \in Nonempty(vs) : Before(vs, u, v) /\ Before(vs, v, w) => Before(vs, u, w)
<1>1. \A v \in Nonempty(vs) : v \in Nat /\ WidthOf(vs[v]) \in Int /\ Len(vs[v].from) \in Nat
      BY WidthIsNumber, VectorFacts DEF AreVectors, Nonempty
<1> DEFINE Wider(v, w) == WidthOf(vs[v]) > WidthOf(vs[w])
           AsWide(v, w) == WidthOf(vs[v]) = WidthOf(vs[w])
           Fuller(v, w) == Len(vs[v].from) > Len(vs[w].from)
           AsFull(v, w) == Len(vs[v].from) = Len(vs[w].from)
<1>2. \A v, w \in Nonempty(vs) :
         Before(vs, v, w) <=> Wider(v, w) \/ (AsWide(v, w) /\ (Fuller(v, w) \/ (AsFull(v, w) /\ v < w)))
      BY DEF Before
<1>3. \A v \in Nonempty(vs) : ~Before(vs, v, v) BY <1>1, <1>2
<1>4. \A v, w \in Nonempty(vs) : v # w => Before(vs, v, w) \/ Before(vs, w, v) BY <1>1, <1>2
<1>5. ASSUME NEW u \in Nonempty(vs), NEW v \in Nonempty(vs), NEW w \in Nonempty(vs),
             Before(vs, u, v), Before(vs, v, w)
      PROVE  Before(vs, u, w)
  <2>1. u \in Nat /\ v \in Nat /\ w \in Nat BY <1>1
  <2>2. WidthOf(vs[u]) \in Int /\ WidthOf(vs[v]) \in Int /\ WidthOf(vs[w]) \in Int BY <1>1
  <2>3. Len(vs[u].from) \in Nat /\ Len(vs[v].from) \in Nat /\ Len(vs[w].from) \in Nat BY <1>1
  <2>4. WidthOf(vs[u]) >= WidthOf(vs[v]) /\ WidthOf(vs[v]) >= WidthOf(vs[w]) BY <1>2, <1>5, <2>2
  <2>5. CASE WidthOf(vs[u]) > WidthOf(vs[w]) BY <1>2, <2>5
  <2>6. CASE AsWide(u, w)
    <3>1. AsWide(u, v) /\ AsWide(v, w) BY <2>2, <2>4, <2>6
    <3>2. ~Wider(u, v) /\ ~Wider(v, w) BY <2>2, <3>1
    <3>3. Fuller(u, v) \/ (AsFull(u, v) /\ u < v) BY <1>2, <1>5, <3>2
    <3>4. Fuller(v, w) \/ (AsFull(v, w) /\ v < w) BY <1>2, <1>5, <3>2
    <3> DEFINE a == Len(vs[u].from)
               b == Len(vs[v].from)
               c == Len(vs[w].from)
    <3>5. a \in Int /\ b \in Int /\ c \in Int /\ u \in Int /\ v \in Int /\ w \in Int BY <2>1, <2>3
    <3>6. (a > b \/ (a = b /\ u < v)) /\ (b > c \/ (b = c /\ v < w)) BY <3>3, <3>4
    <3>7. a > c \/ (a = c /\ u < w)
      <4> HIDE DEF a, b, c
      <4> QED BY <3>5, <3>6, Lexicographic
    <3> QED BY <1>2, <2>6, <3>7
  <2> QED BY <2>2, <2>4, <2>5, <2>6
<1> QED BY <1>3, <1>4, <1>5

LEMMA SortFacts ==
    ASSUME NEW vs, AreVectors(vs)
    PROVE  \E n \in Nat :
              /\ SortActions(vs) \in [1 .. n -> Nonempty(vs)]
              /\ \A k, l \in 1 .. n : SortActions(vs)[k] = SortActions(vs)[l] => k = l
              /\ \A v \in Nonempty(vs) : \E k \in 1 .. n : SortActions(vs)[k] = v
<1> DEFINE E == Nonempty(vs)
           n == Cardinality(E)
           First(v) == { w \in E : Before(vs, w, v) }
           rank == [v \in E |-> Cardinality(First(v))]
<1>1. IsFiniteSet(E) /\ n \in Nat BY FS_Subset, FS_CardinalityType DEF AreVectors, Nonempty
<1>2. \A v \in E : IsFiniteSet(First(v)) /\ Cardinality(First(v)) \in Nat
      BY <1>1, FS_Subset, FS_CardinalityType
<1>3. ASSUME NEW v \in E, NEW w \in E, Before(vs, v, w) PROVE Cardinality(First(v)) # Cardinality(First(w))
  <2>1. First(v) \in SUBSET First(w) BY <1>3, BeforeIsOrder
  <2>2. v \in First(w) /\ v \notin First(v) BY <1>3, BeforeIsOrder
  <2> HIDE DEF First, E
  <2> QED BY <2>1, <2>2, <1>2, FS_Subset
<1>4. rank \in Injection(E, 0 .. n - 1)
  <2>1. ASSUME NEW v \in E PROVE rank[v] \in 0 .. n - 1
    <3>1. First(v) \in SUBSET E /\ v \notin First(v) BY BeforeIsOrder
    <3>2. First(v) # E /\ Cardinality(First(v)) <= n /\ (n = Cardinality(First(v)) => E = First(v))
          BY <3>1, <1>1, FS_Subset
    <3> HIDE DEF First, E, n
    <3> QED BY <3>2, <1>1, <1>2
  <2>2. ASSUME NEW v \in E, NEW w \in E, rank[v] = rank[w] PROVE v = w
    <3>1. v # w => Before(vs, v, w) \/ Before(vs, w, v) BY BeforeIsOrder
    <3> HIDE DEF First, E
    <3> QED BY <3>1, <2>2, <1>3
  <2> HIDE DEF E, n, First
  <2> QED BY <2>1, <2>2 DEF Injection, IsInjective
<1>5. rank \in Surjection(E, 0 .. n - 1)
  <2>1. IsFiniteSet(0 .. n - 1) /\ Cardinality(0 .. n - 1) = n BY <1>1, FS_Interval
  <2> HIDE DEF rank, E
  <2> QED BY <1>4, <2>1, FS_Injection
<1>6. \A k \in 1 .. n : \E v \in E : Cardinality(First(v)) = k - 1
  <2>1. \A k \in 1 .. n : k - 1 \in 0 .. n - 1 BY <1>1
  <2> HIDE DEF E, n, First
  <2> QED BY <2>1, <1>5 DEF Surjection
<1> DEFINE o == SortActions(vs)
<1>7. o = [k \in 1 .. n |-> CHOOSE v \in E : Cardinality(First(v)) = k - 1]
      BY DEF SortActions, Nonempty
<1>8. \A k \in 1 .. n : o[k] \in E /\ Cardinality(First(o[k])) = k - 1
  <2> HIDE DEF E, n, First, o
  <2> QED BY <1>6, <1>7
<1>9. o \in [1 .. n -> E]
  <2> HIDE DEF E, n, First, o
  <2> QED BY <1>7, <1>8
<1>10. \A k, l \in 1 .. n : o[k] = o[l] => k = l
  <2> HIDE DEF E, First, o
  <2> QED BY <1>1, <1>8
<1>11. ASSUME NEW v \in E PROVE \E k \in 1 .. n : o[k] = v
  <2>1. rank[v] \in 0 .. n - 1 BY <1>4 DEF Injection
  <2>2. PICK k : k = rank[v] + 1 OBVIOUS
  <2>3. k \in 1 .. n /\ Cardinality(First(v)) = k - 1
    <3>1. rank[v] = Cardinality(First(v)) OBVIOUS
    <3> HIDE DEF E, n, First, rank
    <3> QED BY <1>1, <2>1, <2>2, <3>1
  <2>4. Cardinality(First(o[k])) = Cardinality(First(v)) /\ o[k] \in E
    <3> HIDE DEF E, n, First, o
    <3> QED BY <1>8, <2>3
  <2>5. o[k] # v => Before(vs, o[k], v) \/ Before(vs, v, o[k]) BY <2>4, BeforeIsOrder
  <2> HIDE DEF E, n, First, o
  <2>6. o[k] = v BY <1>3, <2>4, <2>5
  <2> QED BY <2>3, <2>6
<1> HIDE DEF E, o
<1> QED BY <1>1, <1>9, <1>10, <1>11 DEF E, o

-----------------------------------------------------------------------------
(***************************************************************************)
(* The invariant.  Slot(v, k) is where entry k of v is, once v has a base. *)
(* LookupExact alone is not inductive: it does not say whose the entries   *)
(* are that no lookup asks for yet, and the next base may lead there.      *)
(***************************************************************************)
Slot(v, k) == base[v] + vectors[v].from[k]

InputOK ==
    /\ AreVectors(vectors)
    /\ Increment \in Nat \ {0}
    /\ \E n \in Nat : Len(order) = n /\ order \in [1 .. n -> Nonempty(vectors)]
    /\ \A k, l \in 1 .. Len(order) : order[k] = order[l] => k = l
    /\ \A v \in Nonempty(vectors) : \E k \in 1 .. Len(order) : order[k] = v
    /\ next \in 1 .. Len(order) + 1

ArraysOK ==
    /\ maxtable \in Nat \ {0}
    /\ table \in [0 .. maxtable - 1 -> Nat]
    /\ check \in [0 .. maxtable - 1 -> Nat \cup {NONE}]
    /\ lowzero \in Nat
    /\ high \in 0 .. maxtable - 1
    /\ base \in [DOMAIN vectors -> Int]

(* A vector has a base when it is packed, and its entries are there. *)
StoredOK ==
    /\ \A v \in DOMAIN vectors : base[v] # 0 <=> v \in Done
    /\ \A v \in Done : \A k \in 1 .. tally(v) :
          /\ Slot(v, k) \in 0 .. high
          /\ check[Slot(v, k)] = vectors[v].from[k]
          /\ table[Slot(v, k)] = vectors[v].to[Latest(v, vectors[v].from[k])]

(* Every entry has an owner, and only equal vectors have one base. *)
OwnedOK ==
    /\ \A l \in DOMAIN check : check[l] # NONE =>
          \E v \in Done : \E k \in 1 .. tally(v) : l = Slot(v, k)
    /\ \A v, w \in Done : base[v] = base[w] => vectors[v] = vectors[w]

(* The entries looked at so far have a place. *)
SearchOK ==
    /\ place \in Int
    /\ place = NotSearching => entry = 1
    /\ place # NotSearching =>
          /\ next \in 1 .. Len(order)
          /\ entry \in 1 .. tally(cur) + 1
          /\ \A k \in 1 .. tally(cur) : Loc(k) \in Nat
          /\ \A k \in 1 .. entry - 1 : Loc(k) \in DOMAIN check /\ check[Loc(k)] = NONE

PackInv == InputOK /\ ArraysOK /\ StoredOK /\ OwnedOK /\ SearchOK

(* What pack_table() is given. *)
Given(in) ==
    /\ AreVectors(in.vectors)
    /\ InitialTable \in Nat \ {0} /\ Increment \in Nat \ {0}

LEMMA StartInv ==
    ASSUME NEW in, Given(in), StartPacking(in)
    PROVE  PackInv
<1>1. AreVectors(in.vectors) /\ InitialTable \in Nat \ {0} /\ Increment \in Nat \ {0} BY DEF Given
<1>2. PICK n \in Nat : /\ order \in [1 .. n -> Nonempty(vectors)]
                       /\ \A k, l \in 1 .. n : order[k] = order[l] => k = l
                       /\ \A v \in Nonempty(vectors) : \E k \in 1 .. n : order[k] = v
  <2>1. vectors = in.vectors /\ order = SortActions(vectors) BY DEF StartPacking
  <2>2. AreVectors(vectors) BY <1>1, <2>1
  <2> QED BY <2>1, <2>2, SortFacts
<1>3. Len(order) = n BY <1>2
<1>4. InputOK BY <1>1, <1>2, <1>3 DEF InputOK, StartPacking
<1>5. ArraysOK BY <1>1 DEF ArraysOK, StartPacking, NONE
<1>6. Done = {} BY DEF Done, StartPacking
<1>7. StoredOK BY <1>6 DEF StoredOK, StartPacking
<1>8. OwnedOK BY <1>6 DEF OwnedOK, StartPacking, NONE
<1>9. SearchOK BY DEF SearchOK, StartPacking, NotSearching
<1> QED BY <1>4, <1>5, <1>7, <1>8, <1>9 DEF PackInv

LEMMA CallsGiven ==
    ASSUME NEW in \in Packings
    PROVE  Given(in)
<1>1. PackingOK(in) BY PackAssumption
<1>2. DOMAIN in.vectors = 0 .. in.nvectors - 1 /\ in.nvectors \in Nat BY <1>1 DEF PackingOK
<1>3. IsFiniteSet(DOMAIN in.vectors)
  <2>1. 0 \in Int /\ in.nvectors - 1 \in Int BY <1>2
  <2> QED BY <1>2, <2>1, FS_Interval
<1> QED BY <1>1, <1>2, <1>3, PackAssumption DEF Given, AreVectors, PackingOK

LEMMA InitInv == Init => PackInv
BY CallsGiven, StartInv DEF Init

(* Of the entries of a vector for one number, the latest is one. *)
LEMMA LatestFacts ==
    ASSUME NEW v, VectorOK(vectors[v]), NEW k \in 1 .. tally(v)
    PROVE  /\ Latest(v, vectors[v].from[k]) \in 1 .. tally(v)
           /\ vectors[v].from[Latest(v, vectors[v].from[k])] = vectors[v].from[k]
<1> DEFINE f == vectors[v].from[k]
           Ks == { m \in 1 .. tally(v) : vectors[v].from[m] = f }
<1>1. tally(v) \in Nat BY VectorFacts DEF tally
<1>2. k \in Ks OBVIOUS
<1>3. \A m \in Ks : m \in Int /\ m <= tally(v) BY <1>1
<1> HIDE DEF f
<1>4. PICK m \in Ks : \A l \in Ks : l <= m
  <2>1. Ks \in SUBSET Nat BY <1>1
  <2> HIDE DEF Ks
  <2> QED BY <1>1, <1>2, <1>3, <2>1, GreatestExists
<1>5. m \in 1 .. tally(v) /\ vectors[v].from[m] = f
      /\ \A l \in 1 .. tally(v) : vectors[v].from[l] = f => l <= m BY <1>4
<1>6. Latest(v, f) \in 1 .. tally(v) /\ vectors[v].from[Latest(v, f)] = f BY <1>5 DEF Latest
<1> QED BY <1>6 DEF f

(* The vector that is being packed. *)
LEMMA CurFacts ==
    ASSUME PackInv, next \in 1 .. Len(order)
    PROVE  /\ cur \in DOMAIN vectors /\ VectorOK(vectors[cur])
           /\ tally(cur) \in Nat /\ 1 \in 1 .. tally(cur)
           /\ \A k \in 1 .. tally(cur) : vectors[cur].from[k] \in Nat /\ vectors[cur].to[k] \in Nat
           /\ cur \notin Done /\ base[cur] = 0
           /\ Done \in SUBSET DOMAIN vectors
<1>1. PICK n \in Nat : Len(order) = n /\ order \in [1 .. n -> Nonempty(vectors)] BY DEF PackInv, InputOK
<1>2. cur \in Nonempty(vectors) BY <1>1 DEF cur
<1>3. cur \in DOMAIN vectors /\ VectorOK(vectors[cur]) /\ vectors[cur].from # << >>
      BY <1>2 DEF Nonempty, PackInv, InputOK, AreVectors
<1>4. cur \notin Done
  <2>1. \A k \in 1 .. next - 1 : k \in 1 .. Len(order) /\ k # next BY <1>1
  <2>2. \A k \in 1 .. next - 1 : order[k] # order[next] BY <2>1 DEF PackInv, InputOK
  <2> QED BY <2>2 DEF Done, cur
<1>5. Done \in SUBSET DOMAIN vectors
  <2>1. \A k \in 1 .. next - 1 : k \in 1 .. n BY <1>1
  <2>2. \A k \in 1 .. next - 1 : order[k] \in DOMAIN vectors BY <1>1, <2>1 DEF Nonempty
  <2> QED BY <2>2 DEF Done
<1>6. base[cur] = 0 BY <1>3, <1>4 DEF PackInv, StoredOK
<1> QED BY <1>3, <1>4, <1>5, <1>6, VectorFacts DEF tally

(* What is packed after the current vector is. *)
LEMMA OneMore ==
    ASSUME PackInv, next \in 1 .. Len(order), next' = next + 1, UNCHANGED << input, order >>
    PROVE  InputOK' /\ Done' = Done \cup {cur}
<1>1. Len(order) \in Nat BY DEF PackInv, InputOK
<1>2. InputOK'
  <2>1. next' \in 1 .. Len(order') + 1 BY <1>1
  <2> QED BY <2>1 DEF PackInv, InputOK, input
<1>3. 1 .. next' - 1 = (1 .. next - 1) \cup {next} BY <1>1
<1>4. Done' = Done \cup {cur} BY <1>3 DEF Done, cur
<1> QED BY <1>2, <1>4
-----------------------------------------------------------------------------
(* A shared row has the base of an equal vector. *)
LEMMA ShareInv ==
    ASSUME PackInv, Share
    PROVE  PackInv'
<1>1. next \in 1 .. Len(order) BY DEF Share, Packing, PackInv, InputOK
<1>2. PICK prev \in 1 .. next - 1 : Matches(prev) /\ base' = [base EXCEPT ![cur] = base[order[prev]]]
      BY DEF Share
<1>3. PICK c, twin : c = cur /\ twin = order[prev] OBVIOUS
<1>4. /\ c \in DOMAIN vectors /\ c \notin Done /\ Done \in SUBSET DOMAIN vectors
      /\ base \in [DOMAIN vectors -> Int] BY <1>1, <1>3, CurFacts DEF PackInv, ArraysOK
<1>5. /\ UNCHANGED << input, order, vectors, table, check, maxtable, lowzero, high, place, entry >>
      /\ next' = next + 1 BY DEF Share, input
<1>6. InputOK' /\ Done' = Done \cup {c} BY <1>1, <1>3, <1>5, OneMore
<1>7. /\ twin \in Done /\ vectors[twin] = vectors[c]
      /\ base' \in [DOMAIN vectors -> Int] /\ base'[c] = base[twin]
      /\ \A v \in DOMAIN vectors : v # c => base'[v] = base[v] BY <1>2, <1>3, <1>4 DEF Done, Matches
<1>8. ArraysOK' BY <1>5, <1>7 DEF PackInv, ArraysOK
<1>9. \A v \in Done : v # c /\ base'[v] = base[v] /\ \A k : Slot(v, k)' = Slot(v, k)
      BY <1>4, <1>5, <1>7 DEF Slot
<1>10. \A k : Slot(c, k)' = Slot(twin, k) BY <1>5, <1>7 DEF Slot
<1>11. tally(c)' = tally(twin) /\ \A v \in Done : tally(v)' = tally(v) BY <1>5, <1>7 DEF tally
<1>12. StoredOK'
  <2>1. base[twin] # 0 BY <1>4, <1>7 DEF PackInv, StoredOK
  <2>2. \A v \in DOMAIN vectors' : base'[v] # 0 <=> v \in Done'
        BY <1>4, <1>5, <1>6, <1>7, <2>1 DEF PackInv, StoredOK
  <2>3. ASSUME NEW v \in Done', NEW k \in 1 .. tally(v)'
        PROVE  /\ Slot(v, k)' \in 0 .. high'
               /\ check'[Slot(v, k)'] = vectors'[v].from[k]
               /\ table'[Slot(v, k)'] = vectors'[v].to[Latest(v, vectors[v].from[k])']
    <3>1. CASE v = c
      <4>1. k \in 1 .. tally(twin) /\ Slot(v, k)' = Slot(twin, k)
            BY <1>10, <1>11, <2>3, <3>1
      <4>2. \A f : Latest(c, f)' = Latest(twin, f) BY <1>5, <1>7 DEF Latest, tally
      <4>3. vectors'[v].from[k] = vectors[twin].from[k] /\ vectors'[v].to = vectors[twin].to
            BY <1>5, <1>7, <3>1
      <4>4. Latest(v, vectors[v].from[k])' = Latest(twin, vectors[twin].from[k])
            BY <1>5, <1>7, <3>1 DEF Latest, tally
      <4> QED BY <1>5, <1>7, <3>1, <4>1, <4>3, <4>4 DEF PackInv, StoredOK
    <3>2. CASE v \in Done
      <4>1. k \in 1 .. tally(v) BY <1>5, <2>3 DEF tally
      <4>2. Latest(v, vectors[v].from[k])' = Latest(v, vectors[v].from[k]) BY <1>5 DEF Latest, tally
      <4> QED BY <1>5, <1>9, <3>2, <4>1, <4>2 DEF PackInv, StoredOK
    <3> QED BY <1>6, <3>1, <3>2
  <2> QED BY <2>2, <2>3 DEF StoredOK
<1>13. OwnedOK'
  <2>1. \A l \in DOMAIN check' : check'[l] # NONE => \E v \in Done' : \E k \in 1 .. tally(v)' : l = Slot(v, k)'
        BY <1>5, <1>6, <1>9, <1>11 DEF PackInv, OwnedOK, tally
  <2>2. \A v, w \in Done' : base'[v] = base'[w] => vectors'[v] = vectors'[w]
        BY <1>5, <1>6, <1>7, <1>9 DEF PackInv, OwnedOK
  <2> QED BY <2>1, <2>2 DEF OwnedOK
<1>14. SearchOK' BY <1>5 DEF Share, SearchOK, PackInv
<1> QED BY <1>6, <1>8, <1>12, <1>13, <1>14 DEF PackInv

-----------------------------------------------------------------------------
(* The search begins so far right that no entry is below 0. *)
LEMMA OnlySearch ==
    ASSUME PackInv, UNCHANGED << input, order, next, base, table, check, maxtable, lowzero, high >>, SearchOK'
    PROVE  PackInv'
<1>1. UNCHANGED vectors BY DEF input
<1>2. Done' = Done BY DEF Done
<1>3. InputOK' BY <1>1 DEF PackInv, InputOK, input
<1>4. ArraysOK' BY <1>1 DEF PackInv, ArraysOK
<1>5. StoredOK'
  <2>1. \A v, k : /\ Slot(v, k)' = Slot(v, k) /\ tally(v)' = tally(v)
                  /\ Latest(v, vectors[v].from[k])' = Latest(v, vectors[v].from[k])
        BY <1>1 DEF Slot, tally, Latest
  <2> QED BY <1>1, <1>2, <2>1 DEF PackInv, StoredOK
<1>6. OwnedOK' BY <1>1, <1>2 DEF PackInv, OwnedOK, Slot, tally
<1> QED BY <1>3, <1>4, <1>5, <1>6 DEF PackInv

LEMMA StartSearchInv ==
    ASSUME PackInv, StartSearch
    PROVE  PackInv'
<1>1. next \in 1 .. Len(order) BY DEF StartSearch, Packing, PackInv, InputOK
<1>2. PICK k \in 1 .. tally(cur) :
          /\ \A l \in 1 .. tally(cur) : vectors[cur].from[k] <= vectors[cur].from[l]
          /\ place' = NextPlace(lowzero - vectors[cur].from[k]) BY DEF StartSearch
<1>3. /\ tally(cur) \in Nat /\ lowzero \in Nat
      /\ \A l \in 1 .. tally(cur) : vectors[cur].from[l] \in Nat
      BY <1>1, CurFacts DEF PackInv, ArraysOK
<1>4. place' \in Int /\ entry = 1 /\ \A l \in 1 .. tally(cur) : place' + vectors[cur].from[l] \in Nat
      BY <1>2, <1>3 DEF NextPlace, StartSearch, PackInv, SearchOK
<1>5. UNCHANGED << input, vectors, order, next, entry, cur >> BY DEF StartSearch, input, cur
<1>6. SearchOK' BY <1>1, <1>3, <1>4, <1>5 DEF SearchOK, Loc, tally, cur
<1> QED BY <1>6, OnlySearch DEF StartSearch

(* The next place is one further right. *)
LEMMA TryNextSearch ==
    ASSUME PackInv, Searching, TryNext, UNCHANGED << input, order, next >>
    PROVE  SearchOK'
<1>1. next \in 1 .. Len(order) /\ place \in Int /\ place # NotSearching
      BY DEF Searching, Packing, PackInv, InputOK, SearchOK
<1>2. \A k \in 1 .. tally(cur) : Loc(k) \in Nat /\ vectors[cur].from[k] \in Nat
      BY <1>1, CurFacts DEF PackInv, SearchOK
<1>3. \A k \in 1 .. tally(cur) : place' + vectors[cur].from[k] \in Nat
      BY <1>1, <1>2 DEF TryNext, NextPlace, Loc
<1>4. place' \in Int /\ entry' = 1 BY <1>1 DEF TryNext, NextPlace
<1>5. tally(cur) \in Nat BY <1>1, CurFacts
<1>6. UNCHANGED << vectors, cur >> BY DEF input, cur
<1> QED BY <1>1, <1>3, <1>4, <1>5, <1>6 DEF SearchOK, Loc, tally, cur

LEMMA BaseTakenInv ==
    ASSUME PackInv, BaseTaken
    PROVE  PackInv'
<1>1. SearchOK' BY TryNextSearch DEF BaseTaken
<1> QED BY <1>1, OnlySearch DEF BaseTaken
-----------------------------------------------------------------------------
LEMMA IntervalGrows ==
    ASSUME NEW a \in Nat, NEW b \in Nat, b >= a
    PROVE  \A m \in 0 .. a - 1 : m \in 0 .. b - 1
<1> QED OBVIOUS

(* A table that grows keeps what it has; the new places are unused. *)
LEMMA EnlargedFacts ==
    ASSUME PackInv, NEW l \in Nat, Enlarged(l)
    PROVE  /\ maxtable' \in Nat /\ maxtable' >= maxtable /\ l < maxtable'
           /\ table' \in [0 .. maxtable' - 1 -> Nat]
           /\ check' \in [0 .. maxtable' - 1 -> Nat \cup {NONE}]
           /\ \A m \in 0 .. maxtable - 1 : table'[m] = table[m] /\ check'[m] = check[m]
           /\ \A m \in maxtable .. maxtable' - 1 : check'[m] = NONE
<1>1. /\ maxtable \in Nat \ {0} /\ Increment \in Nat \ {0}
      /\ table \in [0 .. maxtable - 1 -> Nat]
      /\ check \in [0 .. maxtable - 1 -> Nat \cup {NONE}] BY DEF PackInv, InputOK, ArraysOK
<1>2. maxtable' \in Nat /\ maxtable' >= maxtable /\ l < maxtable'
  <2>1. CASE ~Full(l) BY <1>1, <2>1 DEF Enlarged, Full
  <2>2. CASE Full(l)
    <3>1. PICK m \in 1 .. l + 1 : maxtable' = maxtable + m * Increment /\ maxtable' > l
          BY <2>2 DEF Enlarged
    <3>2. m * Increment \in Nat BY <1>1
    <3> QED BY <1>1, <3>1, <3>2
  <2> QED BY <2>1, <2>2
<1>3. table' = Resized(table, maxtable', 0) /\ check' = Resized(check, maxtable', NONE) BY DEF Enlarged
<1>4. table' \in [0 .. maxtable' - 1 -> Nat] BY <1>1, <1>2, <1>3 DEF Resized
<1>5. check' \in [0 .. maxtable' - 1 -> Nat \cup {NONE}] BY <1>1, <1>2, <1>3 DEF Resized
<1>6. \A m \in 0 .. maxtable - 1 : table'[m] = table[m] /\ check'[m] = check[m]
  <2>1. \A m \in 0 .. maxtable - 1 : m \in 0 .. maxtable' - 1 BY <1>1, <1>2, IntervalGrows
  <2>2. DOMAIN table = 0 .. maxtable - 1 /\ DOMAIN check = 0 .. maxtable - 1 BY <1>1
  <2> QED BY <1>3, <2>1, <2>2 DEF Resized
<1>7. \A m \in maxtable .. maxtable' - 1 : check'[m] = NONE BY <1>1, <1>2, <1>3 DEF Resized
<1> QED BY <1>2, <1>4, <1>5, <1>6, <1>7

LEMMA EnlargedInv ==
    ASSUME PackInv, NEW l \in Nat, Enlarged(l), UNCHANGED << input, order, next, base, lowzero, high >>
    PROVE  InputOK' /\ ArraysOK' /\ StoredOK' /\ OwnedOK'
<1>1. UNCHANGED vectors BY DEF input
<1>2. Done' = Done BY DEF Done
<1>3. InputOK' BY <1>1 DEF PackInv, InputOK, input
<1>4. ArraysOK' BY <1>1, EnlargedFacts DEF PackInv, ArraysOK
<1>5. \A v, k : /\ Slot(v, k)' = Slot(v, k) /\ tally(v)' = tally(v)
                /\ Latest(v, vectors[v].from[k])' = Latest(v, vectors[v].from[k])
      BY <1>1 DEF Slot, tally, Latest
<1>6. high \in 0 .. maxtable - 1 /\ maxtable \in Nat /\ DOMAIN check = 0 .. maxtable - 1
      BY DEF PackInv, ArraysOK
<1>7. StoredOK'
  <2>1. \A v \in Done : \A k \in 1 .. tally(v) : Slot(v, k) \in 0 .. maxtable - 1
        BY <1>6 DEF PackInv, StoredOK
  <2> QED BY <1>1, <1>2, <1>5, <1>6, <2>1, EnlargedFacts DEF PackInv, StoredOK
<1>8. OwnedOK'
  <2>1. \A m \in DOMAIN check' : check'[m] # NONE => m \in DOMAIN check /\ check[m] # NONE
        BY <1>6, EnlargedFacts
  <2> QED BY <1>1, <1>2, <1>5, <2>1 DEF PackInv, OwnedOK
<1> QED BY <1>3, <1>4, <1>7, <1>8

(* An entry that is looked at. *)
LEMMA LookingFacts ==
    ASSUME PackInv, Looking
    PROVE  /\ next \in 1 .. Len(order) /\ place # NotSearching
           /\ entry \in 1 .. tally(cur) /\ tally(cur) \in Nat
           /\ Loc(entry) \in Nat
<1>1. next \in 1 .. Len(order) /\ place # NotSearching
      BY DEF Looking, Searching, Packing, PackInv, InputOK
<1>2. tally(cur) \in Nat BY <1>1, CurFacts
<1>3. entry \in 1 .. tally(cur) BY <1>1, <1>2 DEF Looking, PackInv, SearchOK
<1> QED BY <1>1, <1>2, <1>3 DEF PackInv, SearchOK

LEMMA EntryFitsInv ==
    ASSUME PackInv, EntryFits
    PROVE  PackInv'
<1>1. /\ next \in 1 .. Len(order) /\ place # NotSearching
      /\ entry \in 1 .. tally(cur) /\ tally(cur) \in Nat /\ Loc(entry) \in Nat
      BY LookingFacts DEF EntryFits
<1>2. InputOK' /\ ArraysOK' /\ StoredOK' /\ OwnedOK' BY <1>1, EnlargedInv DEF EntryFits
<1>3. /\ maxtable' \in Nat /\ maxtable' >= maxtable /\ Loc(entry) < maxtable'
      /\ DOMAIN check' = 0 .. maxtable' - 1 /\ DOMAIN check = 0 .. maxtable - 1 /\ maxtable \in Nat
      /\ \A m \in 0 .. maxtable - 1 : check'[m] = check[m]
      /\ \A m \in maxtable .. maxtable' - 1 : check'[m] = NONE
      BY <1>1, EnlargedFacts DEF EntryFits, PackInv, ArraysOK
<1>4. UNCHANGED << vectors, order, next, place, cur >> /\ entry' = entry + 1 BY DEF EntryFits, input, cur
<1>5. \A k : Loc(k)' = Loc(k) BY <1>4 DEF Loc, cur
<1>6. tally(cur)' = tally(cur) BY <1>4 DEF tally, cur
<1>7. \A k \in 1 .. entry - 1 : Loc(k) \in DOMAIN check' /\ check'[Loc(k)] = NONE
  <2>1. \A k \in 1 .. entry - 1 : Loc(k) \in DOMAIN check /\ check[Loc(k)] = NONE
        BY <1>1 DEF PackInv, SearchOK
  <2>2. \A m \in 0 .. maxtable - 1 : m \in 0 .. maxtable' - 1 BY <1>3, IntervalGrows
  <2> QED BY <1>3, <2>1, <2>2
<1>8. Loc(entry) \in DOMAIN check' /\ check'[Loc(entry)] = NONE
  <2>1. Loc(entry) \in DOMAIN check => check[Loc(entry)] = NONE BY DEF EntryFits, Unused
  <2>2. CASE Loc(entry) < maxtable
    <3>1. Loc(entry) \in 0 .. maxtable - 1 BY <1>1, <1>3, <2>2
    <3>2. Loc(entry) \in 0 .. maxtable' - 1 BY <1>3, <3>1, IntervalGrows
    <3> QED BY <1>3, <2>1, <3>1, <3>2
  <2>3. CASE Loc(entry) >= maxtable
    <3>1. Loc(entry) \in maxtable .. maxtable' - 1 /\ Loc(entry) \in 0 .. maxtable' - 1 BY <1>1, <1>3, <2>3
    <3> QED BY <1>3, <3>1
  <2> QED BY <1>1, <1>3, <2>2, <2>3
<1>9. \A k \in 1 .. entry' - 1 : k \in 1 .. entry - 1 \/ k = entry BY <1>1, <1>4
<1>10. entry' \in 1 .. tally(cur) + 1 BY <1>1, <1>4
<1>11. SearchOK'
  <2>1. \A k \in 1 .. tally(cur) : Loc(k) \in Nat BY <1>1 DEF PackInv, SearchOK
  <2>2. place \in Int BY DEF PackInv, SearchOK
  <2> QED BY <1>1, <1>4, <1>5, <1>6, <1>7, <1>8, <1>9, <1>10, <2>1, <2>2 DEF SearchOK
<1> QED BY <1>2, <1>11 DEF PackInv

LEMMA EntryCollidesInv ==
    ASSUME PackInv, EntryCollides
    PROVE  PackInv'
<1>1. Loc(entry) \in Nat BY LookingFacts DEF EntryCollides
<1>2. InputOK' /\ ArraysOK' /\ StoredOK' /\ OwnedOK' BY <1>1, EnlargedInv DEF EntryCollides
<1>3. SearchOK' BY TryNextSearch DEF EntryCollides, Looking
<1> QED BY <1>2, <1>3 DEF PackInv
-----------------------------------------------------------------------------
(***************************************************************************)
(* The entries of c are stored at b.  All their places were unused, so     *)
(* that no other entry is lost, and no other vector has base b.            *)
(***************************************************************************)
LEMMA StoredFacts ==
    ASSUME PackInv, Searching, ~Looking
    PROVE  /\ next \in 1 .. Len(order) /\ place \in Int \ {0}
           /\ \A k \in 1 .. tally(cur) :
                 /\ Loc(k) \in 0 .. maxtable - 1 /\ check[Loc(k)] = NONE
                 /\ \A values :
                       /\ Stored(check, values)[Loc(k)] = values[Latest(cur, vectors[cur].from[k])]
                       /\ Stored(table, values)[Loc(k)] = values[Latest(cur, vectors[cur].from[k])]
           /\ \A l \in 0 .. maxtable - 1 :
                 (\A k \in 1 .. tally(cur) : Loc(k) # l) =>
                     \A values : /\ Stored(check, values)[l] = check[l]
                                 /\ Stored(table, values)[l] = table[l]
<1>1. next \in 1 .. Len(order) /\ place # 0
      BY DEF Searching, Packing, PackInv, InputOK, NotSearching
<1>2. DOMAIN check = 0 .. maxtable - 1 /\ DOMAIN table = 0 .. maxtable - 1 BY DEF PackInv, ArraysOK
<1>3. /\ tally(cur) \in Nat
      /\ \A k \in 1 .. tally(cur) : vectors[cur].from[k] \in Nat BY <1>1, CurFacts
<1>4. place \in Int /\ entry = tally(cur) + 1
      BY <1>1, <1>3 DEF Looking, NotSearching, PackInv, SearchOK
<1>5. \A k \in 1 .. tally(cur) : Loc(k) \in 0 .. maxtable - 1 /\ check[Loc(k)] = NONE
      BY <1>1, <1>2, <1>3, <1>4 DEF PackInv, SearchOK, NotSearching
<1>7. ASSUME NEW k \in 1 .. tally(cur), NEW values
      PROVE  /\ Stored(check, values)[Loc(k)] = values[Latest(cur, vectors[cur].from[k])]
             /\ Stored(table, values)[Loc(k)] = values[Latest(cur, vectors[cur].from[k])]
  <2>1. Loc(k) - place = vectors[cur].from[k] BY <1>3, <1>4 DEF Loc
  <2>2. Loc(k) \in DOMAIN check /\ Loc(k) \in DOMAIN table BY <1>2, <1>5
  <2> QED BY <2>1, <2>2 DEF Stored
<1>8. ASSUME NEW l \in 0 .. maxtable - 1, \A k \in 1 .. tally(cur) : Loc(k) # l, NEW values
      PROVE  Stored(check, values)[l] = check[l] /\ Stored(table, values)[l] = table[l]
      BY <1>2, <1>8 DEF Stored
<1> QED BY <1>1, <1>4, <1>5, <1>7, <1>8

LEMMA PlaceInv ==
    ASSUME PackInv, Place
    PROVE  PackInv'
<1>1. Searching /\ ~Looking BY DEF Place
<1>2. next \in 1 .. Len(order) /\ place \in Int \ {0} BY <1>1, StoredFacts
<1>3. PICK c, b : c = cur /\ b = place OBVIOUS
<1>4. /\ c \in DOMAIN vectors /\ c \notin Done /\ Done \in SUBSET DOMAIN vectors /\ tally(c) \in Nat
      /\ \A k \in 1 .. tally(c) : vectors[c].from[k] \in Nat /\ vectors[c].to[k] \in Nat
      BY <1>2, <1>3, CurFacts
<1>5. /\ UNCHANGED << input, order, vectors, maxtable >> /\ next' = next + 1
      /\ place' = NotSearching /\ entry' = 1 /\ base' = [base EXCEPT ![c] = b]
      BY <1>3 DEF Place, input
<1>6. table' = Stored(table, vectors[c].to) /\ check' = Stored(check, vectors[c].from) BY <1>3 DEF Place
<1>7. InputOK' /\ Done' = Done \cup {c} BY <1>2, <1>3, <1>5, OneMore
<1>8. /\ maxtable \in Nat \ {0} /\ high \in 0 .. maxtable - 1 /\ lowzero \in Nat
      /\ DOMAIN check = 0 .. maxtable - 1 /\ DOMAIN table = 0 .. maxtable - 1
      /\ table \in [0 .. maxtable - 1 -> Nat] /\ check \in [0 .. maxtable - 1 -> Nat \cup {NONE}]
      /\ base \in [DOMAIN vectors -> Int] BY DEF PackInv, ArraysOK
<1> DEFINE At(k) == b + vectors[c].from[k]
<1>9. \A k \in 1 .. tally(c) :
         /\ At(k) \in 0 .. maxtable - 1 /\ check[At(k)] = NONE
         /\ check'[At(k)] = vectors[c].from[k]
         /\ table'[At(k)] = vectors[c].to[Latest(c, vectors[c].from[k])]
         /\ table'[At(k)] \in Nat
  <2> TAKE k \in 1 .. tally(c)
  <2>1. /\ At(k) \in 0 .. maxtable - 1 /\ check[At(k)] = NONE
        /\ check'[At(k)] = vectors[c].from[Latest(c, vectors[c].from[k])]
        /\ table'[At(k)] = vectors[c].to[Latest(c, vectors[c].from[k])]
        BY <1>1, <1>3, <1>6, StoredFacts DEF Loc
  <2>2. VectorOK(vectors[c]) BY <1>4 DEF PackInv, InputOK, AreVectors
  <2>3. /\ vectors[c].from[Latest(c, vectors[c].from[k])] = vectors[c].from[k]
        /\ Latest(c, vectors[c].from[k]) \in 1 .. tally(c) BY <2>2, LatestFacts
  <2> QED BY <1>4, <2>1, <2>3
<1>10. \A l \in 0 .. maxtable - 1 : (\A k \in 1 .. tally(c) : At(k) # l) =>
          check'[l] = check[l] /\ table'[l] = table[l]
       BY <1>1, <1>3, <1>6, StoredFacts DEF Loc
<1>11. /\ high' \in Nat /\ high' >= high /\ high' <= maxtable - 1
       /\ \A k \in 1 .. tally(c) : At(k) <= high'
  <2> DEFINE locs == { Loc(k) : k \in 1 .. tally(cur) } \cup {high}
  <2>1. high' \in locs /\ \A l \in locs : l <= high' BY DEF Place
  <2>2. \A l \in locs : l \in 0 .. maxtable - 1 BY <1>3, <1>8, <1>9 DEF Loc
  <2>3. \A k \in 1 .. tally(c) : At(k) \in locs BY <1>3 DEF Loc
  <2>4. high \in locs OBVIOUS
  <2> HIDE DEF locs, At
  <2>5. high' \in 0 .. maxtable - 1 BY <2>1, <2>2
  <2>6. high' >= high BY <1>8, <2>1, <2>4, <2>5
  <2>7. \A k \in 1 .. tally(c) : At(k) <= high' BY <2>1, <2>3
  <2> QED BY <1>8, <2>5, <2>6, <2>7
<1>12. /\ base' \in [DOMAIN vectors -> Int] /\ base'[c] = b
       /\ \A v \in DOMAIN vectors : v # c => base'[v] = base[v] BY <1>2, <1>3, <1>4, <1>5, <1>8
<1>13. ArraysOK'
  <2>1. \A l \in 0 .. maxtable - 1 : table'[l] \in Nat /\ check'[l] \in Nat \cup {NONE}
    <3>1. TAKE l \in 0 .. maxtable - 1
    <3>2. CASE \E k \in 1 .. tally(c) : At(k) = l BY <1>4, <1>9, <3>2
    <3>3. CASE \A k \in 1 .. tally(c) : At(k) # l BY <1>8, <1>10, <3>3
    <3> QED BY <3>2, <3>3
  <2>2. table' = [l \in 0 .. maxtable - 1 |-> table'[l]] /\ check' = [l \in 0 .. maxtable - 1 |-> check'[l]]
        BY <1>6, <1>8 DEF Stored
  <2>3. lowzero' \in Nat BY <1>8 DEF Place
  <2>4. table' \in [0 .. maxtable - 1 -> Nat] /\ check' \in [0 .. maxtable - 1 -> Nat \cup {NONE}]
        BY <2>1, <2>2
  <2> QED BY <1>5, <1>8, <1>11, <1>12, <2>3, <2>4 DEF ArraysOK
<1>14. \A v \in Done : v # c /\ \A k : Slot(v, k)' = Slot(v, k)
       BY <1>4, <1>5, <1>12 DEF Slot
<1>15. \A k : Slot(c, k)' = At(k) BY <1>5, <1>12 DEF Slot
<1>16. \A v : tally(v)' = tally(v) BY <1>5 DEF tally
<1>17. StoredOK'
  <2>1. \A v \in DOMAIN vectors' : base'[v] # 0 <=> v \in Done'
        BY <1>2, <1>3, <1>5, <1>7, <1>12 DEF PackInv, StoredOK
  <2>2. ASSUME NEW v \in Done', NEW k \in 1 .. tally(v)'
        PROVE  /\ Slot(v, k)' \in 0 .. high'
               /\ check'[Slot(v, k)'] = vectors'[v].from[k]
               /\ table'[Slot(v, k)'] = vectors'[v].to[Latest(v, vectors[v].from[k])']
    <3>0. Latest(v, vectors[v].from[k])' = Latest(v, vectors[v].from[k]) BY <1>5 DEF Latest, tally
    <3>1. CASE v = c
      <4>1. k \in 1 .. tally(c) /\ Slot(v, k)' = At(k) BY <1>15, <1>16, <2>2, <3>1
      <4>2. At(k) \in 0 .. maxtable - 1 /\ At(k) <= high' BY <1>9, <1>11, <4>1
      <4>3. At(k) \in 0 .. high' BY <1>8, <1>11, <4>2
      <4> QED BY <1>5, <1>9, <3>0, <3>1, <4>1, <4>3
    <3>2. CASE v \in Done
      <4>1. /\ k \in 1 .. tally(v) /\ Slot(v, k)' = Slot(v, k)
            /\ Slot(v, k) \in 0 .. high
            /\ check[Slot(v, k)] = vectors[v].from[k]
            /\ table[Slot(v, k)] = vectors[v].to[Latest(v, vectors[v].from[k])]
            BY <1>14, <1>16, <2>2, <3>2 DEF PackInv, StoredOK
      <4>2. vectors[v].from[k] \in Nat
        <5>1. VectorOK(vectors[v]) BY <1>4, <3>2 DEF PackInv, InputOK, AreVectors
        <5> QED BY <4>1, <5>1, VectorFacts DEF tally
      <4>3. \A m \in 1 .. tally(c) : At(m) # Slot(v, k) BY <1>9, <4>1, <4>2 DEF NONE
      <4>4. Slot(v, k) \in 0 .. maxtable - 1 /\ Slot(v, k) \in 0 .. high' BY <1>8, <1>11, <4>1
      <4> QED BY <1>5, <1>10, <3>0, <4>1, <4>3, <4>4
    <3> QED BY <1>7, <3>1, <3>2
  <2> QED BY <2>1, <2>2 DEF StoredOK
<1>18. OwnedOK'
  <2>1. ASSUME NEW l \in DOMAIN check', check'[l] # NONE
        PROVE  \E v \in Done' : \E k \in 1 .. tally(v)' : l = Slot(v, k)'
    <3>1. l \in 0 .. maxtable - 1 BY <1>5, <1>13 DEF ArraysOK
    <3>2. CASE \E k \in 1 .. tally(c) : At(k) = l BY <1>7, <1>15, <1>16, <3>2
    <3>3. CASE \A k \in 1 .. tally(c) : At(k) # l
      <4>1. l \in DOMAIN check /\ check[l] # NONE BY <1>8, <1>10, <2>1, <3>1, <3>3
      <4>2. PICK v \in Done : \E k \in 1 .. tally(v) : l = Slot(v, k) BY <4>1 DEF PackInv, OwnedOK
      <4> QED BY <1>7, <1>14, <1>16, <4>2
    <3> QED BY <3>2, <3>3
  <2>2. \A v \in Done : base[v] # b
    <3>1. \A prev \in 1 .. next - 1 : base[order[prev]] # b BY <1>3 DEF Place, IsNewBase
    <3> QED BY <3>1 DEF Done
  <2>3. \A v, w \in Done' : base'[v] = base'[w] => vectors'[v] = vectors'[w]
        BY <1>4, <1>5, <1>7, <1>12, <2>2 DEF PackInv, OwnedOK
  <2> QED BY <2>1, <2>3 DEF OwnedOK
<1>19. SearchOK' BY <1>5 DEF SearchOK, NotSearching
<1> QED BY <1>7, <1>13, <1>17, <1>18, <1>19 DEF PackInv

LEMMA StutterInv ==
    ASSUME PackInv, UNCHANGED << input, order, next, place, entry, base, table, check, maxtable, lowzero, high >>
    PROVE  PackInv'
<1>1. UNCHANGED << vectors, cur >> BY DEF input, cur
<1>2. SearchOK' BY <1>1 DEF PackInv, SearchOK, Loc, tally, cur
<1> QED BY <1>2, OnlySearch

THEOREM Invariance == Spec => []PackInv
<1>1. Init => PackInv BY InitInv
<1>2. PackInv /\ [Next]_packVars => PackInv'
  <2> SUFFICES ASSUME PackInv, [Next]_packVars PROVE PackInv' OBVIOUS
  <2>1. CASE Share BY <2>1, ShareInv
  <2>2. CASE StartSearch BY <2>2, StartSearchInv
  <2>3. CASE EntryFits BY <2>3, EntryFitsInv
  <2>4. CASE EntryCollides BY <2>4, EntryCollidesInv
  <2>5. CASE BaseTaken BY <2>5, BaseTakenInv
  <2>6. CASE Place BY <2>6, PlaceInv
  <2>7. CASE TableOverflow BY <2>7, StutterInv DEF TableOverflow
  <2>8. CASE UNCHANGED packVars BY <2>8, StutterInv DEF packVars
  <2> QED BY <2>1, <2>2, <2>3, <2>4, <2>5, <2>6, <2>7, <2>8 DEF Next
<1> QED BY <1>1, <1>2, PTL DEF Spec

-----------------------------------------------------------------------------
(***************************************************************************)
(* LookupExact: an own entry is where StoredOK says.  If a lookup finds    *)
(* another one, that has an owner whose base is the same; the owner is an  *)
(* equal vector, so that the entry is in this one, too.                    *)
(***************************************************************************)
LEMMA LookupFollows ==
    PackInv => LookupExact
<1> SUFFICES ASSUME PackInv,
                    NEW v \in DOMAIN vectors, v \in Done \/ vectors[v].from = << >>,
                    NEW f \in Keys
             PROVE  Lookup(base[v], f) = Entry(v, f)
    BY DEF LookupExact
<1>1. \A w \in DOMAIN vectors :
         /\ tally(w) \in Nat /\ tally(w) = Len(vectors[w].from)
         /\ \A k \in 1 .. tally(w) : vectors[w].from[k] \in Nat
      BY VectorFacts DEF PackInv, InputOK, AreVectors, tally
<1>2. f \in Nat
  <2>1. PICK w \in DOMAIN vectors : f \in { vectors[w].from[k] : k \in 1 .. tally(w) } BY DEF Keys
  <2> QED BY <1>1, <2>1
<1>3. \A w \in DOMAIN vectors : w \in Done => vectors[w].from # << >>
  <2>1. PICK n \in Nat : Len(order) = n /\ order \in [1 .. n -> Nonempty(vectors)] BY DEF PackInv, InputOK
  <2>2. \A k \in 1 .. next - 1 : order[k] \in Nonempty(vectors) BY <2>1 DEF PackInv, InputOK
  <2> QED BY <2>2 DEF Done, Nonempty
<1>4. CASE v \notin Done
  <2>1. base[v] = 0 BY <1>4 DEF PackInv, StoredOK
  <2>2. tally(v) = 0 BY <1>4 DEF tally
  <2> QED BY <2>1, <2>2 DEF Lookup, Entry
<1>5. CASE v \in Done /\ \E k \in 1 .. tally(v) : vectors[v].from[k] = f
  <2>1. PICK k \in 1 .. tally(v) : vectors[v].from[k] = f BY <1>5
  <2>3. Entry(v, f) = vectors[v].to[Latest(v, f)] BY <2>1 DEF Entry
  <2>4. /\ base[v] # 0 /\ base[v] + f \in 0 .. high
        /\ check[base[v] + f] = f /\ table[base[v] + f] = vectors[v].to[Latest(v, f)]
        BY <1>5, <2>1 DEF PackInv, StoredOK, Slot
  <2> QED BY <2>3, <2>4 DEF Lookup
<1>6. CASE v \in Done /\ \A k \in 1 .. tally(v) : vectors[v].from[k] # f
  <2>1. Entry(v, f) = NONE BY <1>6 DEF Entry
  <2>2. ASSUME base[v] + f \in 0 .. high, check[base[v] + f] = f PROVE FALSE
    <3>1. base[v] + f \in DOMAIN check BY <2>2 DEF PackInv, ArraysOK
    <3>2. check[base[v] + f] # NONE BY <1>2, <2>2 DEF NONE
    <3>3. PICK w \in Done : \E k \in 1 .. tally(w) : base[v] + f = Slot(w, k)
          BY <3>1, <3>2 DEF PackInv, OwnedOK
    <3>4. PICK k \in 1 .. tally(w) : base[v] + f = Slot(w, k) BY <3>3
    <3>5. vectors[w].from[k] = f BY <2>2, <3>4 DEF PackInv, StoredOK
    <3>6. w \in DOMAIN vectors /\ base[v] \in Int /\ base[w] \in Int
      <4>1. w \in DOMAIN vectors
        <5>1. PICK n \in Nat : Len(order) = n /\ order \in [1 .. n -> Nonempty(vectors)] BY DEF PackInv, InputOK
        <5>2. \A m \in 1 .. next - 1 : order[m] \in Nonempty(vectors) BY <5>1 DEF PackInv, InputOK
        <5> QED BY <5>2 DEF Done, Nonempty
      <4> QED BY <4>1 DEF PackInv, ArraysOK
    <3>7. base[v] = base[w] BY <1>2, <3>4, <3>5, <3>6 DEF Slot
    <3>8. vectors[v] = vectors[w] BY <1>6, <3>7 DEF PackInv, OwnedOK
    <3> QED BY <1>6, <3>5, <3>8 DEF tally
  <2> QED BY <2>1, <2>2 DEF Lookup
<1> QED BY <1>4, <1>5, <1>6

(* Every lookup in the packed table finds what the vector held, and nothing
   else: for all vectors, all sizes of the table, after every step. *)
THEOREM PackedLookupIsExact == Spec => []LookupExact
<1> QED BY Invariance, LookupFollows, PTL

(* the call, which no step changes *)
CallOK == PackingOK([nvectors |-> nvectors, vectors |-> vectors, nrows |-> nrows])

(* The types of pack_table(): the arrays are as long as maxtable says, and
   what a vector or an entry counts from never leaves them. *)
THEOREM PackTypes == Spec => []TypeOK
<1>1. PackInv /\ CallOK => TypeOK
  <2> SUFFICES ASSUME PackInv, CallOK PROVE TypeOK OBVIOUS
  <2>1. PackingOK([nvectors |-> nvectors, vectors |-> vectors, nrows |-> nrows]) /\ next \in 1 .. Len(order) + 1
        BY DEF PackInv, InputOK, CallOK
  <2>2. place \in Int /\ entry \in Nat \ {0}
    <3>1. CASE place = NotSearching BY <3>1 DEF PackInv, SearchOK
    <3>2. CASE place # NotSearching BY <3>2, CurFacts DEF PackInv, SearchOK
    <3> QED BY <3>1, <3>2 DEF PackInv, SearchOK
  <2>3. high \in Nat BY DEF PackInv, ArraysOK
  <2> QED BY <2>1, <2>2, <2>3 DEF TypeOK, PackInv, ArraysOK
<1>2. Init => CallOK
  <2> SUFFICES ASSUME NEW in \in Packings, StartPacking(in) PROVE CallOK BY DEF Init
  <2>1. PackingOK(in) BY PackAssumption
  <2> QED BY <2>1 DEF CallOK, PackingOK, StartPacking
<1>3. CallOK /\ [Next]_packVars => CallOK'
  <2> SUFFICES ASSUME CallOK, [Next]_packVars PROVE CallOK' OBVIOUS
  <2>1. UNCHANGED input
        BY DEF Next, Share, StartSearch, EntryFits, EntryCollides, BaseTaken, Place, TableOverflow, packVars
  <2> QED BY <2>1 DEF CallOK, input
<1>4. Spec => []CallOK BY <1>2, <1>3, PTL DEF Spec
<1> QED BY <1>1, <1>4, Invariance, PTL

(***************************************************************************)
(* The same in the terms of the parser that is generated: a number found   *)
(* in the table for a vector is one of an entry of the vector, with what   *)
(* belongs to it, and every entry of the vector is found.                  *)
(***************************************************************************)
Finds(v, f) == base[v] # 0 /\ base[v] + f \in 0 .. high /\ check[base[v] + f] = f

LookupOK(v) ==
    /\ \A f \in Nat : Finds(v, f) =>
          \E k \in 1 .. tally(v) : vectors[v].from[k] = f /\ table[base[v] + f] = vectors[v].to[k]
    /\ \A k \in 1 .. tally(v) : Finds(v, vectors[v].from[k])

LEMMA PackedFacts ==
    ASSUME PackInv, Packed, ~overflow, NEW v \in DOMAIN vectors
    PROVE  LookupOK(v)
<1>1. VectorOK(vectors[v]) BY DEF PackInv, InputOK, AreVectors
<1>2. /\ tally(v) \in Nat /\ tally(v) = Len(vectors[v].from)
      /\ \A k \in 1 .. tally(v) : vectors[v].from[k] \in Nat
      /\ vectors[v].from # << >> <=> 1 \in 1 .. tally(v)
      BY <1>1, VectorFacts DEF tally
<1>3. vectors[v].from # << >> => v \in Done
  <2>1. PICK n \in Nat : Len(order) = n /\ order \in [1 .. n -> Nonempty(vectors)] BY DEF PackInv, InputOK
  <2>2. next - 1 = n BY <2>1 DEF PackInv, InputOK, Packed, Packing
  <2>3. ASSUME v \in Nonempty(vectors) PROVE v \in Done
    <3>1. PICK k \in 1 .. n : order[k] = v BY <2>1, <2>3 DEF PackInv, InputOK
    <3> QED BY <2>2, <3>1 DEF Done
  <2> QED BY <2>3 DEF Nonempty
<1>4. ASSUME NEW k \in 1 .. tally(v)
      PROVE  /\ Finds(v, vectors[v].from[k])
             /\ table[base[v] + vectors[v].from[k]] = vectors[v].to[Latest(v, vectors[v].from[k])]
  <2>1. v \in Done BY <1>2, <1>3
  <2> QED BY <2>1 DEF PackInv, StoredOK, Slot, Finds
<1>5. ASSUME NEW f \in Nat, Finds(v, f)
      PROVE  \E k \in 1 .. tally(v) : vectors[v].from[k] = f /\ table[base[v] + f] = vectors[v].to[k]
  <2>1. v \in Done BY <1>5 DEF PackInv, StoredOK, Finds
  <2>2. PICK k \in 1 .. tally(v) : vectors[v].from[k] = f
    <3>1. base[v] + f \in DOMAIN check BY <1>5 DEF PackInv, ArraysOK, Finds
    <3>2. check[base[v] + f] # NONE BY <1>5 DEF NONE, Finds
    <3>3. PICK w \in Done : \E k \in 1 .. tally(w) : base[v] + f = Slot(w, k)
          BY <3>1, <3>2 DEF PackInv, OwnedOK
    <3>4. PICK k \in 1 .. tally(w) : base[v] + f = Slot(w, k) BY <3>3
    <3>5. vectors[w].from[k] = f BY <1>5, <3>4 DEF PackInv, StoredOK, Finds
    <3>6. w \in DOMAIN vectors BY DEF PackInv, StoredOK, OwnedOK, InputOK, Done, Nonempty
    <3>7. base[v] \in Int /\ base[w] \in Int BY <3>6 DEF PackInv, ArraysOK
    <3>8. base[v] = base[w] BY <3>4, <3>5, <3>7 DEF Slot
    <3>9. vectors[v] = vectors[w] BY <2>1, <3>8 DEF PackInv, OwnedOK
    <3> QED BY <3>4, <3>5, <3>9 DEF tally
  <2>3. /\ Latest(v, f) \in 1 .. tally(v) /\ vectors[v].from[Latest(v, f)] = f
        BY <1>1, <2>2, LatestFacts
  <2>4. table[base[v] + f] = vectors[v].to[Latest(v, f)] BY <1>4, <2>2
  <2> QED BY <2>3, <2>4
<1> QED BY <1>4, <1>5 DEF LookupOK

-----------------------------------------------------------------------------
(***************************************************************************)
(* The scan for the first unused entry.  If all vectors are narrower than  *)
(* the step in which the table grows, the last entry of the table is       *)
(* always unused: a place looked at lies less than that step beyond it, so *)
(* that the table, when it grows, grows beyond the place.                  *)
(***************************************************************************)
ScanOK ==
    /\ lowzero <= maxtable
    /\ \A l \in 0 .. lowzero - 1 : check[l] # NONE

LastUnused ==
    /\ check[maxtable - 1] = NONE
    /\ place # NotSearching =>
          /\ \A k \in 1 .. tally(cur) : Loc(k) <= maxtable + Increment - 2
          /\ \A k \in 1 .. entry - 1 : Loc(k) < maxtable - 1

ScanInv == PackInv /\ ScanOK /\ (Narrow => LastUnused)

LEMMA ScanFollows == ScanInv => ScanInTable
<1> SUFFICES ASSUME ScanInv PROVE ScanInTable OBVIOUS
<1>1. lowzero \in Nat /\ maxtable \in Nat \ {0} /\ lowzero <= maxtable BY DEF ScanInv, ScanOK, PackInv, ArraysOK
<1>2. ASSUME Narrow, lowzero >= maxtable PROVE FALSE
  <2>1. maxtable - 1 \in 0 .. lowzero - 1 BY <1>1, <1>2
  <2> QED BY <1>2, <2>1 DEF ScanInv, ScanOK, LastUnused
<1> QED BY <1>1, <1>2 DEF ScanInv, ScanOK, ScanInTable

LEMMA ScanInit == Init => ScanInv
<1> SUFFICES ASSUME NEW in \in Packings, StartPacking(in), PackInv PROVE ScanInv
    BY InitInv DEF Init
<1>1. maxtable \in Nat \ {0} BY DEF PackInv, ArraysOK
<1>2. ScanOK BY <1>1 DEF ScanOK, StartPacking
<1>3. LastUnused BY <1>1 DEF LastUnused, StartPacking
<1> QED BY <1>2, <1>3 DEF ScanInv

(* The entries of a narrow vector are near each other. *)
LEMMA NarrowFacts ==
    ASSUME PackInv, Narrow, next \in 1 .. Len(order)
    PROVE  /\ Increment \in Nat
           /\ \A k, l \in 1 .. tally(cur) : vectors[cur].from[k] - vectors[cur].from[l] <= Increment - 2
<1>1. PICK w : w = vectors[cur] OBVIOUS
<1>2. cur \in DOMAIN vectors /\ VectorOK(w) /\ w.from # << >> /\ tally(cur) = Len(w.from)
  <2>1. cur \in DOMAIN vectors /\ VectorOK(vectors[cur]) /\ 1 \in 1 .. tally(cur) BY CurFacts
  <2> QED BY <1>1, <2>1, VectorFacts DEF tally
<1>3. WidthOf(w) < Increment BY <1>1, <1>2 DEF Narrow
<1>4. Increment \in Nat BY DEF PackInv, InputOK
<1>5. ASSUME NEW k \in 1 .. Len(w.from), NEW l \in 1 .. Len(w.from)
      PROVE  w.from[k] - w.from[l] <= Increment - 2
  <2>1. w.from[k] \in Nat /\ w.from[l] \in Nat BY <1>2, VectorFacts
  <2>2. WidthOf(w) \in Int /\ w.from[k] - w.from[l] + 1 <= WidthOf(w) BY <1>2, WidthIsNumber
  <2> QED BY <1>3, <1>4, <2>1, <2>2
<1> QED BY <1>1, <1>2, <1>4, <1>5

(* Nothing but the vector being packed has changed. *)
LEMMA ScanUntouched ==
    ASSUME ScanInv, PackInv', UNCHANGED << input, check, maxtable, lowzero >>, place' = NotSearching
    PROVE  ScanInv'
<1>1. UNCHANGED vectors BY DEF input
<1>2. ScanOK' BY DEF ScanInv, ScanOK
<1>3. Narrow' = Narrow BY <1>1 DEF Narrow
<1>4. Narrow => LastUnused' BY DEF ScanInv, LastUnused
<1> QED BY <1>2, <1>3, <1>4 DEF ScanInv

LEMMA StartSearchScan ==
    ASSUME ScanInv, StartSearch
    PROVE  ScanInv'
<1>1. PackInv /\ PackInv' BY StartSearchInv DEF ScanInv
<1>2. next \in 1 .. Len(order) BY <1>1 DEF StartSearch, Packing, PackInv, InputOK
<1>3. UNCHANGED << input, vectors, order, next, entry, cur, check, maxtable, lowzero >> /\ entry = 1
  BY <1>1 DEF StartSearch, input, cur, PackInv, SearchOK
<1>4. ScanOK' BY <1>3 DEF ScanInv, ScanOK
<1>5. Narrow' = Narrow BY <1>3 DEF Narrow
<1>6. ASSUME Narrow PROVE LastUnused'
  <2>1. PICK k \in 1 .. tally(cur) : place' = NextPlace(lowzero - vectors[cur].from[k]) BY DEF StartSearch
  <2>2. lowzero \in Nat /\ maxtable \in Nat BY <1>1 DEF PackInv, ArraysOK
  <2>3. lowzero < maxtable BY <1>1, <1>6, ScanFollows DEF ScanInTable
  <2>4. \A l \in 1 .. tally(cur) : vectors[cur].from[l] - vectors[cur].from[k] <= Increment - 2
    BY <1>1, <1>2, <1>6, NarrowFacts
  <2>5. \A l \in 1 .. tally(cur) : vectors[cur].from[l] \in Nat BY <1>1, <1>2, CurFacts
  <2>6. Increment \in Nat /\ place' \in Int /\ place' <= lowzero - vectors[cur].from[k] + 1
    <3>1. Increment \in Nat BY <1>1 DEF PackInv, InputOK
    <3>2. vectors[cur].from[k] \in Nat BY <2>1, <2>5
    <3> QED BY <2>1, <2>2, <3>1, <3>2 DEF NextPlace
  <2>7. \A l \in 1 .. tally(cur) : place' + vectors[cur].from[l] <= maxtable + Increment - 2
    BY <2>2, <2>3, <2>4, <2>5, <2>6
  <2> QED BY <1>3, <1>6, <2>7 DEF ScanInv, LastUnused, Loc, tally, cur
<1> QED BY <1>1, <1>4, <1>5, <1>6 DEF ScanInv

(* A table that grows, grows beyond the place looked at. *)
LEMMA GrowsBeyond ==
    ASSUME PackInv, NEW l \in Nat, Enlarged(l), l <= maxtable + Increment - 2, check[maxtable - 1] = NONE
    PROVE  check'[maxtable' - 1] = NONE /\ l < maxtable' - 1
<1>1. maxtable \in Nat \ {0} /\ Increment \in Nat \ {0} BY DEF PackInv, InputOK, ArraysOK
<1>2. CASE ~Full(l)
  <2>1. maxtable' = maxtable /\ l < maxtable - 1 BY <1>1, <1>2 DEF Enlarged, Full
  <2>2. maxtable - 1 \in 0 .. maxtable - 1 BY <1>1
  <2> QED BY <2>1, <2>2, EnlargedFacts
<1>3. CASE Full(l)
  <2>1. PICK m \in 1 .. l + 1 : maxtable' = maxtable + m * Increment BY <1>3 DEF Enlarged
  <2>2. m * Increment >= Increment BY <1>1
  <2>3. l < maxtable' - 1 /\ maxtable' - 1 \in maxtable .. maxtable' - 1 BY <1>1, <2>1, <2>2
  <2> QED BY <2>3, EnlargedFacts
<1> QED BY <1>2, <1>3

LEMMA EnlargedScan ==
    ASSUME ScanInv, NEW l \in Nat, Enlarged(l), UNCHANGED << input, lowzero >>
    PROVE  ScanOK'
<1>1. /\ maxtable' \in Nat /\ maxtable' >= maxtable /\ lowzero \in Nat /\ maxtable \in Nat
      /\ \A m \in 0 .. maxtable - 1 : check'[m] = check[m]
  BY EnlargedFacts DEF ScanInv, PackInv, ArraysOK
<1>2. lowzero <= maxtable /\ \A m \in 0 .. lowzero - 1 : check[m] # NONE BY DEF ScanInv, ScanOK
<1>3. \A m \in 0 .. lowzero - 1 : m \in 0 .. maxtable - 1 BY <1>1, <1>2
<1> QED BY <1>1, <1>2, <1>3 DEF ScanOK

LEMMA EntryFitsScan ==
    ASSUME ScanInv, EntryFits
    PROVE  ScanInv'
<1>1. PackInv /\ PackInv' BY EntryFitsInv DEF ScanInv
<1>2. /\ next \in 1 .. Len(order) /\ place # NotSearching
      /\ entry \in 1 .. tally(cur) /\ tally(cur) \in Nat /\ Loc(entry) \in Nat
  BY <1>1, LookingFacts DEF EntryFits
<1>3. UNCHANGED << input, vectors, order, next, place, cur, lowzero >> /\ entry' = entry + 1
  BY DEF EntryFits, input, cur
<1>4. Enlarged(Loc(entry)) BY DEF EntryFits
<1>5. ScanOK' BY <1>2, <1>3, <1>4, EnlargedScan
<1>6. Narrow' = Narrow BY <1>3 DEF Narrow
<1>7. ASSUME Narrow PROVE LastUnused'
  <2>1. /\ check[maxtable - 1] = NONE
        /\ \A k \in 1 .. tally(cur) : Loc(k) <= maxtable + Increment - 2
        /\ \A k \in 1 .. entry - 1 : Loc(k) < maxtable - 1 BY <1>2, <1>7 DEF ScanInv, LastUnused
  <2>2. check'[maxtable' - 1] = NONE /\ Loc(entry) < maxtable' - 1
    BY <1>1, <1>2, <1>4, <2>1, GrowsBeyond
  <2>3. maxtable \in Nat /\ maxtable' \in Nat /\ maxtable <= maxtable' /\ Increment \in Nat
    BY <1>1, <1>2, <1>4, EnlargedFacts DEF PackInv, InputOK, ArraysOK
  <2>4. \A k \in 1 .. tally(cur) : Loc(k) \in Nat BY <1>1, <1>2 DEF PackInv, SearchOK
  <2>5. \A k \in 1 .. tally(cur) : Loc(k) <= maxtable' + Increment - 2 BY <2>1, <2>3, <2>4
  <2>6. \A k \in 1 .. entry' - 1 : k \in 1 .. tally(cur) /\ (k \in 1 .. entry - 1 \/ k = entry) BY <1>2, <1>3
  <2>7. \A k \in 1 .. entry' - 1 : Loc(k) < maxtable' - 1 BY <2>1, <2>2, <2>3, <2>4, <2>6
  <2>8. \A k : Loc(k)' = Loc(k) BY <1>3 DEF Loc, cur
  <2>9. tally(cur)' = tally(cur) BY <1>3 DEF tally, cur
  <2> QED BY <2>2, <2>5, <2>7, <2>8, <2>9 DEF LastUnused
<1> QED BY <1>1, <1>5, <1>6, <1>7 DEF ScanInv

LEMMA Shifted ==
    ASSUME NEW p \in Int, NEW q \in Int, NEW a \in Int, NEW b \in Int, NEW m \in Int, NEW i \in Int,
           q <= p + 2, a - b <= i - 2, p + b <= m - 2
    PROVE  q + a <= m + i - 2
<1> QED OBVIOUS

(* The next place is one or two further right than one that was looked at. *)
LEMMA TryNextScan ==
    ASSUME PackInv, Narrow, next \in 1 .. Len(order), place # NotSearching, TryNext,
           UNCHANGED << input, order, next >>,
           maxtable' \in Nat, check'[maxtable' - 1] = NONE,
           NEW j \in 1 .. tally(cur), Loc(j) < maxtable' - 1
    PROVE  LastUnused'
<1>1. place \in Int /\ place' \in Int /\ place' <= place + 2 /\ entry' = 1
  BY DEF PackInv, SearchOK, TryNext, NextPlace
<1>2. /\ \A k \in 1 .. tally(cur) : vectors[cur].from[k] \in Nat
      /\ tally(cur) \in Nat BY CurFacts
<1>3. Increment \in Nat /\ \A k \in 1 .. tally(cur) : vectors[cur].from[k] - vectors[cur].from[j] <= Increment - 2
  BY NarrowFacts
<1>4. place + vectors[cur].from[j] <= maxtable' - 2
  <2>1. place + vectors[cur].from[j] < maxtable' - 1 BY DEF Loc
  <2>2. vectors[cur].from[j] \in Nat BY <1>2
  <2> QED BY <1>1, <2>1, <2>2
<1>5. ASSUME NEW k \in 1 .. tally(cur) PROVE place' + vectors[cur].from[k] <= maxtable' + Increment - 2
  <2>1. vectors[cur].from[k] - vectors[cur].from[j] <= Increment - 2 BY <1>3
  <2>2. vectors[cur].from[k] \in Nat /\ vectors[cur].from[j] \in Nat BY <1>2
  <2>3. PICK a \in Nat, b \in Nat : a = vectors[cur].from[k] /\ b = vectors[cur].from[j] BY <2>2
  <2>4. a - b <= Increment - 2 /\ place + b <= maxtable' - 2 BY <1>4, <2>1, <2>3
  <2>5. place \in Int /\ place' \in Int /\ place' <= place + 2 BY <1>1
  <2>6. Increment \in Int BY <1>3
  <2>7. maxtable' \in Int OBVIOUS
  <2>8. a \in Int /\ b \in Int OBVIOUS
  <2>9. place' + a <= maxtable' + Increment - 2 BY <2>4, <2>5, <2>6, <2>7, <2>8, Shifted
  <2> QED BY <2>3, <2>9
<1>6. UNCHANGED << vectors, cur >> BY DEF input, cur
<1> QED BY <1>1, <1>5, <1>6 DEF LastUnused, Loc, tally, cur

LEMMA EntryCollidesScan ==
    ASSUME ScanInv, EntryCollides
    PROVE  ScanInv'
<1>1. PackInv /\ PackInv' BY EntryCollidesInv DEF ScanInv
<1>2. /\ next \in 1 .. Len(order) /\ place # NotSearching
      /\ entry \in 1 .. tally(cur) /\ Loc(entry) \in Nat
  BY <1>1, LookingFacts DEF EntryCollides
<1>3. UNCHANGED << input, order, next, lowzero >> /\ UNCHANGED vectors /\ Enlarged(Loc(entry)) /\ TryNext
  BY DEF EntryCollides, input
<1>4. ScanOK' BY <1>2, <1>3, EnlargedScan
<1>5. Narrow' = Narrow BY <1>3 DEF Narrow
<1>6. ASSUME Narrow PROVE LastUnused'
  <2>1. check[maxtable - 1] = NONE /\ Loc(entry) <= maxtable + Increment - 2
    BY <1>2, <1>6 DEF ScanInv, LastUnused
  <2>2. check'[maxtable' - 1] = NONE /\ Loc(entry) < maxtable' - 1 /\ maxtable' \in Nat
    BY <1>1, <1>2, <1>3, <2>1, GrowsBeyond, EnlargedFacts
  <2> QED BY <1>1, <1>2, <1>3, <1>6, <2>2, TryNextScan
<1> QED BY <1>1, <1>4, <1>5, <1>6 DEF ScanInv

LEMMA BaseTakenScan ==
    ASSUME ScanInv, BaseTaken
    PROVE  ScanInv'
<1>1. PackInv /\ PackInv' BY BaseTakenInv DEF ScanInv
<1>2. /\ next \in 1 .. Len(order) /\ place # NotSearching
      /\ UNCHANGED << input, order, next, check, maxtable, lowzero >> /\ UNCHANGED vectors /\ TryNext
  BY <1>1 DEF BaseTaken, Searching, Packing, PackInv, InputOK, input
<1>3. ScanOK' BY <1>2 DEF ScanInv, ScanOK
<1>4. Narrow' = Narrow BY <1>2 DEF Narrow
<1>5. ASSUME Narrow PROVE LastUnused'
  <2>1. 1 \in 1 .. tally(cur) /\ tally(cur) \in Nat BY <1>1, <1>2, CurFacts
  <2>2. 1 \in 1 .. entry - 1 BY <1>1, <1>2, <2>1 DEF BaseTaken, Looking, PackInv, SearchOK
  <2>3. check[maxtable - 1] = NONE /\ Loc(1) < maxtable - 1 BY <1>2, <1>5, <2>2 DEF ScanInv, LastUnused
  <2>4. maxtable' \in Nat BY <1>1, <1>2 DEF PackInv, ArraysOK
  <2> QED BY <1>1, <1>2, <1>5, <2>1, <2>3, <2>4, TryNextScan
<1> QED BY <1>1, <1>3, <1>4, <1>5 DEF ScanInv

LEMMA PlaceScan ==
    ASSUME ScanInv, Place
    PROVE  ScanInv'
<1>1. PackInv /\ PackInv' BY PlaceInv DEF ScanInv
<1>2. Searching /\ ~Looking /\ next \in 1 .. Len(order) /\ place # NotSearching
  BY <1>1, StoredFacts DEF Place, NotSearching
<1>3. /\ UNCHANGED << input, vectors, maxtable >> /\ place' = NotSearching
      /\ check' = Stored(check, vectors[cur].from) BY DEF Place, input
<1>4. /\ maxtable \in Nat \ {0} /\ lowzero \in Nat
      /\ DOMAIN check = 0 .. maxtable - 1 /\ DOMAIN check' = 0 .. maxtable - 1
  BY <1>1, <1>3 DEF PackInv, ArraysOK
<1>5. /\ \A k \in 1 .. tally(cur) : check'[Loc(k)] = vectors[cur].from[k] /\ vectors[cur].from[k] \in Nat
      /\ \A l \in 0 .. maxtable - 1 : (\A k \in 1 .. tally(cur) : Loc(k) # l) => check'[l] = check[l]
  <2>1. VectorOK(vectors[cur]) /\ \A k \in 1 .. tally(cur) : vectors[cur].from[k] \in Nat
    BY <1>1, <1>2, CurFacts
  <2>2. \A k \in 1 .. tally(cur) : vectors[cur].from[Latest(cur, vectors[cur].from[k])] = vectors[cur].from[k]
    BY <2>1, LatestFacts
  <2> QED BY <1>1, <1>2, <1>3, <2>1, <2>2, StoredFacts
<1>6. PICK l \in lowzero .. maxtable : (\A m \in lowzero .. l - 1 : ~Unused(m)') /\ lowzero' = l
  BY DEF Place
<1>7. ScanOK'
  <2>1. lowzero' <= maxtable' /\ lowzero' \in Nat BY <1>3, <1>4, <1>6
  <2>2. ASSUME NEW m \in 0 .. lowzero' - 1 PROVE check'[m] # NONE
    <3>1. CASE m \in lowzero .. l - 1 BY <1>6, <3>1 DEF Unused
    <3>2. CASE m \in 0 .. lowzero - 1
      <4>1. check[m] # NONE /\ lowzero <= maxtable BY <3>2 DEF ScanInv, ScanOK
      <4>2. m \in 0 .. maxtable - 1 BY <1>4, <3>2, <4>1
      <4>3. CASE \E k \in 1 .. tally(cur) : Loc(k) = m BY <1>5, <4>3 DEF NONE
      <4>4. CASE \A k \in 1 .. tally(cur) : Loc(k) # m BY <1>5, <4>1, <4>2, <4>4
      <4> QED BY <4>3, <4>4
    <3> QED BY <1>4, <1>6, <3>1, <3>2
  <2> QED BY <2>1, <2>2 DEF ScanOK
<1>8. Narrow' = Narrow BY <1>3 DEF Narrow
<1>9. ASSUME Narrow PROVE LastUnused'
  <2>1. check[maxtable - 1] = NONE /\ \A k \in 1 .. entry - 1 : Loc(k) < maxtable - 1
    BY <1>2, <1>9 DEF ScanInv, LastUnused
  <2>2. tally(cur) \in Nat /\ \A k \in 1 .. tally(cur) : Loc(k) \in Nat
    BY <1>1, <1>2, CurFacts DEF PackInv, SearchOK
  <2>3. entry = tally(cur) + 1 BY <1>1, <1>2, <2>2 DEF Looking, PackInv, SearchOK
  <2>4. \A k \in 1 .. tally(cur) : Loc(k) # maxtable - 1 BY <1>4, <2>1, <2>2, <2>3
  <2>5. maxtable - 1 \in 0 .. maxtable - 1 BY <1>4
  <2>6. check'[maxtable - 1] = NONE BY <1>5, <2>1, <2>4, <2>5
  <2> QED BY <1>3, <2>6 DEF LastUnused
<1> QED BY <1>1, <1>7, <1>8, <1>9 DEF ScanInv

LEMMA ScanStutters ==
    ASSUME ScanInv, PackInv', UNCHANGED << input, order, next, place, entry, check, maxtable, lowzero >>
    PROVE  ScanInv'
<1>1. UNCHANGED << vectors, cur >> BY DEF input, cur
<1>2. Narrow' = Narrow BY <1>1 DEF Narrow
<1> QED BY <1>1, <1>2 DEF ScanInv, ScanOK, LastUnused, Loc, tally, cur

(* The scan never leaves the table if no vector is as wide as the step in
   which the table grows, and nothing below it is unused (output.c:887). *)
THEOREM ScanStaysInTable == Spec => []ScanInTable
<1>1. Init => ScanInv BY ScanInit
<1>2. ScanInv /\ [Next]_packVars => ScanInv'
  <2> SUFFICES ASSUME ScanInv, [Next]_packVars PROVE ScanInv' OBVIOUS
  <2>1. CASE Share
    <3>1. PackInv' /\ place' = NotSearching BY <2>1, ShareInv DEF ScanInv, Share
    <3> QED BY <2>1, <3>1, ScanUntouched DEF Share
  <2>2. CASE StartSearch BY <2>2, StartSearchScan
  <2>3. CASE EntryFits BY <2>3, EntryFitsScan
  <2>4. CASE EntryCollides BY <2>4, EntryCollidesScan
  <2>5. CASE BaseTaken BY <2>5, BaseTakenScan
  <2>6. CASE Place BY <2>6, PlaceScan
  <2>7. CASE TableOverflow BY <2>7, ScanStutters, StutterInv DEF TableOverflow, ScanInv
  <2>8. CASE UNCHANGED packVars BY <2>8, ScanStutters, StutterInv DEF packVars, ScanInv
  <2> QED BY <2>1, <2>2, <2>3, <2>4, <2>5, <2>6, <2>7, <2>8 DEF Next
<1> QED BY <1>1, <1>2, ScanFollows, PTL DEF Spec
=============================================================================
