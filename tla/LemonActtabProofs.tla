-------------------------- MODULE LemonActtabProofs --------------------------
(***************************************************************************)
(* Proofs about acttab_insert(): for any number of symbols and any         *)
(* sequence of transactions, what was inserted is found, and what was not  *)
(* inserted for a terminal is not found.                                   *)
(*                                                                         *)
(* The lemmas follow the code: the array grows, a place is chosen, the     *)
(* entries are written.  Inv is the inductive invariant.                   *)
(***************************************************************************)
EXTENDS LemonActtabCalls, FiniteSetTheorems, SequenceTheorems, WellFoundedInduction, TLAPS

-----------------------------------------------------------------------------
(* The least and the greatest member of a bounded set of numbers. *)
Below == OpToRel(<, Nat)

LEMMA LeastExists ==
    ASSUME NEW S \in SUBSET Nat, S # {}
    PROVE  \E m \in S : \A x \in S : m <= x
<1>1. IsWellFoundedOn(Below, Nat) BY NatLessThanWellFounded DEF Below
<1>2. PICK m \in S : \A x \in S : << x, m >> \notin Below BY <1>1, WFMin
<1>3. \A x \in S : << x, m >> \in Nat \X Nat /\ << x, m >>[1] = x /\ << x, m >>[2] = m OBVIOUS
<1>4. \A x \in S : ~(x < m) BY <1>2, <1>3 DEF Below, OpToRel
<1>5. \A x \in S : m <= x BY <1>4
<1> QED BY <1>5

LEMMA GreatestExists ==
    ASSUME NEW S \in SUBSET Nat, S # {}, NEW n \in Nat, \A x \in S : x <= n
    PROVE  \E m \in S : \A x \in S : x <= m
<1> DEFINE Down == { n - x : x \in S }
<1>1. Down \in SUBSET Nat /\ Down # {} OBVIOUS
<1>2. PICK d \in Down : \A y \in Down : d <= y BY <1>1, LeastExists
<1>3. PICK m \in S : d = n - m BY <1>2
<1>4. \A x \in S : n - m <= n - x BY <1>2, <1>3
<1>5. \A x \in S : x <= m BY <1>4
<1> QED BY <1>5

-----------------------------------------------------------------------------
(* What lemon counts. *)
LEMMA SymbolNumbers == nterminal \in Nat \ {0} /\ nsymbol \in Nat /\ nterminal < nsymbol
<1> QED BY ActtabAssumption

-----------------------------------------------------------------------------
(* What one state inserts. *)
LEMMA TransactionFacts ==
    ASSUME NEW T \in Transactions
    PROVE  /\ T \in Seq([lookahead : Nat, action : Nat])
           /\ DOMAIN T # {}
           /\ \A j \in DOMAIN T : T[j] \in [lookahead : Nat, action : Nat] /\ T[j].lookahead < nsymbol
           /\ \A j, k \in DOMAIN T : T[j].lookahead = T[k].lookahead => j = k
           /\ Lookaheads(T) \subseteq Terminals <=> \A j \in DOMAIN T : T[j].lookahead < nterminal
           /\ ~(Lookaheads(T) \subseteq Terminals) => \A j \in DOMAIN T : T[j].lookahead >= nterminal
<1>1. /\ nterminal \in Nat \ {0} /\ nsymbol \in Nat /\ nterminal < nsymbol
      /\ T \in Seq([lookahead : Nat, action : Nat]) /\ IsTransaction(T) BY ActtabAssumption
<1>2. DOMAIN T # {} BY <1>1 DEF IsTransaction
<1>3. \A j \in DOMAIN T : T[j] \in [lookahead : Nat, action : Nat]
  <2>1. DOMAIN T = 1 .. Len(T) /\ T \in [1 .. Len(T) -> [lookahead : Nat, action : Nat]]
        BY <1>1, LenProperties
  <2> QED BY <2>1
<1>4. \A j \in DOMAIN T : T[j].lookahead \in Lookaheads(T) BY DEF Lookaheads
<1>5. \A x \in Lookaheads(T) : \E j \in DOMAIN T : x = T[j].lookahead BY DEF Lookaheads
<1>6. \A x \in Lookaheads(T) : x \in Nat BY <1>3, <1>5
<1>7. Lookaheads(T) \subseteq Terminals \/ Lookaheads(T) \subseteq Nonterminals BY <1>1 DEF IsTransaction
<1>8. \A j \in DOMAIN T : T[j].lookahead < nsymbol BY <1>1, <1>3, <1>4, <1>7 DEF Terminals, Nonterminals
<1>9. Lookaheads(T) \subseteq Terminals <=> \A j \in DOMAIN T : T[j].lookahead < nterminal
      BY <1>1, <1>3, <1>4, <1>5, <1>6 DEF Terminals
<1>10. ~(Lookaheads(T) \subseteq Terminals) => \A j \in DOMAIN T : T[j].lookahead >= nterminal
      BY <1>1, <1>4, <1>7 DEF Nonterminals
<1>11. \A j, k \in DOMAIN T : T[j].lookahead = T[k].lookahead => j = k BY <1>1 DEF IsTransaction
<1> QED BY <1>1, <1>2, <1>3, <1>8, <1>9, <1>10, <1>11

LEMMA Extremes ==
    ASSUME NEW T \in Transactions
    PROVE  /\ mnLookahead(T) \in Nat /\ mxLookahead(T) \in Nat
           /\ \E j \in DOMAIN T : T[j].lookahead = mnLookahead(T)
           /\ \E j \in DOMAIN T : T[j].lookahead = mxLookahead(T)
           /\ \A j \in DOMAIN T : mnLookahead(T) <= T[j].lookahead /\ T[j].lookahead <= mxLookahead(T)
           /\ mxLookahead(T) < nsymbol
           /\ Lookaheads(T) \subseteq Terminals => mxLookahead(T) < nterminal
           /\ ~(Lookaheads(T) \subseteq Terminals) => mnLookahead(T) >= nterminal
<1> DEFINE L == Lookaheads(T)
<1>1. /\ DOMAIN T # {} /\ \A j \in DOMAIN T : T[j].lookahead \in Nat /\ T[j].lookahead < nsymbol
      BY TransactionFacts
<1>2. L \in SUBSET Nat /\ L # {} /\ \A x \in L : x <= nsymbol
  <2>1. \A x \in L : \E j \in DOMAIN T : x = T[j].lookahead BY DEF Lookaheads
  <2>2. \A x \in L : x \in Nat /\ x < nsymbol BY <2>1, <1>1
  <2>3. L # {} BY <1>1 DEF Lookaheads
  <2> HIDE DEF L
  <2> QED BY <2>2, <2>3, SymbolNumbers
<1>3. \E m \in L : \A x \in L : m <= x BY <1>2, LeastExists
<1>4. \E m \in L : \A x \in L : x <= m BY <1>2, GreatestExists, SymbolNumbers
<1>5. mnLookahead(T) \in L /\ \A x \in L : mnLookahead(T) <= x BY <1>3 DEF mnLookahead
<1>6. mxLookahead(T) \in L /\ \A x \in L : x <= mxLookahead(T) BY <1>4 DEF mxLookahead
<1>7. \A x \in L : \E j \in DOMAIN T : T[j].lookahead = x BY DEF Lookaheads
<1>8. \A j \in DOMAIN T : T[j].lookahead \in L BY DEF Lookaheads
<1>9. /\ mxLookahead(T) < nsymbol
      /\ Lookaheads(T) \subseteq Terminals => mxLookahead(T) < nterminal
      /\ ~(Lookaheads(T) \subseteq Terminals) => mnLookahead(T) >= nterminal
  <2>1. PICK j \in DOMAIN T : T[j].lookahead = mxLookahead(T) BY <1>6, <1>7
  <2>2. PICK k \in DOMAIN T : T[k].lookahead = mnLookahead(T) BY <1>5, <1>7
  <2>3. T[j].lookahead < nsymbol BY TransactionFacts
  <2>4. Lookaheads(T) \subseteq Terminals => T[j].lookahead < nterminal BY TransactionFacts
  <2>5. ~(Lookaheads(T) \subseteq Terminals) => T[k].lookahead >= nterminal BY TransactionFacts
  <2> QED BY <2>1, <2>2, <2>3, <2>4, <2>5
<1>10. mnLookahead(T) \in Nat /\ mxLookahead(T) \in Nat BY <1>2, <1>5, <1>6
<1>11. /\ \E j \in DOMAIN T : T[j].lookahead = mnLookahead(T)
       /\ \E j \in DOMAIN T : T[j].lookahead = mxLookahead(T) BY <1>5, <1>6, <1>7
<1>12. \A j \in DOMAIN T : mnLookahead(T) <= T[j].lookahead /\ T[j].lookahead <= mxLookahead(T)
       BY <1>5, <1>6, <1>8
<1> QED BY <1>9, <1>10, <1>11, <1>12

-----------------------------------------------------------------------------
(* A table and its array of A entries; no entry in use is behind nAction. *)
Arrays(A) == [0 .. A - 1 -> [lookahead : -1 .. nsymbol - 1, action : Int]]

IsTable(p, A) ==
    /\ p \in [nsymbol : {nsymbol}, nterminal : {nterminal}, aAction : Arrays(A), nAction : Nat]
    /\ \A k \in 0 .. A - 1 : p.aAction[k].lookahead >= 0 => k < p.nAction

LEMMA Entries ==
    ASSUME NEW p, NEW A \in Nat, IsTable(p, A), NEW k \in 0 .. A - 1
    PROVE  /\ p.aAction[k].lookahead \in -1 .. nsymbol - 1
           /\ k >= p.nAction => p.aAction[k].lookahead < 0
<1>1. p.nAction \in Nat /\ p.aAction \in Arrays(A) BY DEF IsTable
<1>2. p.aAction[k] \in [lookahead : -1 .. nsymbol - 1, action : Int] BY <1>1 DEF Arrays
<1>3. p.aAction[k].lookahead \in -1 .. nsymbol - 1 BY <1>2
<1>4. p.aAction[k].lookahead >= 0 => k < p.nAction BY DEF IsTable
<1>5. nsymbol \in Nat BY SymbolNumbers
<1> QED BY <1>1, <1>3, <1>4, <1>5

LEMMA ArraySize ==
    ASSUME NEW p, NEW A \in Nat, IsTable(p, A)
    PROVE  nActionAlloc(p) = A /\ DOMAIN p.aAction = 0 .. A - 1
<1>1. DOMAIN p.aAction = 0 .. A - 1 BY DEF IsTable, Arrays
<1>2. Cardinality(0 .. A - 1) = A BY FS_Interval
<1> QED BY <1>1, <1>2 DEF nActionAlloc

(* After the array was enlarged a whole row of symbols fits behind nAction,
   and the entries are what they were. *)
LEMMA GrownTable ==
    ASSUME NEW p, NEW A \in Nat, IsTable(p, A)
    PROVE  \E B \in Nat : /\ A <= B /\ p.nAction + nsymbol + 1 < B
                          /\ IsTable(Grown(p), B)
                          /\ Grown(p).nAction = p.nAction
                          /\ \A k \in 0 .. A - 1 : Grown(p).aAction[k] = p.aAction[k]
                          /\ \A k \in A .. B - 1 : Grown(p).aAction[k].lookahead < 0
<1> DEFINE n == nsymbol + 1
<1>1. nActionAlloc(p) = A /\ DOMAIN p.aAction = 0 .. A - 1 BY ArraySize
<1>2. p.nsymbol = nsymbol /\ p.nterminal = nterminal BY DEF IsTable
<1>3. nsymbol \in Nat /\ p.nAction \in Nat BY SymbolNumbers DEF IsTable
<1>4. CASE p.nAction + n < A
  <2>1. Grown(p) = p BY <1>1, <1>2, <1>4 DEF Grown
  <2> QED BY <2>1, <1>4, <1>3 DEF IsTable
<1>5. CASE ~(p.nAction + n < A)
  <2> DEFINE B == p.nAction + n + A + 20
             a == [k \in 0 .. B - 1 |-> IF k \in 0 .. A - 1 THEN p.aAction[k] ELSE Empty]
  <2>1. Grown(p) = [p EXCEPT !.aAction = a]
    <3>1. [k \in 0 .. p.nAction + (p.nsymbol + 1) + nActionAlloc(p) + 20 - 1 |->
              IF k \in DOMAIN p.aAction THEN p.aAction[k] ELSE Empty] = a
      <4>1. 0 .. p.nAction + (p.nsymbol + 1) + nActionAlloc(p) + 20 - 1 = 0 .. B - 1
            BY <1>1, <1>2, <1>3
      <4> HIDE DEF B
      <4> QED BY <4>1, <1>1
    <3>2. ~(p.nAction + (p.nsymbol + 1) < nActionAlloc(p)) BY <1>1, <1>2, <1>5
    <3> HIDE DEF a
    <3> QED BY <3>1, <3>2 DEF Grown
  <2>2. B \in Nat /\ A <= B /\ p.nAction + nsymbol + 1 < B BY <1>3 DEF IsTable
  <2>5. \A k \in 0 .. A - 1 : k \in 0 .. B - 1 /\ a[k] = p.aAction[k] BY <2>2
  <2>6. \A k \in A .. B - 1 : a[k] = Empty BY <2>2
  <2>7. Empty \in [lookahead : -1 .. nsymbol - 1, action : Int] /\ Empty.lookahead = -1
        BY <1>3 DEF Empty
  <2>8. \A k \in 0 .. A - 1 : p.aAction[k] \in [lookahead : -1 .. nsymbol - 1, action : Int]
        BY DEF IsTable, Arrays
  <2>9. a \in Arrays(B) BY <2>7, <2>8 DEF Arrays
  <2>3. Grown(p) \in [nsymbol : {nsymbol}, nterminal : {nterminal}, aAction : Arrays(B), nAction : Nat]
        BY <2>1, <2>9 DEF IsTable
  <2>4. Grown(p).aAction = a /\ Grown(p).nAction = p.nAction BY <2>1 DEF IsTable
  <2>10. \A k \in 0 .. B - 1 : a[k].lookahead >= 0 => k < p.nAction
    <3> TAKE k \in 0 .. B - 1
    <3>1. CASE k \in 0 .. A - 1 BY <3>1, <2>5 DEF IsTable
    <3>2. CASE k \notin 0 .. A - 1 BY <3>2, <2>6, <2>7, <2>2
    <3> QED BY <3>1, <3>2
  <2>11. IsTable(Grown(p), B) BY <2>3, <2>4, <2>9, <2>10 DEF IsTable
  <2>12. \A k \in 0 .. A - 1 : Grown(p).aAction[k] = p.aAction[k] BY <2>4, <2>5
  <2>13. \A k \in A .. B - 1 : Grown(p).aAction[k].lookahead < 0 BY <2>4, <2>6, <2>7
  <2> HIDE DEF B, a
  <2> QED BY <2>2, <2>4, <2>11, <2>12, <2>13
<1> QED BY <1>4, <1>5

-----------------------------------------------------------------------------
(* The place: a duplicate, a hole, or, where the loop ends, an index behind
   all entries.  The least lookahead is then not 0, which fits at once. *)
OfTerminals(T) == Lookaheads(T) \subseteq Terminals

LEMMA AppendingFits ==
    ASSUME NEW q, NEW B \in Nat, IsTable(q, B), q.nAction + nsymbol + 1 < B,
           NEW T \in Transactions, mnLookahead(T) = 0
    PROVE  Fits(q, T, q.nAction + 1)
<1>1. q.nAction \in Nat /\ nsymbol \in Nat BY SymbolNumbers DEF IsTable
<1>2. \A k \in 0 .. B - 1 : k >= q.nAction => q.aAction[k].lookahead < 0
      BY Entries
<1>3. \A j \in DOMAIN T : T[j].lookahead \in Nat /\ T[j].lookahead < nsymbol BY TransactionFacts
<1>4. \A j \in DOMAIN T : /\ Place(T, j, q.nAction + 1) >= 0
                          /\ q.aAction[Place(T, j, q.nAction + 1)].lookahead < 0
  <2> TAKE j \in DOMAIN T
  <2>1. Place(T, j, q.nAction + 1) = T[j].lookahead + q.nAction + 1 BY <1>1, <1>3 DEF Place
  <2>2. Place(T, j, q.nAction + 1) \in 0 .. B - 1 /\ Place(T, j, q.nAction + 1) >= q.nAction
        BY <2>1, <1>1, <1>3
  <2> QED BY <2>2, <1>2
<1>5. \A j \in 0 .. q.nAction - 1 : q.aAction[j].lookahead >= -1
  <2> TAKE j \in 0 .. q.nAction - 1
  <2>1. j \in 0 .. B - 1 BY <1>1
  <2> QED BY <2>1, <1>1, Entries
<1>6. \A j \in 0 .. q.nAction - 1 : q.aAction[j].lookahead # j + mnLookahead(T) - (q.nAction + 1)
      BY <1>1, <1>5
<1>7. q.aAction[q.nAction + 1].lookahead < 0 BY <1>1, <1>2
<1> QED BY <1>4, <1>6, <1>7 DEF Fits

LEMMA ChosenPlace ==
    ASSUME NEW q, NEW B \in Nat, IsTable(q, B), q.nAction + nsymbol + 1 < B,
           NEW T \in Transactions, NEW i, i = PlaceFor(q, T, OfTerminals(T))
    PROVE  /\ i \in Nat
           /\ OfTerminals(T) => mnLookahead(T) <= i
           /\ \/ i < q.nAction /\ IsDuplicate(q, T, i)
              \/ i < B - mxLookahead(T) /\ Fits(q, T, i)
              \/ /\ q.nAction + 2 < i
                 /\ 0 < mnLookahead(T)
                 /\ i = B - mxLookahead(T) \/ i = mnLookahead(T)
<1> DEFINE mn == mnLookahead(T)
           mx == mxLookahead(T)
           end == FirstPlace(T, OfTerminals(T))
           bound == B - mx
           duplicates == { k \in end .. q.nAction - 1 : IsDuplicate(q, T, k) }
           holes == { k \in end .. bound - 1 : Fits(q, T, k) }
<1>1. nActionAlloc(q) = B BY ArraySize
<1>2. mn \in Nat /\ mx \in Nat /\ mx < nsymbol BY Extremes
<1>3. q.nAction \in Nat /\ nsymbol \in Nat BY SymbolNumbers DEF IsTable
<1>4. end \in Nat /\ (OfTerminals(T) => end = mn) /\ (~OfTerminals(T) => end = 0)
      BY <1>2 DEF FirstPlace
<1>5. q.nAction + 2 < bound BY <1>2, <1>3
<1>6. i = IF duplicates # {} THEN CHOOSE d \in duplicates : \A k \in duplicates : k <= d
          ELSE IF holes # {} THEN CHOOSE h \in holes : \A k \in holes : h <= k
          ELSE IF end <= bound THEN bound ELSE end
      BY <1>1 DEF PlaceFor
<1>7. CASE duplicates # {}
  <2>1. duplicates \in SUBSET Nat /\ \A k \in duplicates : k <= q.nAction BY <1>3, <1>4
  <2>2. \E d \in duplicates : \A k \in duplicates : k <= d BY <2>1, <1>3, <1>7, GreatestExists
  <2>3. i \in duplicates
    <3> HIDE DEF duplicates
    <3> QED BY <2>2, <1>6, <1>7
  <2> QED BY <2>3, <1>3, <1>4
<1>8. CASE duplicates = {} /\ holes # {}
  <2>1. holes \in SUBSET Nat BY <1>4
  <2>2. \E h \in holes : \A k \in holes : h <= k BY <2>1, <1>8, LeastExists
  <2>3. i \in holes
    <3> HIDE DEF duplicates, holes
    <3> QED BY <2>2, <1>6, <1>8
  <2> QED BY <2>3, <1>2, <1>4
<1>9. CASE duplicates = {} /\ holes = {}
  <2>1. i = IF end <= bound THEN bound ELSE end BY <1>6, <1>9
  <2>2. mn # 0
    <3> SUFFICES ASSUME mn = 0 PROVE FALSE OBVIOUS
    <3>1. Fits(q, T, q.nAction + 1) BY AppendingFits
    <3>2. q.nAction + 1 \in end .. bound - 1 BY <1>2, <1>3, <1>4, <1>5
    <3>3. q.nAction + 1 \in holes BY <3>1, <3>2
    <3> QED BY <3>3, <1>9
  <2> HIDE DEF duplicates, holes, end
  <2>3. i \in Nat /\ end <= i BY <2>1, <1>2, <1>3, <1>4, <1>5
  <2>4. q.nAction + 2 < i BY <2>1, <1>2, <1>3, <1>4, <1>5
  <2>5. i = bound \/ i = mn BY <2>1, <1>2, <1>3, <1>4, <1>5
  <2> QED BY <2>2, <2>3, <2>4, <2>5, <1>2, <1>4
<1> QED BY <1>7, <1>8, <1>9

(* The places of a transaction are all different. *)
LEMMA PlacesDiffer ==
    ASSUME NEW T \in Transactions, NEW i \in Int
    PROVE  /\ \A j \in DOMAIN T : /\ Place(T, j, i) \in Int
                                  /\ Place(T, j, i) - T[j].lookahead = i - mnLookahead(T)
                                  /\ Place(T, j, i) >= i
           /\ \A j, k \in DOMAIN T : Place(T, j, i) = Place(T, k, i) => j = k
<1>1. mnLookahead(T) \in Nat /\ \A j \in DOMAIN T : mnLookahead(T) <= T[j].lookahead BY Extremes
<1>2. \A j \in DOMAIN T : T[j].lookahead \in Nat BY TransactionFacts
<1>3. \A j, k \in DOMAIN T : T[j].lookahead = T[k].lookahead => j = k BY TransactionFacts
<1>4. \A j \in DOMAIN T : Place(T, j, i) = T[j].lookahead - mnLookahead(T) + i BY DEF Place
<1>5. \A j, k \in DOMAIN T : Place(T, j, i) = Place(T, k, i) => T[j].lookahead = T[k].lookahead
      BY <1>1, <1>2, <1>4
<1>6. \A j \in DOMAIN T : /\ Place(T, j, i) \in Int
                          /\ Place(T, j, i) - T[j].lookahead = i - mnLookahead(T)
                          /\ Place(T, j, i) >= i
      BY <1>1, <1>2, <1>4
<1> QED BY <1>3, <1>5, <1>6

(* An entry of a terminal lies at least nterminal before nAction, counted
   from its offset: the table is padded. *)
Padded(p, A) ==
    \A k \in 0 .. A - 1 :
        p.aAction[k].lookahead \in Terminals =>
            /\ k - p.aAction[k].lookahead >= 0
            /\ k - p.aAction[k].lookahead + nterminal <= p.nAction

(* The offset of an index behind all entries is greater than theirs. *)
LEMMA BehindAll ==
    ASSUME NEW size \in Nat, NEW terminals \in Nat, NEW mn \in Nat, mn < terminals,
           NEW i \in Nat, size + 2 < i,
           NEW k \in Nat, NEW x \in Nat, k - x + terminals <= size
    PROVE  k - x # i - mn
<1>1. k - x <= size - terminals OBVIOUS
<1>2. size + mn < i + terminals OBVIOUS
<1>3. size - terminals < i - mn BY <1>2
<1> QED BY <1>1, <1>3

(***************************************************************************)
(* What the search guarantees: the transaction is in the table already, or *)
(* all its places are free.  If it is one of terminals, no entry of a      *)
(* terminal that is in use and not its own would be found at its offset.   *)
(***************************************************************************)
LEMMA PlaceIsGood ==
    ASSUME NEW q, NEW B \in Nat, IsTable(q, B), q.nAction + nsymbol + 1 < B, Padded(q, B),
           NEW T \in Transactions, NEW i, i = PlaceFor(q, T, OfTerminals(T))
    PROVE  /\ i \in Nat
           /\ OfTerminals(T) => mnLookahead(T) <= i
           /\ \A j \in DOMAIN T : Place(T, j, i) \in 0 .. B - 1
           /\ \/ i < q.nAction /\ IsDuplicate(q, T, i)
              \/ /\ \A j \in DOMAIN T : q.aAction[Place(T, j, i)].lookahead < 0
                 /\ OfTerminals(T) => \A k \in 0 .. B - 1 : 
                        q.aAction[k].lookahead \in Terminals =>
                            k - q.aAction[k].lookahead # i - mnLookahead(T)
<1> DEFINE mn == mnLookahead(T)
           mx == mxLookahead(T)
<1>1. i \in Nat /\ (OfTerminals(T) => mn <= i) BY ChosenPlace
<1>2. /\ mn \in Nat /\ mx \in Nat /\ mx < nsymbol /\ mn <= mx
      /\ OfTerminals(T) => mx < nterminal
      /\ \A j \in DOMAIN T : mn <= T[j].lookahead /\ T[j].lookahead <= mx
  <2>1. /\ mn \in Nat /\ mx \in Nat /\ mx < nsymbol
        /\ OfTerminals(T) => mx < nterminal
        /\ \A j \in DOMAIN T : mn <= T[j].lookahead /\ T[j].lookahead <= mx BY Extremes DEF OfTerminals
  <2>2. PICK j \in DOMAIN T : T[j].lookahead = mn BY Extremes
  <2> QED BY <2>1, <2>2
<1>3. q.nAction \in Nat /\ nsymbol \in Nat /\ nterminal \in Nat BY SymbolNumbers DEF IsTable
<1>4. \A j \in DOMAIN T : T[j].lookahead \in Nat BY TransactionFacts
<1>5. \A j \in DOMAIN T : /\ Place(T, j, i) = T[j].lookahead - mn + i
                          /\ i <= Place(T, j, i) /\ Place(T, j, i) <= mx - mn + i
      BY <1>1, <1>2, <1>4 DEF Place
<1>6. CASE i < q.nAction /\ IsDuplicate(q, T, i)
  <2>1. \A j \in DOMAIN T : Place(T, j, i) \in 0 .. q.nAction - 1 BY <1>6 DEF IsDuplicate
  <2>2. \A j \in DOMAIN T : Place(T, j, i) \in 0 .. B - 1 BY <2>1, <1>3
  <2> QED BY <1>1, <1>6, <2>2
<1>7. CASE i < B - mx /\ Fits(q, T, i)
  <2>1. \A j \in DOMAIN T : Place(T, j, i) \in 0 .. B - 1 BY <1>1, <1>2, <1>4, <1>5, <1>7
  <2>2. \A j \in DOMAIN T : q.aAction[Place(T, j, i)].lookahead < 0 BY <1>7 DEF Fits
  <2>3. \A k \in 0 .. B - 1 : q.aAction[k].lookahead \in Terminals =>
                             k - q.aAction[k].lookahead # i - mn
    <3> SUFFICES ASSUME NEW k \in 0 .. B - 1, q.aAction[k].lookahead \in Terminals
                 PROVE  k - q.aAction[k].lookahead # i - mn OBVIOUS
    <3>1. q.aAction[k].lookahead \in Nat /\ k \in 0 .. q.nAction - 1 BY <1>3, Entries DEF Terminals
    <3>2. q.aAction[k].lookahead # k + mn - i BY <3>1, <1>7 DEF Fits
    <3> QED BY <3>1, <3>2, <1>1, <1>2
  <2> QED BY <1>1, <2>1, <2>2, <2>3
<1>8. CASE q.nAction + 2 < i /\ 0 < mn /\ (i = B - mx \/ i = mn)
  <2>1. \A j \in DOMAIN T : Place(T, j, i) \in 0 .. B - 1 BY <1>1, <1>2, <1>3, <1>4, <1>5, <1>8
  <2>2. \A j \in DOMAIN T : q.aAction[Place(T, j, i)].lookahead < 0
    <3> TAKE j \in DOMAIN T
    <3>1. Place(T, j, i) \in 0 .. B - 1 /\ Place(T, j, i) >= q.nAction
          BY <2>1, <1>1, <1>3, <1>5, <1>8
    <3> QED BY <3>1, Entries
  <2>3. OfTerminals(T) => \A k \in 0 .. B - 1 : q.aAction[k].lookahead \in Terminals =>
                                               k - q.aAction[k].lookahead # i - mn
    <3> SUFFICES ASSUME OfTerminals(T), NEW k \in 0 .. B - 1, q.aAction[k].lookahead \in Terminals
                 PROVE  k - q.aAction[k].lookahead # i - mn OBVIOUS
    <3>1. k - q.aAction[k].lookahead + nterminal <= q.nAction BY DEF Padded
    <3>2. q.aAction[k].lookahead \in Nat BY DEF Terminals
    <3>3. mn \in Nat /\ mn < nterminal BY <1>2, <1>3
    <3>4. i \in Nat /\ q.nAction + 2 < i BY <1>1, <1>8
    <3>5. k \in Nat OBVIOUS
    <3> QED BY <3>1, <3>2, <3>3, <3>4, <3>5, <1>3, BehindAll
  <2> QED BY <1>1, <2>1, <2>2, <2>3
<1> QED BY <1>6, <1>7, <1>8, ChosenPlace

-----------------------------------------------------------------------------
(* A duplicate is exact: every entry found at its offset is one of its own,
   for there are as many of them as the transaction has. *)
LEMMA DuplicateIsExact ==
    ASSUME NEW q, q.nAction \in Nat, NEW T \in Transactions, NEW i \in Nat, IsDuplicate(q, T, i),
           NEW k \in 0 .. q.nAction - 1, q.aAction[k].lookahead >= 0,
           q.aAction[k].lookahead = k + mnLookahead(T) - i
    PROVE  \E j \in DOMAIN T : k = Place(T, j, i)
<1> DEFINE found == { l \in 0 .. q.nAction - 1 : /\ q.aAction[l].lookahead >= 0
                                                 /\ q.aAction[l].lookahead = l + mnLookahead(T) - i }
           places == { Place(T, j, i) : j \in DOMAIN T }
           f == [j \in 1 .. Len(T) |-> Place(T, j, i)]
<1>1. DOMAIN T = 1 .. Len(T) /\ Len(T) \in Nat BY TransactionFacts, LenProperties
<1>2. Cardinality(found) = Len(T) BY DEF IsDuplicate
<1>3. \A j \in DOMAIN T : Place(T, j, i) \in 0 .. q.nAction - 1 /\ q.aAction[Place(T, j, i)] = T[j]
      BY DEF IsDuplicate
<1>4. \A j \in DOMAIN T : T[j].lookahead = Place(T, j, i) + mnLookahead(T) - i /\ T[j].lookahead >= 0
  <2> TAKE j \in DOMAIN T
  <2>1. Place(T, j, i) \in Int /\ Place(T, j, i) - T[j].lookahead = i - mnLookahead(T) BY PlacesDiffer
  <2>2. mnLookahead(T) \in Nat /\ T[j].lookahead \in Nat BY Extremes, TransactionFacts
  <2> QED BY <2>1, <2>2
<1>5. places \subseteq found BY <1>3, <1>4
<1>6. IsFiniteSet(found) /\ found \subseteq 0 .. q.nAction - 1
  <2>1. IsFiniteSet(0 .. q.nAction - 1)
    <3>1. 0 \in Int /\ q.nAction - 1 \in Int OBVIOUS
    <3> QED BY <3>1, FS_Interval
  <2>2. found \in SUBSET (0 .. q.nAction - 1) OBVIOUS
  <2> HIDE DEF found
  <2> QED BY <2>1, <2>2, FS_Subset
<1>7. Cardinality(places) = Len(T)
  <2>1. \A j, l \in 1 .. Len(T) : f[j] = f[l] => j = l
    <3>1. \A j, l \in DOMAIN T : Place(T, j, i) = Place(T, l, i) => j = l BY PlacesDiffer
    <3>2. \A j \in 1 .. Len(T) : f[j] = Place(T, j, i) OBVIOUS
    <3> HIDE DEF f
    <3> QED BY <3>1, <3>2, <1>1
  <2>2. f \in [1 .. Len(T) -> places] BY <1>1
  <2>3. \A x \in places : \E j \in 1 .. Len(T) : f[j] = x BY <1>1
  <2> HIDE DEF f, places
  <2>4. f \in Bijection(1 .. Len(T), places)
        BY <2>1, <2>2, <2>3 DEF Bijection, Injection, Surjection, IsInjective
  <2>5. ExistsBijection(1 .. Len(T), places) BY <2>4 DEF ExistsBijection
  <2> QED BY <2>5, <1>1, FS_CountingElements
<1>8. found = places
  <2> HIDE DEF found, places
  <2>1. places \in SUBSET found BY <1>5
  <2> QED BY <2>1, <1>2, <1>6, <1>7, FS_Subset
<1>9. k \in found OBVIOUS
<1> QED BY <1>8, <1>9

(* The entries are where they belong, and all others are as they were. *)
LEMMA WrittenEntries ==
    ASSUME NEW B \in Nat, NEW a \in Arrays(B), NEW T \in Transactions, NEW i \in Nat,
           \A j \in DOMAIN T : Place(T, j, i) \in 0 .. B - 1
    PROVE  /\ Written(a, T, i) \in Arrays(B)
           /\ \A j \in DOMAIN T : Written(a, T, i)[Place(T, j, i)] = T[j]
           /\ \A k \in 0 .. B - 1 : (\A j \in DOMAIN T : k # Place(T, j, i)) => Written(a, T, i)[k] = a[k]
<1> DEFINE here(k) == { j \in DOMAIN T : Place(T, j, i) = k }
           last(k) == CHOOSE j \in here(k) : \A l \in here(k) : l <= j
<1>1. DOMAIN a = 0 .. B - 1 /\ \A k \in 0 .. B - 1 : a[k] \in [lookahead : -1 .. nsymbol - 1, action : Int]
      BY DEF Arrays
<1>2. Written(a, T, i) = [k \in 0 .. B - 1 |-> IF here(k) = {} THEN a[k] ELSE T[last(k)]]
      BY <1>1 DEF Written
<1>3. DOMAIN T = 1 .. Len(T) /\ Len(T) \in Nat BY TransactionFacts, LenProperties
<1>4. \A j \in DOMAIN T : here(Place(T, j, i)) = {j} /\ last(Place(T, j, i)) = j
  <2> TAKE j \in DOMAIN T
  <2>1. here(Place(T, j, i)) = {j} BY PlacesDiffer
  <2>2. j <= j BY <1>3
  <2> HIDE DEF here
  <2>3. \E m \in {j} : \A l \in {j} : l <= m BY <2>2
  <2> QED BY <2>1, <2>3
<1>5. \A j \in DOMAIN T : T[j] \in [lookahead : -1 .. nsymbol - 1, action : Int]
  <2> TAKE j \in DOMAIN T
  <2>1. T[j] \in [lookahead : Nat, action : Nat] /\ T[j].lookahead < nsymbol BY TransactionFacts
  <2>2. nsymbol \in Nat BY SymbolNumbers
  <2> QED BY <2>1, <2>2
<1>6. \A k \in 0 .. B - 1 : here(k) # {} => \E j \in DOMAIN T : k = Place(T, j, i) OBVIOUS
<1>7. \A k \in 0 .. B - 1 : (\A j \in DOMAIN T : k # Place(T, j, i)) => here(k) = {} OBVIOUS
<1> HIDE DEF here, last
<1>8. \A j \in DOMAIN T : Written(a, T, i)[Place(T, j, i)] = T[j] BY <1>2, <1>4
<1>9. \A k \in 0 .. B - 1 : (\A j \in DOMAIN T : k # Place(T, j, i)) => Written(a, T, i)[k] = a[k]
      BY <1>2, <1>7
<1>10. \A k \in 0 .. B - 1 : Written(a, T, i)[k] \in [lookahead : -1 .. nsymbol - 1, action : Int]
       BY <1>1, <1>5, <1>8, <1>9
<1>11. Written(a, T, i) \in Arrays(B)
  <2> DEFINE w == Written(a, T, i)
  <2>1. w = [k \in 0 .. B - 1 |-> w[k]] BY <1>2
  <2> HIDE DEF w
  <2>2. \A k \in 0 .. B - 1 : w[k] \in [lookahead : -1 .. nsymbol - 1, action : Int] BY <1>10 DEF w
  <2>3. w \in Arrays(B) BY <2>1, <2>2 DEF Arrays
  <2> QED BY <2>3 DEF w
<1> QED BY <1>8, <1>9, <1>11

LEMMA SizeBounds ==
    ASSUME NEW q, q.nAction \in Nat, q.nterminal = nterminal, NEW T \in Transactions, NEW i \in Nat,
           NEW safe \in BOOLEAN
    PROVE  /\ Size(q, T, i, safe) \in Nat
           /\ q.nAction <= Size(q, T, i, safe)
           /\ \A j \in DOMAIN T : Place(T, j, i) < Size(q, T, i, safe)
           /\ safe => i + nterminal + 1 <= Size(q, T, i, safe)
<1> DEFINE used == { q.nAction } \cup { Place(T, j, i) + 1 : j \in DOMAIN T }
                   \cup (IF safe THEN { i + nterminal + 1 } ELSE {})
           bound == q.nAction + i + nsymbol + nterminal + 1
<1>1. nsymbol \in Nat /\ nterminal \in Nat BY SymbolNumbers
<1>2. \A j \in DOMAIN T : /\ Place(T, j, i) \in Nat
                          /\ Place(T, j, i) <= i + nsymbol
  <2> TAKE j \in DOMAIN T
  <2>1. Place(T, j, i) = T[j].lookahead - mnLookahead(T) + i BY DEF Place
  <2>2. mnLookahead(T) \in Nat /\ mnLookahead(T) <= T[j].lookahead BY Extremes
  <2>3. T[j].lookahead \in Nat /\ T[j].lookahead < nsymbol BY TransactionFacts
  <2> QED BY <2>1, <2>2, <2>3, <1>1
<1>3. used \in SUBSET Nat /\ used # {} /\ bound \in Nat
  <2>1. \A j \in DOMAIN T : Place(T, j, i) + 1 \in Nat BY <1>2
  <2>2. i + nterminal + 1 \in Nat BY <1>1
  <2>3. used \subseteq Nat /\ used # {} BY <2>1, <2>2
  <2>4. bound \in Nat BY <1>1
  <2> QED BY <2>3, <2>4
<1>4. \A x \in used : x <= bound BY <1>1, <1>2
<1>5. Size(q, T, i, safe) = CHOOSE n \in used : \A k \in used : k <= n BY DEF Size
<1>6. \E n \in used : \A k \in used : k <= n
  <2> HIDE DEF used, bound
  <2> QED BY <1>3, <1>4, GreatestExists
<1>7. Size(q, T, i, safe) \in used /\ \A k \in used : k <= Size(q, T, i, safe)
  <2> HIDE DEF used
  <2> QED BY <1>5, <1>6
<1>8. q.nAction \in used /\ (safe => i + nterminal + 1 \in used) /\ \A j \in DOMAIN T : Place(T, j, i) + 1 \in used
      OBVIOUS
<1>9. \A j \in DOMAIN T : Place(T, j, i) + 1 <= Size(q, T, i, safe) BY <1>7, <1>8
<1>10. Size(q, T, i, safe) \in Nat BY <1>3, <1>7
<1>11. \A j \in DOMAIN T : Place(T, j, i) < Size(q, T, i, safe) BY <1>2, <1>9, <1>10
<1> QED BY <1>7, <1>8, <1>10, <1>11

-----------------------------------------------------------------------------
(***************************************************************************)
(* A whole insertion: i is where the least lookahead was put.  Nothing is  *)
(* overwritten, what is new belongs to T, and for terminals everything     *)
(* found at the offset of T does.  An entry of a terminal is new only at   *)
(* an offset at which no terminal was found before.                        *)
(***************************************************************************)
Inserted(p, A, n, B, T, i) ==
    /\ A <= B /\ p.nAction <= n.nAction
    /\ \A j \in DOMAIN T : Place(T, j, i) \in 0 .. B - 1 /\ n.aAction[Place(T, j, i)] = T[j]
    /\ \A k \in 0 .. A - 1 : p.aAction[k].lookahead >= 0 => n.aAction[k] = p.aAction[k]
    /\ \A k \in 0 .. B - 1 : n.aAction[k].lookahead >= 0 =>
           \/ \E j \in DOMAIN T : k = Place(T, j, i)
           \/ k \in 0 .. A - 1 /\ n.aAction[k] = p.aAction[k]
    /\ OfTerminals(T) => \A k \in 0 .. B - 1 :
           n.aAction[k].lookahead \in Terminals /\ k - n.aAction[k].lookahead = i - mnLookahead(T) =>
               \E j \in DOMAIN T : k = Place(T, j, i)
    /\ OfTerminals(T) =>
           \/ \A j \in DOMAIN T : Place(T, j, i) \in 0 .. A - 1 /\ p.aAction[Place(T, j, i)] = T[j]
           \/ \A k \in 0 .. A - 1 : p.aAction[k].lookahead \in Terminals =>
                                      k - p.aAction[k].lookahead # i - mnLookahead(T)

LEMMA InsertResult ==
    ASSUME NEW p, NEW A \in Nat, IsTable(p, A), Padded(p, A), NEW T \in Transactions,
           NEW n, n = acttab_insert(p, T, OfTerminals(T)).table
    PROVE  \E B \in Nat, i \in Nat :
               /\ acttab_insert(p, T, OfTerminals(T)).offset = i - mnLookahead(T)
               /\ IsTable(n, B) /\ Padded(n, B)
               /\ Inserted(p, A, n, B, T, i)
<1>0. PICK q : q = Grown(p) OBVIOUS
<1> DEFINE i == PlaceFor(q, T, OfTerminals(T))
           mn == mnLookahead(T)
<1>1. PICK B \in Nat : /\ A <= B /\ p.nAction + nsymbol + 1 < B
                       /\ IsTable(q, B)
                       /\ q.nAction = p.nAction
                       /\ \A k \in A .. B - 1 : q.aAction[k].lookahead < 0
                       /\ \A k \in 0 .. A - 1 : q.aAction[k] = p.aAction[k]
      BY <1>0, GrownTable
<1>2. n = [q EXCEPT !.aAction = Written(q.aAction, T, i), !.nAction = Size(q, T, i, OfTerminals(T))]
      BY <1>0 DEF acttab_insert
<1>3. acttab_insert(p, T, OfTerminals(T)).offset = i - mn BY <1>0 DEF acttab_insert
<1>4. nsymbol \in Nat /\ nterminal \in Nat /\ q.nAction \in Nat BY SymbolNumbers, <1>1 DEF IsTable
<1>5. \A k \in 0 .. B - 1 : q.aAction[k].lookahead >= 0 => k \in 0 .. A - 1 /\ q.aAction[k] = p.aAction[k]
  <2> TAKE k \in 0 .. B - 1
  <2>1. CASE k \in A .. B - 1
    <3>1. q.aAction[k].lookahead < 0 BY <2>1, <1>1
    <3>2. q.aAction[k].lookahead \in -1 .. nsymbol - 1 BY <1>1, Entries
    <3> QED BY <3>1, <3>2
  <2>2. CASE k \in 0 .. A - 1 BY <2>2, <1>1
  <2> QED BY <2>1, <2>2
<1>6. Padded(q, B)
  <2> SUFFICES ASSUME NEW k \in 0 .. B - 1, q.aAction[k].lookahead \in Terminals
               PROVE  /\ k - q.aAction[k].lookahead >= 0
                      /\ k - q.aAction[k].lookahead + nterminal <= q.nAction
      BY DEF Padded
  <2>1. q.aAction[k].lookahead >= 0 BY DEF Terminals
  <2> QED BY <2>1, <1>1, <1>5 DEF Padded
<1>7. q.nAction + nsymbol + 1 < B BY <1>1
<1>8. /\ i \in Nat /\ (OfTerminals(T) => mn <= i)
      /\ \A j \in DOMAIN T : Place(T, j, i) \in 0 .. B - 1
      /\ \/ i < q.nAction /\ IsDuplicate(q, T, i)
         \/ /\ \A j \in DOMAIN T : q.aAction[Place(T, j, i)].lookahead < 0
            /\ OfTerminals(T) => \A k \in 0 .. B - 1 :
                   q.aAction[k].lookahead \in Terminals => k - q.aAction[k].lookahead # i - mn
      BY <1>1, <1>6, <1>7, PlaceIsGood
<1> HIDE DEF i
<1>9. /\ q.aAction \in Arrays(B) /\ q.nterminal = nterminal
      /\ q \in [nsymbol : {nsymbol}, nterminal : {nterminal}, aAction : Arrays(B), nAction : Nat]
      BY <1>1 DEF IsTable
<1>10. OfTerminals(T) \in BOOLEAN BY DEF OfTerminals
<1>11. /\ Written(q.aAction, T, i) \in Arrays(B)
       /\ \A j \in DOMAIN T : Written(q.aAction, T, i)[Place(T, j, i)] = T[j]
       /\ \A k \in 0 .. B - 1 : (\A j \in DOMAIN T : k # Place(T, j, i)) =>
                                  Written(q.aAction, T, i)[k] = q.aAction[k]
       BY <1>8, <1>9, WrittenEntries
<1>12. /\ Size(q, T, i, OfTerminals(T)) \in Nat
       /\ q.nAction <= Size(q, T, i, OfTerminals(T))
       /\ \A j \in DOMAIN T : Place(T, j, i) < Size(q, T, i, OfTerminals(T))
       /\ OfTerminals(T) => i + nterminal + 1 <= Size(q, T, i, OfTerminals(T))
       BY <1>4, <1>8, <1>9, <1>10, SizeBounds
<1>13. /\ n \in [nsymbol : {nsymbol}, nterminal : {nterminal}, aAction : Arrays(B), nAction : Nat]
       /\ n.aAction = Written(q.aAction, T, i) /\ n.nAction = Size(q, T, i, OfTerminals(T))
       BY <1>2, <1>9, <1>11, <1>12
<1>14. /\ \A j \in DOMAIN T : n.aAction[Place(T, j, i)] = T[j]
       /\ \A k \in 0 .. B - 1 : (\A j \in DOMAIN T : k # Place(T, j, i)) => n.aAction[k] = q.aAction[k]
       BY <1>11, <1>13
<1>15. \A j \in DOMAIN T : /\ T[j].lookahead \in Nat /\ Place(T, j, i) \in 0 .. B - 1
                           /\ Place(T, j, i) - T[j].lookahead = i - mn
                           /\ ~OfTerminals(T) => T[j].lookahead >= nterminal
  <2> TAKE j \in DOMAIN T
  <2>1. T[j].lookahead \in Nat BY TransactionFacts
  <2>2. Place(T, j, i) - T[j].lookahead = i - mn BY <1>8, PlacesDiffer
  <2>3. ~OfTerminals(T) => T[j].lookahead >= nterminal BY TransactionFacts DEF OfTerminals
  <2> QED BY <2>1, <2>2, <2>3, <1>8
\* nothing is overwritten
<1>16. IsTable(n, B)
  <2>1. \A k \in 0 .. B - 1 : n.aAction[k].lookahead >= 0 => k < n.nAction
    <3> SUFFICES ASSUME NEW k \in 0 .. B - 1, n.aAction[k].lookahead >= 0 PROVE k < n.nAction OBVIOUS
    <3>1. CASE \E j \in DOMAIN T : k = Place(T, j, i) BY <3>1, <1>12, <1>13
    <3>2. CASE \A j \in DOMAIN T : k # Place(T, j, i)
      <4>1. k < q.nAction BY <3>2, <1>1, <1>14 DEF IsTable
      <4> QED BY <4>1, <1>4, <1>12, <1>13
    <3> QED BY <3>1, <3>2
  <2> QED BY <2>1, <1>13 DEF IsTable
<1>17. Padded(n, B)
  <2> SUFFICES ASSUME NEW k \in 0 .. B - 1, n.aAction[k].lookahead \in Terminals
               PROVE  /\ k - n.aAction[k].lookahead >= 0
                      /\ k - n.aAction[k].lookahead + nterminal <= n.nAction
      BY DEF Padded
  <2>1. CASE \E j \in DOMAIN T : k = Place(T, j, i)
    <3>1. PICK j \in DOMAIN T : k = Place(T, j, i) BY <2>1
    <3>2. n.aAction[k] = T[j] /\ k - T[j].lookahead = i - mn BY <3>1, <1>14, <1>15
    <3>3. OfTerminals(T) BY <3>2, <1>15, <1>4 DEF Terminals
    <3>4. i + nterminal + 1 <= n.nAction /\ mn <= i /\ mn \in Nat BY <3>3, <1>8, <1>12, <1>13, Extremes
    <3> QED BY <3>2, <3>4, <1>4, <1>8, <1>12, <1>13
  <2>2. CASE \A j \in DOMAIN T : k # Place(T, j, i)
    <3>1. n.aAction[k] = q.aAction[k] BY <2>2, <1>14
    <3>2. /\ k - n.aAction[k].lookahead >= 0
          /\ k - n.aAction[k].lookahead + nterminal <= q.nAction BY <3>1, <1>6 DEF Padded
    <3>3. n.aAction[k].lookahead \in Nat BY DEF Terminals
    <3> QED BY <3>2, <3>3, <1>4, <1>12, <1>13
  <2> QED BY <2>1, <2>2
\* a place that was in use held the same entry before
<1>18. \A j \in DOMAIN T : q.aAction[Place(T, j, i)].lookahead >= 0 => q.aAction[Place(T, j, i)] = T[j]
  <2>1. CASE IsDuplicate(q, T, i) BY <2>1 DEF IsDuplicate
  <2>2. CASE \A j \in DOMAIN T : q.aAction[Place(T, j, i)].lookahead < 0
    <3> SUFFICES ASSUME NEW j \in DOMAIN T, q.aAction[Place(T, j, i)].lookahead >= 0 PROVE FALSE OBVIOUS
    <3>1. q.aAction[Place(T, j, i)].lookahead \in -1 .. nsymbol - 1 BY <1>1, <1>15, Entries
    <3> QED BY <3>1, <2>2, <1>4
  <2> QED BY <2>1, <2>2, <1>8
<1>19. \A k \in 0 .. A - 1 : p.aAction[k].lookahead >= 0 => n.aAction[k] = p.aAction[k]
  <2> SUFFICES ASSUME NEW k \in 0 .. A - 1, p.aAction[k].lookahead >= 0
               PROVE  n.aAction[k] = p.aAction[k] OBVIOUS
  <2>1. k \in 0 .. B - 1 /\ q.aAction[k] = p.aAction[k] BY <1>1
  <2>2. CASE \E j \in DOMAIN T : k = Place(T, j, i) BY <2>1, <2>2, <1>14, <1>18
  <2>3. CASE \A j \in DOMAIN T : k # Place(T, j, i) BY <2>1, <2>3, <1>14
  <2> QED BY <2>2, <2>3
<1>20. \A k \in 0 .. B - 1 : n.aAction[k].lookahead >= 0 =>
           \/ \E j \in DOMAIN T : k = Place(T, j, i)
           \/ k \in 0 .. A - 1 /\ n.aAction[k] = p.aAction[k]
       BY <1>5, <1>14
\* what is found at the offset
<1>21. OfTerminals(T) => \A k \in 0 .. B - 1 :
           n.aAction[k].lookahead \in Terminals /\ k - n.aAction[k].lookahead = i - mn =>
               \E j \in DOMAIN T : k = Place(T, j, i)
  <2> SUFFICES ASSUME OfTerminals(T), NEW k \in 0 .. B - 1, n.aAction[k].lookahead \in Terminals,
                      k - n.aAction[k].lookahead = i - mn, \A j \in DOMAIN T : k # Place(T, j, i)
               PROVE  FALSE
      OBVIOUS
  <2>1. n.aAction[k] = q.aAction[k] BY <1>14
  <2>2. /\ q.aAction[k].lookahead \in Terminals /\ q.aAction[k].lookahead \in Nat
        /\ k - q.aAction[k].lookahead = i - mn
    <3>1. q.aAction[k].lookahead \in Terminals /\ k - q.aAction[k].lookahead = i - mn BY <2>1
    <3> QED BY <3>1, <1>4 DEF Terminals
  <2>3. CASE IsDuplicate(q, T, i)
    <3>1. k \in 0 .. q.nAction - 1 BY <2>2, <1>1, <1>4 DEF IsTable
    <3>2. mn \in Nat BY Extremes
    <3>3. i \in Nat BY <1>8
    <3>4. q.aAction[k].lookahead = k + mn - i
      <4> DEFINE x == q.aAction[k].lookahead
      <4>1. x \in Nat /\ k - x = i - mn BY <2>2
      <4> HIDE DEF x, mn
      <4>2. x = k + mn - i BY <4>1, <3>2, <3>3
      <4> QED BY <4>2 DEF x
    <3> QED BY <2>2, <2>3, <3>1, <3>3, <3>4, <1>4, DuplicateIsExact
  <2>4. CASE ~IsDuplicate(q, T, i) BY <2>1, <2>4, <1>8
  <2> QED BY <2>3, <2>4
<1>22. OfTerminals(T) =>
           \/ \A j \in DOMAIN T : Place(T, j, i) \in 0 .. A - 1 /\ p.aAction[Place(T, j, i)] = T[j]
           \/ \A k \in 0 .. A - 1 : p.aAction[k].lookahead \in Terminals =>
                                      k - p.aAction[k].lookahead # i - mn
  <2>1. CASE IsDuplicate(q, T, i)
    <3>1. \A j \in DOMAIN T : q.aAction[Place(T, j, i)] = T[j] BY <2>1 DEF IsDuplicate
    <3>2. \A j \in DOMAIN T : q.aAction[Place(T, j, i)].lookahead >= 0 BY <3>1, <1>15
    <3> QED BY <3>1, <3>2, <1>5, <1>15
  <2>2. CASE ~IsDuplicate(q, T, i)
    <3>1. \A k \in 0 .. A - 1 : k \in 0 .. B - 1 /\ q.aAction[k] = p.aAction[k] BY <1>1
    <3> QED BY <2>2, <3>1, <1>8
  <2> QED BY <2>1, <2>2
<1>23. Inserted(p, A, n, B, T, i) BY <1>1, <1>8, <1>12, <1>13, <1>14, <1>19, <1>20, <1>21, <1>22 DEF Inserted
<1> QED BY <1>1, <1>3, <1>8, <1>16, <1>17, <1>23

-----------------------------------------------------------------------------
(***************************************************************************)
(* The inductive invariant.  LookupExact is not inductive: it says nothing *)
(* of the entries no call would find, at whose offset the next transaction *)
(* could be put, nor that an index behind all entries is a new offset,     *)
(* which Padded does.                                                      *)
(***************************************************************************)
CallOK(p, A, c) ==
    /\ c.actions \in Transactions
    /\ c.makeItSafe = OfTerminals(c.actions)
    /\ c.offset \in Int
    /\ \A j \in DOMAIN c.actions : 
           /\ c.offset + c.actions[j].lookahead \in 0 .. A - 1
           /\ p.aAction[c.offset + c.actions[j].lookahead] = c.actions[j]

OnlyOwn(p, A, c) ==
    c.makeItSafe => \A k \in 0 .. A - 1 :
        p.aAction[k].lookahead \in Terminals /\ k - p.aAction[k].lookahead = c.offset =>
            p.aAction[k].lookahead \in Lookaheads(c.actions)

InvOf(A) ==
    /\ IsTable(table, A) /\ Padded(table, A)
    /\ \A c \in calls : CallOK(table, A, c) /\ OnlyOwn(table, A, c)

Inv == \E A \in Nat : InvOf(A)

LEMMA InvInit == ActtabInit => Inv
<1> SUFFICES ASSUME ActtabInit PROVE InvOf(0) BY DEF Inv
<1>1. table = [nsymbol |-> nsymbol, nterminal |-> nterminal, aAction |-> << >>, nAction |-> 0] /\ calls = {}
      BY DEF ActtabInit, acttab_alloc
<1>2. << >> \in Arrays(0) BY DEF Arrays
<1>3. IsTable(table, 0) /\ Padded(table, 0) BY <1>1, <1>2 DEF IsTable, Padded
<1> QED BY <1>1, <1>3 DEF InvOf

(* The calls made before. *)
LEMMA EarlierCalls ==
    ASSUME NEW p, NEW A \in Nat, IsTable(p, A), NEW n, NEW B \in Nat, IsTable(n, B),
           NEW T \in Transactions, NEW i \in Nat, Inserted(p, A, n, B, T, i),
           NEW c, CallOK(p, A, c), OnlyOwn(p, A, c)
    PROVE  CallOK(n, B, c) /\ OnlyOwn(n, B, c)
<1>1. c.actions \in Transactions /\ c.makeItSafe = OfTerminals(c.actions) /\ c.offset \in Int BY DEF CallOK
<1>2. \A j \in DOMAIN c.actions : /\ c.actions[j].lookahead \in Nat
                                 /\ c.offset + c.actions[j].lookahead \in 0 .. A - 1
                                 /\ p.aAction[c.offset + c.actions[j].lookahead] = c.actions[j]
      BY <1>1, TransactionFacts DEF CallOK
<1>3. A <= B BY DEF Inserted
<1>4. CallOK(n, B, c)
  <2> SUFFICES ASSUME NEW j \in DOMAIN c.actions
               PROVE  /\ c.offset + c.actions[j].lookahead \in 0 .. B - 1
                      /\ n.aAction[c.offset + c.actions[j].lookahead] = c.actions[j]
      BY <1>1 DEF CallOK
  <2> DEFINE k == c.offset + c.actions[j].lookahead
  <2>1. k \in 0 .. A - 1 /\ p.aAction[k] = c.actions[j] /\ p.aAction[k].lookahead >= 0 BY <1>2
  <2> HIDE DEF k
  <2>2. k \in 0 .. B - 1 /\ n.aAction[k] = c.actions[j] BY <2>1, <1>3 DEF Inserted
  <2> QED BY <2>2 DEF k
<1>5. OnlyOwn(n, B, c)
  <2> SUFFICES ASSUME c.makeItSafe, NEW k \in 0 .. B - 1, n.aAction[k].lookahead \in Terminals,
                      k - n.aAction[k].lookahead = c.offset
               PROVE  n.aAction[k].lookahead \in Lookaheads(c.actions)
      BY DEF OnlyOwn
  <2>1. n.aAction[k].lookahead \in Nat /\ n.aAction[k].lookahead < nterminal
        BY SymbolNumbers DEF Terminals
  <2>2. CASE k \in 0 .. A - 1 /\ n.aAction[k] = p.aAction[k] BY <2>2 DEF OnlyOwn
  <2>3. CASE \E j \in DOMAIN T : k = Place(T, j, i)
    <3>1. PICK j \in DOMAIN T : k = Place(T, j, i) BY <2>3
    <3>2. n.aAction[k] = T[j] BY <3>1 DEF Inserted
    <3>3. OfTerminals(T)
      <4>1. ~OfTerminals(T) => T[j].lookahead >= nterminal BY TransactionFacts DEF OfTerminals
      <4> QED BY <4>1, <3>2, <2>1, SymbolNumbers
    <3>4. c.offset = i - mnLookahead(T) BY <3>1, <3>2, PlacesDiffer
    <3>5. CASE Place(T, j, i) \in 0 .. A - 1 /\ p.aAction[Place(T, j, i)] = T[j]
      BY <3>1, <3>2, <3>5 DEF OnlyOwn
    <3>6. CASE \A l \in 0 .. A - 1 : p.aAction[l].lookahead \in Terminals =>
                                     l - p.aAction[l].lookahead # i - mnLookahead(T)
      \* c itself has an entry at this offset
      <4>1. PICK m : m \in DOMAIN c.actions BY <1>1, TransactionFacts
      <4>2. c.actions[m].lookahead \in Terminals BY <1>1, <4>1 DEF OfTerminals, Lookaheads
      <4> DEFINE l == c.offset + c.actions[m].lookahead
      <4>3. l \in 0 .. A - 1 /\ p.aAction[l] = c.actions[m] /\ l - c.actions[m].lookahead = c.offset
            BY <1>1, <1>2, <4>1
      <4> HIDE DEF l
      <4> QED BY <3>4, <3>6, <4>2, <4>3
    <3> QED BY <3>3, <3>5, <3>6 DEF Inserted
  <2> QED BY <2>1, <2>2, <2>3 DEF Inserted
<1> QED BY <1>4, <1>5

(* The new call. *)
LEMMA LastCall ==
    ASSUME NEW p, NEW A \in Nat, NEW n, NEW B \in Nat,
           NEW T \in Transactions, NEW i \in Nat, Inserted(p, A, n, B, T, i),
           NEW c, c = [actions |-> T, makeItSafe |-> OfTerminals(T), offset |-> i - mnLookahead(T)]
    PROVE  CallOK(n, B, c) /\ OnlyOwn(n, B, c)
<1>1. c.actions = T /\ c.makeItSafe = OfTerminals(T) /\ c.offset = i - mnLookahead(T) OBVIOUS
<1>2. mnLookahead(T) \in Nat BY Extremes
<1>3. \A j \in DOMAIN T : /\ T[j].lookahead \in Nat
                          /\ Place(T, j, i) = c.offset + T[j].lookahead
  <2> TAKE j \in DOMAIN T
  <2>1. T[j].lookahead \in Nat BY TransactionFacts
  <2> QED BY <2>1, <1>1, <1>2 DEF Place
<1>4. CallOK(n, B, c)
  <2>1. \A j \in DOMAIN T : Place(T, j, i) \in 0 .. B - 1 /\ n.aAction[Place(T, j, i)] = T[j] BY DEF Inserted
  <2>2. \A j \in DOMAIN T : /\ c.offset + T[j].lookahead \in 0 .. B - 1
                            /\ n.aAction[c.offset + T[j].lookahead] = T[j] BY <2>1, <1>3
  <2>3. c.offset \in Int BY <1>1, <1>2
  <2> QED BY <2>2, <2>3, <1>1 DEF CallOK
<1>5. OnlyOwn(n, B, c)
  <2> SUFFICES ASSUME OfTerminals(T), NEW k \in 0 .. B - 1, n.aAction[k].lookahead \in Terminals,
                      k - n.aAction[k].lookahead = i - mnLookahead(T)
               PROVE  n.aAction[k].lookahead \in Lookaheads(T)
      BY <1>1 DEF OnlyOwn
  <2>1. PICK j \in DOMAIN T : k = Place(T, j, i) BY DEF Inserted
  <2>2. n.aAction[k] = T[j] BY <2>1 DEF Inserted
  <2> QED BY <2>2 DEF Lookaheads
<1> QED BY <1>4, <1>5

LEMMA InvNext == Inv /\ [ActtabNext]_<< table, calls >> => Inv'
<1> SUFFICES ASSUME Inv, [ActtabNext]_<< table, calls >> PROVE Inv' OBVIOUS
<1>1. PICK A \in Nat : InvOf(A) BY DEF Inv
<1>2. CASE UNCHANGED << table, calls >> 
  <2>1. InvOf(A)' BY <1>1, <1>2 DEF InvOf
  <2> QED BY <2>1 DEF Inv
<1>3. CASE ActtabNext
  <2>1. PICK T \in Transactions : Insert(T) BY <1>3 DEF ActtabNext
  <2> DEFINE c == [actions |-> T, makeItSafe |-> OfTerminals(T),
                   offset |-> acttab_insert(table, T, OfTerminals(T)).offset]
  <2>2. table' = acttab_insert(table, T, OfTerminals(T)).table /\ calls' = calls \cup {c}
        BY <2>1 DEF Insert, OfTerminals
  <2>3. PICK B \in Nat, i \in Nat : /\ acttab_insert(table, T, OfTerminals(T)).offset = i - mnLookahead(T)
                                  /\ IsTable(table', B) /\ Padded(table', B)
                                  /\ Inserted(table, A, table', B, T, i)
        BY <1>1, <2>2, InsertResult DEF InvOf
  <2>4. c = [actions |-> T, makeItSafe |-> OfTerminals(T), offset |-> i - mnLookahead(T)] BY <2>3
  <2>5. \A d \in calls : CallOK(table', B, d) /\ OnlyOwn(table', B, d)
        BY <1>1, <2>3, EarlierCalls DEF InvOf
  <2> HIDE DEF c
  <2>6. CallOK(table', B, c) /\ OnlyOwn(table', B, c) BY <2>3, <2>4, LastCall
  <2>7. InvOf(B)' BY <2>2, <2>3, <2>5, <2>6 DEF InvOf
  <2> QED BY <2>7 DEF Inv
<1> QED BY <1>2, <1>3

THEOREM InvAlways == ActtabSpec => []Inv
<1> QED BY InvInit, InvNext, PTL DEF ActtabSpec

-----------------------------------------------------------------------------
(* Whatever is inserted in whatever order, the parser finds the actions of a
   state at its offset, and for a terminal without an action nothing. *)
THEOREM LookupIsExact == ActtabSpec => []LookupExact
<1>1. Inv => LookupExact
  <2> SUFFICES ASSUME NEW A \in Nat, InvOf(A), NEW c \in calls
               PROVE  OwnFound(c) /\ (c.makeItSafe => OthersNotFound(c))
      BY DEF Inv, LookupExact
  <2>1. IsTable(table, A) /\ CallOK(table, A, c) /\ OnlyOwn(table, A, c) BY DEF InvOf
  <2>2. DOMAIN table.aAction = 0 .. A - 1 BY <2>1, ArraySize
  <2>3. OwnFound(c)
    <3> SUFFICES ASSUME NEW j \in DOMAIN c.actions
                 PROVE  /\ Found(c, c.actions[j].lookahead)
                        /\ table.aAction[c.offset + c.actions[j].lookahead] = c.actions[j]
        BY DEF OwnFound
    <3> DEFINE k == c.offset + c.actions[j].lookahead
    <3>1. k \in 0 .. A - 1 /\ table.aAction[k] = c.actions[j] BY <2>1 DEF CallOK
    <3>2. table.aAction[k].lookahead >= 0 BY <2>1, <3>1, TransactionFacts DEF CallOK
    <3> HIDE DEF k
    <3>3. k < table.nAction BY <2>1, <3>1, <3>2 DEF IsTable
    <3> QED BY <2>2, <3>1, <3>3 DEF Found, k
  <2>4. ASSUME c.makeItSafe, NEW x \in Terminals \ Lookaheads(c.actions), Found(c, x) PROVE FALSE
    <3> DEFINE k == c.offset + x
    <3>1. k \in 0 .. A - 1 /\ table.aAction[k].lookahead = x BY <2>2, <2>4 DEF Found
    <3>2. c.offset \in Int /\ x \in Int BY <2>1, SymbolNumbers DEF CallOK, Terminals
    <3>3. k - x = c.offset BY <3>2
    <3> HIDE DEF k
    <3> QED BY <2>1, <2>4, <3>1, <3>3 DEF OnlyOwn
  <2>5. c.makeItSafe => OthersNotFound(c)
    <3>1. ASSUME c.makeItSafe PROVE \A x \in Terminals \ Lookaheads(c.actions) : ~Found(c, x) BY <2>4, <3>1
    <3>2. ASSUME c.makeItSafe PROVE OthersNotFound(c) BY <3>1, <3>2 DEF OthersNotFound, Symbols
    <3> QED BY <3>2
  <2> QED BY <2>3, <2>5
<1> QED BY <1>1, InvAlways, PTL

(* The offset of a state plus any terminal is inside the table, so that the
   parser needs no test before it reads the entry. *)
THEOREM OffsetsStaySafe == ActtabSpec => []OffsetsAreSafe
<1>1. Inv => OffsetsAreSafe
  <2> SUFFICES ASSUME NEW A \in Nat, InvOf(A), NEW c \in calls, c.makeItSafe, NEW x \in Terminals
               PROVE  c.offset + x \in 0 .. table.nAction - 1
      BY DEF Inv, OffsetsAreSafe
  <2>1. IsTable(table, A) /\ Padded(table, A) /\ CallOK(table, A, c) BY DEF InvOf
  <2>2. PICK j : j \in DOMAIN c.actions BY <2>1, TransactionFacts DEF CallOK
  <2> DEFINE y == c.actions[j].lookahead
             k == c.offset + y
  <2>3. k \in 0 .. A - 1 /\ table.aAction[k].lookahead = y BY <2>1, <2>2 DEF CallOK
  <2>4. y \in Terminals BY <2>1, <2>2 DEF CallOK, OfTerminals, Lookaheads
  <2>5. c.offset \in Int /\ y \in Nat /\ k - y = c.offset
    <3>1. c.offset \in Int BY <2>1 DEF CallOK
    <3>2. y \in Nat BY <2>4, SymbolNumbers DEF Terminals
    <3> HIDE DEF y
    <3> QED BY <3>1, <3>2
  <2> HIDE DEF y, k
  <2>6. c.offset >= 0 /\ c.offset + nterminal <= table.nAction
        BY <2>1, <2>3, <2>4, <2>5 DEF Padded
  <2>7. x \in Nat /\ x < nterminal /\ nterminal \in Nat /\ table.nAction \in Nat
        BY <2>1, SymbolNumbers DEF Terminals, IsTable
  <2> QED BY <2>5, <2>6, <2>7
<1> QED BY <1>1, InvAlways, PTL
=============================================================================
