-------------------------- MODULE ByaccMkparProofs --------------------------
(***************************************************************************)
(* Proofs about the LR(0) automaton and the parse actions of byacc, for    *)
(* every grammar.                                                          *)
(*                                                                         *)
(* First numbers, and InOrder(), which sorts whatever the generator sorts; *)
(* then the items and the states; then the strings a grammar derives; then *)
(* what remove_conflicts() leaves of a list of actions, and what it        *)
(* counts.                                                                 *)
(***************************************************************************)
EXTENDS ByaccMkpar, FiniteSetTheorems, SequenceTheorems, WellFoundedInduction, TLAPS

-----------------------------------------------------------------------------
(* The least and the greatest member of a bounded set of numbers. *)
Below == OpToRel(<, Nat)

LEMMA LeastExists ==
    ASSUME NEW S \in SUBSET Nat, S # {}
    PROVE  \E m \in S : \A x \in S : m <= x
<1>1. IsWellFoundedOn(Below, Nat) BY NatLessThanWellFounded DEF Below
<1>2. PICK m \in S : \A x \in S : << x, m >> \notin Below BY <1>1, WFMin
<1>3. \A x \in S : << x, m >> \in Nat \X Nat /\ << x, m >>[1] = x /\ << x, m >>[2] = m OBVIOUS
<1>4. \A x \in S : ~(x < m) BY <1>2, <1>3 DEF Below, OpToRel
<1>5. \A x \in S : m <= x BY <1>4
<1> QED BY <1>5

LEMMA GreatestExists ==
    ASSUME NEW S \in SUBSET Nat, S # {}, NEW n \in Nat, \A x \in S : x <= n
    PROVE  \E m \in S : \A x \in S : x <= m
<1> DEFINE Down == { n - x : x \in S }
<1>1. Down \in SUBSET Nat /\ Down # {} OBVIOUS
<1>2. PICK d \in Down : \A y \in Down : d <= y BY <1>1, LeastExists
<1>3. PICK m \in S : d = n - m BY <1>2
<1>4. \A x \in S : n - m <= n - x BY <1>2, <1>3
<1>5. \A x \in S : x <= m BY <1>4
<1> QED BY <1>5

LEMMA FiniteGreatest ==
    ASSUME NEW S \in SUBSET Int, S # {}, IsFiniteSet(S)
    PROVE  \E m \in S : \A x \in S : x <= m
<1> DEFINE Above(x) == { y \in S : y > x }
           Counts == { Cardinality(Above(x)) : x \in S }
<1>1. \A x \in S : IsFiniteSet(Above(x)) /\ Cardinality(Above(x)) \in Nat
      BY FS_Subset, FS_CardinalityType
<1>2. Counts \in SUBSET Nat /\ Counts # {} BY <1>1
<1>3. PICK c \in Counts : \A d \in Counts : c <= d BY <1>2, LeastExists
<1>4. PICK m \in S : c = Cardinality(Above(m)) BY <1>3
<1>5. ASSUME NEW x \in S, x > m PROVE FALSE
  <2>1. \A y \in S : y > x => y > m BY <1>4, <1>5
  <2>2. Above(x) \in SUBSET Above(m) BY <2>1
  <2>3. x \in Above(m) /\ x \notin Above(x) BY <1>5
  <2>4. /\ Cardinality(Above(x)) <= Cardinality(Above(m))
        /\ Cardinality(Above(x)) # Cardinality(Above(m)) BY <1>1, <2>2, <2>3, FS_Subset
  <2>5. c <= Cardinality(Above(x)) BY <1>3
  <2> HIDE DEF Above
  <2> QED BY <1>1, <1>4, <1>5, <2>4, <2>5
<1> QED BY <1>5

(* What is computed from step to step can be computed: with it a recursive
   function is known to be what its definition says. *)
Computes(f, first, n, step) == f[0] = first /\ \A k \in 1 .. n : f[k] = step[<< k, f[k - 1] >>]

LEMMA RecursionExists ==
    ASSUME NEW S, NEW first \in S, NEW n \in Nat, NEW step \in [(1 .. n) \X S -> S]
    PROVE  \E f \in [0 .. n -> S] : Computes(f, first, n, step)
<1> DEFINE Upto(m, f) == f[0] = first /\ \A k \in 1 .. m : f[k] = step[<< k, f[k - 1] >>]
           Bad == { m \in 0 .. n : \A f \in [0 .. m -> S] : ~Upto(m, f) }
<1>1. SUFFICES ASSUME n \in Bad PROVE FALSE BY DEF Computes
<1>2. Bad \in SUBSET Nat /\ Bad # {} BY <1>1
<1> HIDE DEF Bad
<1>3. PICK m \in Bad : \A x \in Bad : m <= x BY <1>2, LeastExists
<1>4. m \in 0 .. n /\ \A f \in [0 .. m -> S] : ~Upto(m, f) BY <1>3 DEF Bad
<1>5. m # 0
  <2> SUFFICES ASSUME m = 0 PROVE FALSE OBVIOUS
  <2> DEFINE f == [k \in 0 .. m |-> first]
  <2>1. f \in [0 .. m -> S] /\ f[0] = first BY <1>4
  <2>2. 1 .. m = {} OBVIOUS
  <2> HIDE DEF f
  <2> QED BY <1>4, <2>1, <2>2
<1>6. m - 1 \in 0 .. n /\ ~(m <= m - 1) BY <1>4, <1>5
<1>7. m - 1 \notin Bad BY <1>3, <1>6
<1>8. PICK f \in [0 .. m - 1 -> S] : Upto(m - 1, f) BY <1>6, <1>7 DEF Bad
<1> DEFINE h == [k \in 0 .. m |-> IF k = m THEN step[<< m, f[m - 1] >>] ELSE f[k]]
<1>9. m - 1 \in 0 .. m - 1 /\ m \in 1 .. n BY <1>4, <1>5
<1>10. step[<< m, f[m - 1] >>] \in S BY <1>8, <1>9
<1>11. h \in [0 .. m -> S]
  <2>1. \A k \in 0 .. m : k # m => k \in 0 .. m - 1 BY <1>4
  <2> QED BY <1>8, <1>10, <2>1
<1>12. ASSUME NEW k \in 1 .. m PROVE h[k] = step[<< k, h[k - 1] >>]
  <2>1. k - 1 \in 0 .. m /\ k - 1 # m /\ k \in 0 .. m BY <1>4
  <2>2. h[k - 1] = f[k - 1] BY <2>1
  <2>3. k # m => k \in 1 .. m - 1 /\ h[k] = f[k] BY <1>4, <2>1
  <2> HIDE DEF h
  <2>4. CASE k = m
    <3>1. h[m] = step[<< m, f[m - 1] >>] BY <1>9, <1>4 DEF h
    <3> QED BY <2>2, <2>4, <3>1
  <2>5. CASE k # m BY <1>8, <2>2, <2>3, <2>5
  <2> QED BY <2>4, <2>5
<1>13. h[0] = first BY <1>4, <1>5, <1>8
<1> HIDE DEF h
<1> QED BY <1>4, <1>11, <1>12, <1>13

-----------------------------------------------------------------------------
(* A finite set and a strict total order L, as a set of pairs: the number
   of members before a member is its place. *)
Preceding(S, L, x) == { y \in S : << y, x >> \in L }

IsStrictOrder(S, L) ==
    /\ \A x \in S : << x, x >> \notin L
    /\ \A x, y \in S : x # y => << x, y >> \in L \/ << y, x >> \in L
    /\ \A x, y, z \in S : << x, y >> \in L /\ << y, z >> \in L => << x, z >> \in L

LEMMA RankFacts ==
    ASSUME NEW S, IsFiniteSet(S), NEW L, IsStrictOrder(S, L)
    PROVE  /\ Cardinality(S) \in Nat
           /\ \A x \in S : Cardinality(Preceding(S, L, x)) \in 0 .. Cardinality(S) - 1
           /\ \A x, y \in S : << x, y >> \in L <=>
                 Cardinality(Preceding(S, L, x)) < Cardinality(Preceding(S, L, y))
           /\ \A x, y \in S : Cardinality(Preceding(S, L, x)) = Cardinality(Preceding(S, L, y)) => x = y
           /\ \A k \in 1 .. Cardinality(S) : \E x \in S : Cardinality(Preceding(S, L, x)) = k - 1
<1> DEFINE n == Cardinality(S)
           First(x) == Preceding(S, L, x)
           rank == [x \in S |-> Cardinality(First(x))]
<1>1. n \in Nat BY FS_CardinalityType
<1>2. \A x \in S : First(x) \in SUBSET S /\ IsFiniteSet(First(x)) /\ Cardinality(First(x)) \in Nat
  <2>1. \A x \in S : First(x) \in SUBSET S BY DEF Preceding
  <2> HIDE DEF First
  <2> QED BY <2>1, FS_Subset, FS_CardinalityType
<1>3. ASSUME NEW x \in S, NEW y \in S, << x, y >> \in L
      PROVE  Cardinality(First(x)) < Cardinality(First(y))
  <2>1. First(x) \in SUBSET First(y) BY <1>3 DEF IsStrictOrder, Preceding
  <2>2. x \in First(y) /\ x \notin First(x) BY <1>3 DEF IsStrictOrder, Preceding
  <2> HIDE DEF First
  <2>3. /\ Cardinality(First(x)) <= Cardinality(First(y))
        /\ Cardinality(First(x)) = Cardinality(First(y)) => First(x) = First(y)
    BY <1>2, <2>1, FS_Subset
  <2> QED BY <1>2, <2>2, <2>3
<1>4. \A x \in S : rank[x] \in 0 .. n - 1
  <2>1. \A x \in S : x \notin First(x) BY DEF IsStrictOrder, Preceding
  <2>2. \A x \in S : First(x) # S /\ Cardinality(First(x)) <= n /\ (Cardinality(First(x)) = n => First(x) = S)
    <3> HIDE DEF First, n
    <3> QED BY <1>2, <2>1, FS_Subset DEF n
  <2> HIDE DEF First, n
  <2> QED BY <1>1, <1>2, <2>2
<1>5. \A x, y \in S : rank[x] = rank[y] => x = y
  <2>1. \A x, y \in S : x # y => << x, y >> \in L \/ << y, x >> \in L BY DEF IsStrictOrder
  <2> SUFFICES ASSUME NEW x \in S, NEW y \in S, rank[x] = rank[y], x # y PROVE FALSE OBVIOUS
  <2>2. Cardinality(First(x)) = Cardinality(First(y)) OBVIOUS
  <2> HIDE DEF First
  <2>3. ~(Cardinality(First(x)) < Cardinality(First(y))) /\ ~(Cardinality(First(y)) < Cardinality(First(x)))
    BY <1>2, <2>2
  <2> QED BY <1>3, <2>1, <2>3
<1>6. rank \in Injection(S, 0 .. n - 1)
  <2> HIDE DEF n, First
  <2> QED BY <1>4, <1>5 DEF Injection, IsInjective
<1>7. rank \in Surjection(S, 0 .. n - 1)
  <2>1. IsFiniteSet(0 .. n - 1) /\ Cardinality(0 .. n - 1) = n
    <3>1. 0 \in Int /\ n - 1 \in Int /\ (0 > n - 1 => n = 0) /\ n - 1 - 0 + 1 = n BY <1>1
    <3> HIDE DEF n
    <3> QED BY <3>1, FS_Interval
  <2> HIDE DEF rank
  <2> QED BY <1>6, <2>1, FS_Injection
<1>8. \A k \in 1 .. n : \E x \in S : Cardinality(First(x)) = k - 1
  <2>1. \A k \in 1 .. n : k - 1 \in 0 .. n - 1 BY <1>1
  <2> HIDE DEF n, First
  <2> QED BY <1>7, <2>1 DEF Surjection
<1>9. \A x, y \in S : << x, y >> \in L <=> Cardinality(First(x)) < Cardinality(First(y))
  <2>1. ASSUME NEW x \in S, NEW y \in S, Cardinality(First(x)) < Cardinality(First(y))
        PROVE  << x, y >> \in L
    <3>1. x # y BY <1>2, <2>1
    <3>2. << x, y >> \in L \/ << y, x >> \in L BY <3>1 DEF IsStrictOrder
    <3> HIDE DEF First
    <3> QED BY <1>2, <1>3, <2>1, <3>2
  <2> HIDE DEF First
  <2> QED BY <1>3, <2>1
<1> HIDE DEF n, First
<1>10. \A x \in S : Cardinality(First(x)) \in 0 .. n - 1 BY <1>4
<1>11. \A x, y \in S : Cardinality(First(x)) = Cardinality(First(y)) => x = y BY <1>5
<1> QED BY <1>1, <1>8, <1>9, <1>10, <1>11 DEF n, First

(* The sequence of the members by their places. *)
Sorted(s, S, L) ==
    /\ s \in Seq(S) /\ Len(s) \in Nat
    /\ \A x \in S : \E k \in 1 .. Len(s) : s[k] = x
    /\ \A k, l \in 1 .. Len(s) : k < l <=> << s[k], s[l] >> \in L
    /\ \A k, l \in 1 .. Len(s) : s[k] = s[l] => k = l

LEMMA PlacesFacts ==
    ASSUME NEW S, IsFiniteSet(S), NEW L, IsStrictOrder(S, L),
           NEW s, s \in [1 .. Cardinality(S) -> S],
           \A k \in 1 .. Cardinality(S) : Cardinality(Preceding(S, L, s[k])) = k - 1
    PROVE  Sorted(s, S, L)
<1>1. Cardinality(S) \in Nat BY FS_CardinalityType
<1>2. s \in Seq(S) /\ Len(s) = Cardinality(S) BY <1>1
<1>3. ASSUME NEW x \in S PROVE \E k \in 1 .. Len(s) : s[k] = x
  <2> DEFINE k == Cardinality(Preceding(S, L, x)) + 1
  <2>1. Cardinality(Preceding(S, L, x)) \in 0 .. Cardinality(S) - 1 BY RankFacts
  <2>2. k \in 1 .. Len(s) /\ k - 1 = Cardinality(Preceding(S, L, x)) BY <1>1, <1>2, <2>1
  <2>3. s[k] \in S /\ Cardinality(Preceding(S, L, s[k])) = Cardinality(Preceding(S, L, x))
    <3> HIDE DEF k
    <3> QED BY <1>2, <2>2
  <2>4. s[k] = x BY <2>3, RankFacts
  <2> HIDE DEF k
  <2> QED BY <2>2, <2>4
<1>4. ASSUME NEW k \in 1 .. Len(s), NEW l \in 1 .. Len(s)
      PROVE  (k < l <=> << s[k], s[l] >> \in L) /\ (s[k] = s[l] => k = l)
  <2>1. /\ s[k] \in S /\ s[l] \in S
        /\ Cardinality(Preceding(S, L, s[k])) = k - 1 /\ Cardinality(Preceding(S, L, s[l])) = l - 1
    BY <1>2
  <2>2. << s[k], s[l] >> \in L <=> k - 1 < l - 1 BY <2>1, RankFacts
  <2>3. s[k] = s[l] => k - 1 = l - 1 BY <2>1
  <2>4. k \in Int /\ l \in Int BY <1>1, <1>2
  <2> QED BY <2>2, <2>3, <2>4
<1> QED BY <1>1, <1>2, <1>3, <1>4 DEF Sorted

(* InOrder() of a set of numbers. *)
Increasing(s, S) ==
    /\ s \in Seq(S) /\ Len(s) \in Nat
    /\ \A x \in S : \E k \in 1 .. Len(s) : s[k] = x
    /\ \A k, l \in 1 .. Len(s) : k < l <=> s[k] < s[l]
    /\ \A k, l \in 1 .. Len(s) : s[k] = s[l] => k = l

LEMMA NumbersInOrder ==
    ASSUME NEW S, IsFiniteSet(S), \A x \in S : x \in Int
    PROVE  Increasing(InOrder(S, <), S)
<1> DEFINE s == InOrder(S, <)
<1>0. PICK L : L = { p \in S \X S : p[1] < p[2] } OBVIOUS
<1>1. \A x, y \in S : << x, y >> \in L <=> x < y BY <1>0
<1>2. IsStrictOrder(S, L) BY <1>1 DEF IsStrictOrder
<1>3. \A x \in S : { y \in S : y < x } = Preceding(S, L, x)
  BY <1>1 DEF Preceding
<1>4. \A k \in 1 .. Cardinality(S) : \E x \in S : Cardinality({ y \in S : y < x }) = k - 1
  <2> HIDE DEF s
  <2> SUFFICES ASSUME NEW k \in 1 .. Cardinality(S)
               PROVE  \E x \in S : Cardinality({ y \in S : y < x }) = k - 1
    OBVIOUS
  <2>1. PICK x \in S : Cardinality(Preceding(S, L, x)) = k - 1 BY <1>2, RankFacts
  <2>2. { y \in S : y < x } = Preceding(S, L, x) BY <1>3
  <2> QED BY <2>1, <2>2
<1>5. /\ s = [k \in 1 .. Cardinality(S) |-> s[k]] /\ DOMAIN s = 1 .. Cardinality(S)
      /\ \A k \in 1 .. Cardinality(S) : s[k] \in S /\ Cardinality({ y \in S : y < s[k] }) = k - 1
  <2>1. s = [k \in 1 .. Cardinality(S) |-> CHOOSE x \in S : Cardinality({ y \in S : y < x }) = k - 1]
    BY DEF InOrder
  <2>2. \A k \in 1 .. Cardinality(S) : s[k] = CHOOSE x \in S : Cardinality({ y \in S : y < x }) = k - 1
    BY <2>1
  <2>3. \A k \in 1 .. Cardinality(S) : s[k] \in S /\ Cardinality({ y \in S : y < s[k] }) = k - 1
    <3> HIDE DEF s
    <3> QED BY <1>4, <2>2
  <2> QED BY <2>1, <2>3
<1> HIDE DEF s
<1>6. \A k \in 1 .. Cardinality(S) : s[k] \in S /\ Cardinality(Preceding(S, L, s[k])) = k - 1
  BY <1>3, <1>5
<1>7. Sorted(s, S, L)
  <2>1. s \in [1 .. Cardinality(S) -> S] BY <1>5, <1>6
  <2>2. \A k \in 1 .. Cardinality(S) : Cardinality(Preceding(S, L, s[k])) = k - 1 BY <1>6
  <2> QED BY <1>2, <2>1, <2>2, PlacesFacts
<1>8. \A k, l \in 1 .. Len(s) : k < l <=> s[k] < s[l]
  <2>1. \A k \in 1 .. Len(s) : s[k] \in S BY <1>7 DEF Sorted
  <2> QED BY <1>1, <1>7, <2>1 DEF Sorted
<1>9. Increasing(s, S) BY <1>7, <1>8 DEF Sorted, Increasing
<1> QED BY <1>9 DEF s

(* The image of a finite set. *)
LEMMA ImageFinite ==
    ASSUME NEW S, IsFiniteSet(S), NEW f, DOMAIN f = S
    PROVE  IsFiniteSet({ f[x] : x \in S })
<1> DEFINE h == [x \in S |-> f[x]]
           T == { f[x] : x \in S }
<1>1. h \in Surjection(S, T) BY DEF Surjection
<1> HIDE DEF h, T
<1>2. IsFiniteSet(T) BY <1>1, FS_Surjection
<1> QED BY <1>2 DEF T

-----------------------------------------------------------------------------
(***************************************************************************)
(* The grammar and its items.                                              *)
(***************************************************************************)
ItemsOf(gr) == UNION { { << r, k >> : k \in 0 .. Len(Rhs(gr, r)) } : r \in DOMAIN gr.rules }
Symbol(gr) == 0 .. gr.nsyms - 1

LEMMA RuleFacts ==
    ASSUME NEW gr \in Grammars, NEW r \in DOMAIN gr.rules
    PROVE  /\ r \in Nat /\ r > 1
           /\ gr.rules[r].lhs \in Vars(gr)
           /\ Rhs(gr, r) \in Seq(Symbol(gr)) /\ Len(Rhs(gr, r)) \in Nat
           /\ \A k \in 1 .. Len(Rhs(gr, r)) :
                 /\ Rhs(gr, r)[k] \in Symbol(gr) /\ Rhs(gr, r)[k] # gr.ntokens
                 /\ Rhs(gr, r)[k] = 0 => r = 2 /\ k = 2
           /\ gr.rules[r].lhs = gr.ntokens <=> r = 2
           /\ gr.ntokens \in Nat /\ gr.nsyms \in Nat /\ gr.ntokens + 1 < gr.nsyms /\ gr.ntokens > 1
<1>1. GrammarOK(gr) BY GrammarsAssumption
<1>2. gr.ntokens \in Nat /\ gr.nsyms \in Nat /\ gr.ntokens + 1 < gr.nsyms /\ gr.ntokens > 1
  BY <1>1 DEF GrammarOK
<1>3. r \in Nat /\ r > 1
  <2>1. Cardinality(DOMAIN gr.rules) \in Nat /\ DOMAIN gr.rules = 2 .. Cardinality(DOMAIN gr.rules) + 1
    BY <1>1, FS_CardinalityType DEF GrammarOK
  <2> QED BY <2>1
<1>4. CASE r = 2
  <2>1. gr.rules[r].lhs = gr.ntokens /\ Rhs(gr, r) = << gr.ntokens + 1, 0 >>
    BY <1>1, <1>4 DEF GrammarOK, Rhs
  <2>2. /\ Rhs(gr, r) \in Seq(Symbol(gr)) /\ Len(Rhs(gr, r)) = 2
        /\ Rhs(gr, r)[1] = gr.ntokens + 1 /\ Rhs(gr, r)[2] = 0
    BY <1>2, <2>1 DEF Symbol
  <2>3. gr.ntokens + 1 \in Symbol(gr) /\ 0 \in Symbol(gr) /\ gr.ntokens \in Vars(gr)
    BY <1>2 DEF Symbol, Vars
  <2>4. \A k \in 1 .. 2 : k = 1 \/ k = 2 OBVIOUS
  <2> QED BY <1>2, <1>3, <1>4, <2>1, <2>2, <2>3, <2>4
<1>5. CASE r # 2
  <2>1. gr.rules[r] \in UserRule(gr) BY <1>1, <1>5 DEF GrammarOK
  <2>2. gr.rules[r].lhs \in Vars(gr) /\ gr.rules[r].lhs # gr.ntokens /\ Rhs(gr, r) \in Seq(Usable(gr))
    BY <2>1 DEF UserRule, Rhs
  <2>3. \A x \in Usable(gr) : x \in Symbol(gr) /\ x # gr.ntokens /\ x # 0 BY <1>2 DEF Usable, Symbol
  <2>4. Len(Rhs(gr, r)) \in Nat /\ \A k \in 1 .. Len(Rhs(gr, r)) : Rhs(gr, r)[k] \in Usable(gr) BY <2>2
  <2>5. Rhs(gr, r) \in Seq(Symbol(gr)) BY <2>2, <2>3
  <2> QED BY <1>2, <1>3, <1>5, <2>2, <2>3, <2>4, <2>5
<1> QED BY <1>4, <1>5

LEMMA ItemsFinite ==
    ASSUME NEW gr \in Grammars
    PROVE  IsFiniteSet(ItemsOf(gr)) /\ IsFiniteSet(DOMAIN gr.rules)
<1>1. IsFiniteSet(DOMAIN gr.rules) BY GrammarsAssumption DEF GrammarOK
<1> DEFINE ofRule == [r \in DOMAIN gr.rules |-> { << r, k >> : k \in 0 .. Len(Rhs(gr, r)) }]
<1>2. \A r \in DOMAIN gr.rules : IsFiniteSet(ofRule[r])
  <2> SUFFICES ASSUME NEW r \in DOMAIN gr.rules PROVE IsFiniteSet(ofRule[r]) OBVIOUS
  <2> DEFINE Ks == 0 .. Len(Rhs(gr, r))
             f == [k \in Ks |-> << r, k >>]
  <2>1. 0 \in Int /\ Len(Rhs(gr, r)) \in Int BY RuleFacts
  <2>2. IsFiniteSet(Ks) BY <2>1, FS_Interval
  <2>3. DOMAIN f = Ks OBVIOUS
  <2>4. ofRule[r] = { f[k] : k \in Ks } OBVIOUS
  <2> HIDE DEF f, Ks
  <2>5. IsFiniteSet({ f[k] : k \in Ks }) BY <2>2, <2>3, ImageFinite
  <2> QED BY <2>4, <2>5
<1>3. ItemsOf(gr) = UNION { ofRule[r] : r \in DOMAIN gr.rules } BY DEF ItemsOf
<1>4. DOMAIN ofRule = DOMAIN gr.rules OBVIOUS
<1> HIDE DEF ofRule
<1> DEFINE Sets == { ofRule[r] : r \in DOMAIN gr.rules }
<1>5. IsFiniteSet(Sets) BY <1>1, <1>4, ImageFinite
<1>6. \A T \in Sets : IsFiniteSet(T) BY <1>2
<1>7. ItemsOf(gr) = UNION Sets BY <1>3
<1> HIDE DEF Sets
<1> QED BY <1>1, <1>5, <1>6, <1>7, FS_UNION

(* The symbol after the dot; a complete item has minus its rule instead. *)
LEMMA ItemFacts ==
    ASSUME g \in Grammars, NEW it \in ItemsOf(g)
    PROVE  /\ it = << it[1], it[2] >> /\ it[1] \in DOMAIN g.rules /\ it[2] \in 0 .. Len(Rhs(g, it[1]))
           /\ NextSymbol(it) \in Int /\ NextSymbol(it) < g.nsyms
           /\ NextSymbol(it) >= 0 =>
                 /\ it[2] < Len(Rhs(g, it[1]))
                 /\ NextSymbol(it) = Rhs(g, it[1])[it[2] + 1]
                 /\ << it[1], it[2] + 1 >> \in ItemsOf(g)
           /\ NextSymbol(it) < 0 => it[2] = Len(Rhs(g, it[1])) /\ NextSymbol(it) = -it[1]
<1>1. it = << it[1], it[2] >> /\ it[1] \in DOMAIN g.rules /\ it[2] \in 0 .. Len(Rhs(g, it[1]))
  BY DEF ItemsOf
<1>2. /\ it[1] \in Nat /\ it[1] > 1 /\ Len(Rhs(g, it[1])) \in Nat /\ g.nsyms \in Nat
      /\ \A k \in 1 .. Len(Rhs(g, it[1])) : Rhs(g, it[1])[k] \in Symbol(g)
  BY <1>1, RuleFacts
<1>3. CASE it[2] < Len(Rhs(g, it[1]))
  <2>1. it[2] + 1 \in 1 .. Len(Rhs(g, it[1])) /\ it[2] + 1 \in 0 .. Len(Rhs(g, it[1])) BY <1>1, <1>2, <1>3
  <2>2. NextSymbol(it) = Rhs(g, it[1])[it[2] + 1] BY <1>3 DEF NextSymbol
  <2>3. NextSymbol(it) \in Symbol(g) BY <1>2, <2>1, <2>2
  <2>4. NextSymbol(it) \in Int /\ NextSymbol(it) < g.nsyms /\ ~(NextSymbol(it) < 0)
    BY <1>2, <2>3 DEF Symbol
  <2>5. << it[1], it[2] + 1 >> \in ItemsOf(g) BY <1>1, <2>1 DEF ItemsOf
  <2> QED BY <1>1, <1>3, <2>2, <2>4, <2>5
<1>4. CASE ~(it[2] < Len(Rhs(g, it[1])))
  <2>1. NextSymbol(it) = -it[1] BY <1>4 DEF NextSymbol
  <2>2. NextSymbol(it) \in Int /\ NextSymbol(it) < 0 /\ NextSymbol(it) < g.nsyms BY <1>2, <2>1
  <2>3. it[2] = Len(Rhs(g, it[1])) BY <1>1, <1>2, <1>4
  <2> QED BY <1>1, <2>1, <2>2, <2>3
<1> QED BY <1>3, <1>4

FirstDerivesOK ==
    \A A \in Vars(g) :
        /\ firstDerives[A] \in SUBSET DOMAIN g.rules
        /\ \A r \in firstDerives[A] :
              \/ g.rules[r].lhs = A
              \/ \E s \in firstDerives[A] : Rhs(g, s) # << >> /\ Head(Rhs(g, s)) = g.rules[r].lhs

LEMMA ClosureItems ==
    ASSUME g \in Grammars, FirstDerivesOK, NEW I \in SUBSET ItemsOf(g)
    PROVE  closure(I) \in SUBSET ItemsOf(g)
<1>1. ASSUME NEW it \in I, NextSymbol(it) >= start_symbol
      PROVE  firstDerives[NextSymbol(it)] \in SUBSET DOMAIN g.rules
  <2>1. NextSymbol(it) \in Int /\ NextSymbol(it) < g.nsyms /\ it[1] \in DOMAIN g.rules BY ItemFacts
  <2>2. g.ntokens \in Nat /\ g.nsyms \in Nat BY <2>1, RuleFacts
  <2>3. NextSymbol(it) \in Vars(g) BY <1>1, <2>1, <2>2 DEF Vars, start_symbol
  <2> QED BY <2>3 DEF FirstDerivesOK
<1>2. \A r \in DOMAIN g.rules : << r, 0 >> \in ItemsOf(g)
  <2> SUFFICES ASSUME NEW r \in DOMAIN g.rules PROVE << r, 0 >> \in ItemsOf(g) OBVIOUS
  <2>1. 0 \in 0 .. Len(Rhs(g, r)) BY RuleFacts
  <2> QED BY <2>1 DEF ItemsOf
<1> QED BY <1>1, <1>2 DEF closure

(* What the closure adds follows an item of it. *)
LEMMA ClosureFollows ==
    ASSUME g \in Grammars, FirstDerivesOK, NEW I \in SUBSET ItemsOf(g),
           NEW it \in closure(I), it \notin I
    PROVE  /\ it[1] \in DOMAIN g.rules /\ it = << it[1], 0 >>
           /\ \E x \in closure(I) : NextSymbol(x) = g.rules[it[1]].lhs
<1> DEFINE Begun == { x \in I : NextSymbol(x) >= start_symbol }
           sets == { firstDerives[NextSymbol(x)] : x \in Begun }
<1>0. PICK r \in UNION sets : it = << r, 0 >> BY DEF closure
<1>1. PICK y \in I : NextSymbol(y) >= start_symbol /\ r \in firstDerives[NextSymbol(y)] OBVIOUS
<1>2. NextSymbol(y) \in Vars(g)
  <2>1. NextSymbol(y) \in Int /\ NextSymbol(y) < g.nsyms /\ y[1] \in DOMAIN g.rules BY ItemFacts
  <2>2. g.ntokens \in Nat /\ g.nsyms \in Nat BY <2>1, RuleFacts
  <2> QED BY <1>1, <2>1, <2>2 DEF Vars, start_symbol
<1>3. firstDerives[NextSymbol(y)] \in SUBSET DOMAIN g.rules BY <1>2 DEF FirstDerivesOK
<1>4. y \in closure(I) /\ \A s \in firstDerives[NextSymbol(y)] : << s, 0 >> \in closure(I)
  <2>1. y \in Begun /\ firstDerives[NextSymbol(y)] \in sets BY <1>1
  <2>2. \A s \in firstDerives[NextSymbol(y)] : s \in UNION sets BY <2>1
  <2>3. closure(I) = I \cup { << s, 0 >> : s \in UNION sets } BY DEF closure
  <2> HIDE DEF sets
  <2> QED BY <2>2, <2>3
<1> HIDE DEF sets
<1>5. CASE g.rules[r].lhs # NextSymbol(y)
  <2>1. PICK s \in firstDerives[NextSymbol(y)] : Rhs(g, s) # << >> /\ Head(Rhs(g, s)) = g.rules[r].lhs
    BY <1>1, <1>2, <1>5 DEF FirstDerivesOK
  <2>2. Rhs(g, s) \in Seq(Symbol(g)) BY <1>3, <2>1, RuleFacts
  <2>3. 0 < Len(Rhs(g, s)) /\ Head(Rhs(g, s)) = Rhs(g, s)[0 + 1] BY <2>1, <2>2
  <2>4. NextSymbol(<< s, 0 >>) = g.rules[r].lhs BY <2>1, <2>3 DEF NextSymbol
  <2> QED BY <1>0, <1>1, <1>3, <1>4, <2>1, <2>4
<1> QED BY <1>0, <1>1, <1>3, <1>4, <1>5

(* What is shifted from an item set, and what is reduced. *)
Nexts(J) == { NextSymbol(it) : it \in { x \in J : NextSymbol(x) > 0 } }
Completed(J) == { it[1] : it \in { x \in J : NextSymbol(x) < 0 } }

LEMMA OrderOfShifts ==
    ASSUME g \in Grammars, NEW J \in SUBSET ItemsOf(g)
    PROVE  /\ Increasing(ShiftSymbols(J), Nexts(J))
           /\ Nexts(J) \in SUBSET (1 .. g.nsyms - 1)
<1> DEFINE K == { x \in J : NextSymbol(x) > 0 }
           f == [x \in K |-> NextSymbol(x)]
<1>1. IsFiniteSet(K)
  <2>1. K \in SUBSET ItemsOf(g) OBVIOUS
  <2> HIDE DEF K
  <2> QED BY <2>1, ItemsFinite, FS_Subset
<1>2. Nexts(J) = { f[x] : x \in K } BY DEF Nexts
<1>3. IsFiniteSet(Nexts(J))
  <2>1. DOMAIN f = K OBVIOUS
  <2> HIDE DEF f, K
  <2> QED BY <1>1, <1>2, <2>1, ImageFinite
<1>4. \A x \in Nexts(J) : x \in Int /\ x > 0 /\ x < g.nsyms BY ItemFacts DEF Nexts
<1>5. Nexts(J) \in SUBSET (1 .. g.nsyms - 1)
  <2> SUFFICES ASSUME NEW x \in Nexts(J) PROVE x \in 1 .. g.nsyms - 1 OBVIOUS
  <2>1. PICK it \in J : TRUE BY DEF Nexts
  <2>2. g.nsyms \in Nat BY <2>1, ItemFacts, RuleFacts
  <2> QED BY <1>4, <2>2
<1>6. Increasing(InOrder(Nexts(J), <), Nexts(J)) BY <1>3, <1>4, NumbersInOrder
<1>7. ShiftSymbols(J) = InOrder(Nexts(J), <) BY DEF ShiftSymbols, Nexts
<1> QED BY <1>5, <1>6, <1>7

LEMMA OrderOfReductions ==
    ASSUME g \in Grammars, NEW J \in SUBSET ItemsOf(g)
    PROVE  /\ Increasing(reductions(J), Completed(J))
           /\ Completed(J) \in SUBSET DOMAIN g.rules
<1>1. Completed(J) \in SUBSET DOMAIN g.rules BY ItemFacts DEF Completed
<1>2. IsFiniteSet(Completed(J)) BY <1>1, ItemsFinite, FS_Subset
<1>3. \A x \in Completed(J) : x \in Int BY <1>1, RuleFacts
<1>4. Increasing(InOrder(Completed(J), <), Completed(J)) BY <1>2, <1>3, NumbersInOrder
<1>5. reductions(J) = InOrder(Completed(J), <) BY DEF reductions, Completed
<1> QED BY <1>1, <1>4, <1>5

(* The dots have moved over the symbol. *)
LEMMA KernelFacts ==
    ASSUME g \in Grammars, NEW J \in SUBSET ItemsOf(g), NEW x \in Nexts(J)
    PROVE  /\ Kernel(J, x) \in SUBSET ItemsOf(g) /\ Kernel(J, x) # {}
           /\ \A it \in Kernel(J, x) : it[2] >= 1 /\ Rhs(g, it[1])[it[2]] = x
<1>1. x \in Int /\ x > 0
  <2>1. x \in 1 .. g.nsyms - 1 BY OrderOfShifts
  <2> QED BY <2>1
<1>2. \A y \in J : NextSymbol(y) = x => NextSymbol(y) >= 0 BY <1>1
<1>3. Kernel(J, x) \in SUBSET ItemsOf(g) BY <1>2, ItemFacts DEF Kernel
<1>4. Kernel(J, x) # {} BY DEF Kernel, Nexts
<1>5. ASSUME NEW it \in Kernel(J, x) PROVE it[2] >= 1 /\ Rhs(g, it[1])[it[2]] = x
  <2>1. PICK y \in J : NextSymbol(y) = x /\ it = << y[1], y[2] + 1 >> BY DEF Kernel
  <2>2. NextSymbol(y) = Rhs(g, y[1])[y[2] + 1] /\ y[2] \in Nat BY <1>2, <2>1, ItemFacts
  <2> QED BY <2>1, <2>2
<1> QED BY <1>3, <1>4, <1>5

-----------------------------------------------------------------------------
(***************************************************************************)
(* The closure.  What reflexive_transitive_closure() adds was led to: the  *)
(* last step to it is one of the relation.  Hence a rule is added to an    *)
(* item set only if an item of the closure has its lhs after the dot.      *)
(***************************************************************************)
LedTo(W, M, V) == \A y \in V : \A x \in W[y] : \E c \in V : (c = y \/ c \in W[y]) /\ x \in M[c]

LEMMA ThroughLedTo ==
    ASSUME NEW V, NEW M, NEW W \in [V -> SUBSET V], LedTo(W, M, V), NEW z \in V
    PROVE  Through(W, z, V) \in [V -> SUBSET V] /\ LedTo(Through(W, z, V), M, V)
<1> DEFINE U == Through(W, z, V)
<1>1. U \in [V -> SUBSET V] BY DEF Through
<1>2. \A y \in V : U[y] = IF z \in W[y] THEN W[y] \cup W[z] ELSE W[y] BY DEF Through
<1> HIDE DEF U
<1>3. ASSUME NEW y \in V, NEW x \in U[y] PROVE \E c \in V : (c = y \/ c \in U[y]) /\ x \in M[c]
  <2>1. CASE x \in W[y]
    <3>1. PICK c \in V : (c = y \/ c \in W[y]) /\ x \in M[c] BY <2>1 DEF LedTo
    <3> QED BY <1>2, <3>1
  <2>2. CASE x \notin W[y]
    <3>1. z \in W[y] /\ x \in W[z] BY <1>2, <1>3, <2>2
    <3>2. PICK c \in V : (c = z \/ c \in W[z]) /\ x \in M[c] BY <3>1 DEF LedTo
    <3> QED BY <1>2, <3>1, <3>2
  <2> QED BY <2>1, <2>2
<1> QED BY <1>1, <1>3 DEF LedTo, U

(* Warshall's loop, turn by turn: W[k] is the relation after k turns, and
   every member of V has its turn. *)
Warshall(W, M, V, xs, n) ==
    /\ n \in Nat /\ xs \in [1 .. n -> V] /\ \A x \in V : \E k \in 1 .. n : xs[k] = x
    /\ W[0] = M /\ \A k \in 1 .. n : W[k] = Through(W[k - 1], xs[k], V)

LEMMA WarshallTurns ==
    ASSUME NEW V, IsFiniteSet(V), \A x \in V : x \in Int, NEW M \in [V -> SUBSET V]
    PROVE  \E W, xs, n : Warshall(W, M, V, xs, n) /\ TransitiveClosure(M, V) = W[n]
<1> DEFINE xs == InOrder(V, <)
           n == Cardinality(V)
           S == [V -> SUBSET V]
           step == [p \in (1 .. n) \X S |-> Through(p[2], xs[p[1]], V)]
           Turns(f) == f = [k \in 0 .. n |-> IF k = 0 THEN M
                                             ELSE LET W == f[k - 1] IN Through(W, xs[k], V)]
           upto == CHOOSE f : Turns(f)
<1>1. n \in Nat BY FS_CardinalityType
<1>2. xs \in [1 .. n -> V] /\ \A x \in V : \E k \in 1 .. n : xs[k] = x
  <2>1. Increasing(xs, V) BY NumbersInOrder
  <2>2. Len(xs) = n BY <1>1 DEF InOrder
  <2>3. xs \in Seq(V) BY <2>1 DEF Increasing
  <2> HIDE DEF xs, n
  <2>4. \A k \in 1 .. n : xs[k] \in V BY <2>1, <2>2 DEF Increasing
  <2>5. xs \in [1 .. n -> V] BY <2>2, <2>3, <2>4
  <2>6. \A x \in V : \E k \in 1 .. n : xs[k] = x BY <2>1, <2>2 DEF Increasing
  <2> QED BY <2>5, <2>6
<1> HIDE DEF xs
<1>3. \A k \in 1 .. n : \A W \in S : Through(W, xs[k], V) \in S BY <1>2 DEF Through
<1>4. \E f : Turns(f)
  <2>1. step \in [(1 .. n) \X S -> S] BY <1>3
  <2>2. M \in S OBVIOUS
  <2>3. \A k \in 1 .. n : \A W \in S : step[<< k, W >>] = Through(W, xs[k], V) OBVIOUS
  <2> HIDE DEF step, n, S
  <2>4. PICK f \in [0 .. n -> S] : f[0] = M /\ \A k \in 1 .. n : f[k] = step[<< k, f[k - 1] >>]
    <3>1. \E f \in [0 .. n -> S] : Computes(f, M, n, step) BY <1>1, <2>1, <2>2, RecursionExists
    <3> QED BY <3>1 DEF Computes
  <2>5. \A k \in 0 .. n : k # 0 => k \in 1 .. n /\ k - 1 \in 0 .. n BY <1>1
  <2>6. \A k \in 0 .. n : k # 0 => f[k] = Through(f[k - 1], xs[k], V) BY <2>3, <2>4, <2>5
  <2>7. \A k \in 0 .. n : f[k] = IF k = 0 THEN M ELSE LET W == f[k - 1] IN Through(W, xs[k], V)
    BY <2>4, <2>6
  <2>8. f = [k \in 0 .. n |-> f[k]] BY <2>4
  <2>9. Turns(f) BY <2>7, <2>8
  <2> QED BY <2>9
<1>5. Turns(upto)
  <2> HIDE DEF Turns
  <2> QED BY <1>4
<1>6. upto[0] = M /\ \A k \in 1 .. n : upto[k] = Through(upto[k - 1], xs[k], V)
  <2> HIDE DEF upto
  <2>1. 0 \in 0 .. n /\ \A k \in 1 .. n : k \in 0 .. n /\ k # 0 BY <1>1
  <2> QED BY <1>5, <2>1
<1>7. TransitiveClosure(M, V) = upto[n] BY DEF TransitiveClosure, xs
<1> HIDE DEF upto, n, step, S
<1>8. Warshall(upto, M, V, xs, n) BY <1>1, <1>2, <1>6 DEF Warshall
<1> QED BY <1>7, <1>8

LEMMA ClosureLedTo ==
    ASSUME NEW V, IsFiniteSet(V), \A x \in V : x \in Int, NEW M \in [V -> SUBSET V]
    PROVE  LedTo(TransitiveClosure(M, V), M, V) /\ TransitiveClosure(M, V) \in [V -> SUBSET V]
<1>1. PICK upto, xs, n : Warshall(upto, M, V, xs, n) /\ TransitiveClosure(M, V) = upto[n] BY WarshallTurns
<1>2. n \in Nat /\ \A k \in 1 .. n : xs[k] \in V BY <1>1 DEF Warshall
<1>6. upto[0] = M /\ \A k \in 1 .. n : upto[k] = Through(upto[k - 1], xs[k], V) BY <1>1 DEF Warshall
<1> DEFINE Good(k) == upto[k] \in [V -> SUBSET V] /\ LedTo(upto[k], M, V)
           Bad == { k \in 0 .. n : ~Good(k) }
<1>8. Bad = {}
  <2> SUFFICES ASSUME Bad # {} PROVE FALSE OBVIOUS
  <2>1. Bad \in SUBSET Nat BY <1>2
  <2> HIDE DEF Bad
  <2>2. PICK k \in Bad : \A l \in Bad : k <= l BY <2>1, LeastExists
  <2>3. k \in 0 .. n /\ ~Good(k) BY <2>2 DEF Bad
  <2>4. Good(0) BY <1>6 DEF LedTo
  <2>5. k # 0 BY <2>3, <2>4
  <2>6. k \in 1 .. n /\ k - 1 \in 0 .. n /\ ~(k <= k - 1) BY <1>2, <2>3, <2>5
  <2>7. Good(k - 1) BY <2>2, <2>6 DEF Bad
  <2>8. Good(k) BY <1>2, <1>6, <2>6, <2>7, ThroughLedTo
  <2> QED BY <2>3, <2>8
<1>9. n \in 0 .. n BY <1>2
<1>10. Good(n) BY <1>8, <1>9
<1> QED BY <1>1, <1>10

(* A rule that can come first has the variable on its left, or follows one. *)
LEMMA FirstDerivesLedTo ==
    ASSUME NEW gr \in Grammars, NEW A \in Vars(gr), NEW r \in FirstDerives(gr)[A]
    PROVE  \/ gr.rules[r].lhs = A
           \/ \E s \in FirstDerives(gr)[A] :
                 Rhs(gr, s) # << >> /\ Head(Rhs(gr, s)) = gr.rules[r].lhs
<1> DEFINE V == Vars(gr)
           M == EFF(gr)
           T == TransitiveClosure(M, V)
<1>1. gr.ntokens \in Int /\ gr.nsyms - 1 \in Int
  <2>1. 2 \in DOMAIN gr.rules BY GrammarsAssumption DEF GrammarOK
  <2> QED BY <2>1, RuleFacts
<1>2. IsFiniteSet(V) /\ \A x \in V : x \in Int BY <1>1, FS_Interval DEF Vars
<1>3. M \in [V -> SUBSET V] BY DEF EFF
<1>4. LedTo(T, M, V) /\ T \in [V -> SUBSET V]
  <2> HIDE DEF V, M
  <2> QED BY <1>2, <1>3, ClosureLedTo
<1>5. FirstDerives(gr)[A] = UNION { RulesOf(gr, B) : B \in T[A] \cup {A} }
  BY DEF FirstDerives, ReflexiveTransitiveClosure
<1> HIDE DEF T
<1>6. PICK B \in T[A] \cup {A} : r \in RulesOf(gr, B) BY <1>5
<1>7. gr.rules[r].lhs = B BY <1>6 DEF RulesOf
<1>8. CASE B # A
  <2>1. B \in T[A] BY <1>6, <1>8
  <2>2. PICK c \in V : (c = A \/ c \in T[A]) /\ B \in M[c]
    <3> HIDE DEF V, M
    <3>1. A \in V BY DEF V
    <3> QED BY <1>4, <2>1, <3>1 DEF LedTo
  <2>3. PICK s \in RulesOf(gr, c) : Rhs(gr, s) # << >> /\ Head(Rhs(gr, s)) = B BY <2>2 DEF EFF
  <2>4. s \in FirstDerives(gr)[A] BY <1>5, <2>2, <2>3
  <2> QED BY <1>7, <2>3, <2>4
<1> QED BY <1>7, <1>8

-----------------------------------------------------------------------------
(***************************************************************************)
(* The invariant of lr0().  The states have consecutive numbers; the items *)
(* of a state have their dot behind its accessing symbol; a state that has *)
(* been expanded leads, by each symbol after a dot of its closure and in   *)
(* the order of the symbols, to the state of the kernel; the state that is *)
(* being expanded does so for the symbols no longer pending.               *)
(***************************************************************************)
Numbered == nstates \in Nat /\ nstates >= 1 /\ DOMAIN states = 0 .. nstates - 1

StatesOK ==
    /\ states[0].items = { << r, 0 >> : r \in RulesOf(g, start_symbol) }
    /\ \A n \in DOMAIN states :
          states[n].items \in SUBSET ItemsOf(g) /\ states[n].accessing_symbol \in Symbol(g)
    /\ \A n \in DOMAIN states \ {0} :
          /\ states[n].accessing_symbol > 0 /\ states[n].items # {}
          /\ \A it \in states[n].items :
                it[2] >= 1 /\ Rhs(g, it[1])[it[2]] = states[n].accessing_symbol

Itemset(n) == closure(states[n].items)
Syms(n) == ShiftSymbols(Itemset(n))

ShiftsOf(n) ==
    /\ shift[n] \in Seq(DOMAIN states)
    /\ Len(shift[n]) <= Len(Syms(n))
    /\ \A k \in 1 .. Len(shift[n]) :
          /\ states[shift[n][k]].accessing_symbol = Syms(n)[k]
          /\ states[shift[n][k]].items = Kernel(Itemset(n), Syms(n)[k])

ShiftsOK ==
    /\ \A n \in DOMAIN shift : ShiftsOf(n) /\ (n # this => Len(shift[n]) = Len(Syms(n)))
    /\ pending \in Seq(Int)
    /\ this \in DOMAIN shift =>
          /\ Len(shift[this]) + Len(pending) = Len(Syms(this))
          /\ \A k \in 1 .. Len(pending) : pending[k] = Syms(this)[Len(shift[this]) + k]

RedsOK == \A n \in DOMAIN reds : reds[n] = reductions(Itemset(n))

Expanded == IF phase = "shift" THEN this + 1 ELSE this
ProgressOK ==
    /\ this \in 0 .. nstates
    /\ DOMAIN shift = 0 .. Expanded - 1 /\ DOMAIN reds = 0 .. Expanded - 1
    /\ phase = "shift" => this < nstates
    /\ phase \notin {"expand", "shift"} => this = nstates

AutomatonOK == FirstDerivesOK /\ Numbered /\ StatesOK /\ ShiftsOK /\ RedsOK /\ ProgressOK

LR0Inv ==
    /\ g \in Grammars
    /\ phase = "lr0" => this = 0 /\ pending = << >>
    /\ phase \notin {"lr0", "fatal"} => AutomatonOK

LEMMA LR0Start == LR0Init => LR0Inv
BY DEF LR0Init, LR0Inv

LEMMA ExtendFacts ==
    ASSUME NEW f, NEW n \in Nat, DOMAIN f = 0 .. n - 1, NEW x
    PROVE  /\ DOMAIN Extend(f, x) = 0 .. n
           /\ Extend(f, x)[n] = x
           /\ \A m \in 0 .. n - 1 : Extend(f, x)[m] = f[m]
           /\ Cardinality(0 .. n) = n + 1
<1>1. 0 \in Int /\ n - 1 \in Int /\ n \in Int /\ n - 1 - 0 + 1 = n /\ n - 0 + 1 = n + 1
      /\ (0 > n - 1 => n = 0) /\ ~(0 > n)
  OBVIOUS
<1>2. Cardinality(0 .. n - 1) = n /\ Cardinality(0 .. n) = n + 1 BY <1>1, FS_Interval
<1>3. (0 .. n - 1) \cup {n} = 0 .. n /\ n \notin 0 .. n - 1 OBVIOUS
<1>4. Extend(f, x) = [m \in 0 .. n |-> IF m \in 0 .. n - 1 THEN f[m] ELSE x] BY <1>2, <1>3 DEF Extend
<1> QED BY <1>2, <1>3, <1>4

-----------------------------------------------------------------------------
(* An item set has its facts. *)
LEMMA ItemsetFacts ==
    ASSUME g \in Grammars, FirstDerivesOK, StatesOK, NEW n \in DOMAIN states
    PROVE  /\ Itemset(n) \in SUBSET ItemsOf(g)
           /\ Increasing(Syms(n), Nexts(Itemset(n)))
           /\ Nexts(Itemset(n)) \in SUBSET (1 .. g.nsyms - 1)
           /\ Len(Syms(n)) \in Nat
<1>1. states[n].items \in SUBSET ItemsOf(g) BY DEF StatesOK
<1>2. Itemset(n) \in SUBSET ItemsOf(g) BY <1>1, ClosureItems DEF Itemset
<1>3. Increasing(Syms(n), Nexts(Itemset(n))) /\ Nexts(Itemset(n)) \in SUBSET (1 .. g.nsyms - 1)
  BY <1>2, OrderOfShifts DEF Syms
<1>4. Len(Syms(n)) \in Nat BY <1>3 DEF Increasing
<1> QED BY <1>2, <1>3, <1>4

LEMMA InitializeKeeps ==
    ASSUME LR0Inv, InitializeStates
    PROVE  LR0Inv'
<1>1. /\ g' = g /\ phase = "lr0" /\ phase' = "expand" /\ this' = 0 /\ pending' = << >> /\ g \in Grammars
      /\ firstDerives' = FirstDerives(g)
      /\ states' = [n \in {0} |-> [accessing_symbol |-> 0,
                                   items |-> { << r, 0 >> : r \in RulesOf(g, start_symbol) }]]
      /\ DOMAIN shift' = {} /\ DOMAIN reds' = {}
  BY DEF LR0Inv, InitializeStates
<1>2. FirstDerivesOK'
  <2>1. \A A \in Vars(g) : FirstDerives(g)[A] \in SUBSET DOMAIN g.rules BY DEF FirstDerives, RulesOf
  <2>2. \A A \in Vars(g) : \A r \in FirstDerives(g)[A] :
           \/ g.rules[r].lhs = A
           \/ \E s \in FirstDerives(g)[A] : Rhs(g, s) # << >> /\ Head(Rhs(g, s)) = g.rules[r].lhs
    BY <1>1, FirstDerivesLedTo
  <2> QED BY <1>1, <2>1, <2>2 DEF FirstDerivesOK
<1>3. DOMAIN states' = {0} /\ {0} = 0 .. 0 /\ Cardinality({0}) = 1
  <2>1. DOMAIN states' = {0} BY <1>1
  <2>2. {0} = 0 .. 0 OBVIOUS
  <2>3. Cardinality({0}) = 1 BY FS_Singleton
  <2> QED BY <2>1, <2>2, <2>3
<1>4. Numbered' BY <1>3 DEF Numbered, nstates
<1>5. StatesOK'
  <2>1. \A r \in RulesOf(g, start_symbol) : << r, 0 >> \in ItemsOf(g)
    <3> SUFFICES ASSUME NEW r \in RulesOf(g, start_symbol) PROVE << r, 0 >> \in ItemsOf(g) OBVIOUS
    <3>1. r \in DOMAIN g.rules BY DEF RulesOf
    <3>2. 0 \in 0 .. Len(Rhs(g, r)) BY <1>1, <3>1, RuleFacts
    <3> QED BY <3>1, <3>2 DEF ItemsOf
  <2>2. 0 \in Symbol(g)
    <3>1. 2 \in DOMAIN g.rules BY <1>1, GrammarsAssumption DEF GrammarOK
    <3> QED BY <1>1, <3>1, RuleFacts DEF Symbol
  <2>3. /\ states'[0].items = { << r, 0 >> : r \in RulesOf(g, start_symbol) }
        /\ states'[0].accessing_symbol = 0
    BY <1>1
  <2>4. start_symbol' = start_symbol BY <1>1 DEF start_symbol
  <2> QED BY <1>1, <1>3, <2>1, <2>2, <2>3, <2>4 DEF StatesOK
<1>6. ShiftsOK' /\ RedsOK' BY <1>1 DEF ShiftsOK, RedsOK
<1>7. ProgressOK' BY <1>1, <1>4 DEF ProgressOK, Numbered, Expanded
<1> QED BY <1>1, <1>2, <1>4, <1>5, <1>6, <1>7 DEF LR0Inv, AutomatonOK

(* closure() and what is shifted depend on the state alone. *)
LEMMA SameItemset ==
    ASSUME UNCHANGED << g, firstDerives >>, NEW n, states'[n] = states[n]
    PROVE  /\ Itemset(n)' = Itemset(n) /\ Syms(n)' = Syms(n)
           /\ reductions(Itemset(n))' = reductions(Itemset(n))
           /\ \A x : Kernel(Itemset(n), x)' = Kernel(Itemset(n), x)
<1>1. \A it : NextSymbol(it)' = NextSymbol(it) BY DEF NextSymbol
<1>2. Itemset(n)' = Itemset(n) BY <1>1 DEF Itemset, closure, start_symbol
<1>3. Syms(n)' = Syms(n)
  <2>1. Nexts(Itemset(n))' = Nexts(Itemset(n)) BY <1>1, <1>2 DEF Nexts
  <2>2. Syms(n) = InOrder(Nexts(Itemset(n)), <) BY DEF Syms, ShiftSymbols, Nexts
  <2>3. Syms(n)' = InOrder(Nexts(Itemset(n))', <) BY DEF Syms, ShiftSymbols, Nexts, InOrder
  <2> QED BY <2>1, <2>2, <2>3 DEF InOrder
<1>4. reductions(Itemset(n))' = reductions(Itemset(n))
  <2>1. Completed(Itemset(n))' = Completed(Itemset(n)) BY <1>1, <1>2 DEF Completed
  <2>2. reductions(Itemset(n)) = InOrder(Completed(Itemset(n)), <) BY DEF reductions, Completed
  <2>3. reductions(Itemset(n))' = InOrder(Completed(Itemset(n))', <) BY DEF reductions, Completed, InOrder
  <2> QED BY <2>1, <2>2, <2>3 DEF InOrder
<1>5. \A x : Kernel(Itemset(n), x)' = Kernel(Itemset(n), x) BY <1>1, <1>2 DEF Kernel
<1> QED BY <1>2, <1>3, <1>4, <1>5

(* What has been shifted from a state stays as states are added. *)
Grown == \A m \in DOMAIN states : m \in DOMAIN states' /\ states'[m] = states[m]

LEMMA ShiftsStay ==
    ASSUME UNCHANGED << g, firstDerives >>, Grown, NEW n \in DOMAIN states,
           shift'[n] = shift[n], ShiftsOf(n)
    PROVE  ShiftsOf(n)'
<1>1. states'[n] = states[n] BY DEF Grown
<1>2. /\ Syms(n)' = Syms(n)
      /\ \A x : Kernel(Itemset(n), x)' = Kernel(Itemset(n), x)
  BY <1>1, SameItemset
<1>3. shift[n] \in Seq(DOMAIN states) BY DEF ShiftsOf
<1>4. \A k \in 1 .. Len(shift[n]) : shift[n][k] \in DOMAIN states BY <1>3
<1>5. shift'[n] \in Seq(DOMAIN states') BY <1>3 DEF Grown
<1>6. ASSUME NEW k \in 1 .. Len(shift'[n])
      PROVE  /\ states'[shift'[n][k]].accessing_symbol = Syms(n)'[k]
             /\ states'[shift'[n][k]].items = Kernel(Itemset(n), Syms(n)[k])'
  <2>1. states'[shift[n][k]] = states[shift[n][k]] BY <1>4, <1>6 DEF Grown
  <2>2. /\ states[shift[n][k]].accessing_symbol = Syms(n)[k]
        /\ states[shift[n][k]].items = Kernel(Itemset(n), Syms(n)[k])
    BY <1>6 DEF ShiftsOf
  <2>3. Kernel(Itemset(n), Syms(n)[k])' = Kernel(Itemset(n), Syms(n)[k])
    <3>1. Itemset(n)' = Itemset(n) BY <1>1, SameItemset
    <3> QED BY <1>2, <3>1 DEF Kernel, NextSymbol
  <2> QED BY <1>2, <2>1, <2>2, <2>3
<1>7. Len(shift'[n]) <= Len(Syms(n)') BY <1>2 DEF ShiftsOf
<1> QED BY <1>5, <1>6, <1>7 DEF ShiftsOf

LEMMA ExpandKeeps ==
    ASSUME LR0Inv, Expand
    PROVE  LR0Inv'
<1>1. /\ UNCHANGED << g, firstDerives, states, this >> /\ phase = "expand" /\ phase' = "shift"
      /\ this < nstates /\ shift' = Extend(shift, << >>)
      /\ pending' = Syms(this) /\ reds' = Extend(reds, reductions(Itemset(this)))
      /\ g \in Grammars /\ AutomatonOK
  BY DEF LR0Inv, Expand, Itemset, Syms
<1>2. this \in Nat /\ DOMAIN shift = 0 .. this - 1 /\ DOMAIN reds = 0 .. this - 1 /\ this \in DOMAIN states
  BY <1>1 DEF AutomatonOK, Numbered, ProgressOK, Expanded
<1>3. /\ DOMAIN shift' = 0 .. this /\ shift'[this] = << >>
      /\ DOMAIN reds' = 0 .. this /\ reds'[this] = reductions(Itemset(this))
      /\ \A m \in 0 .. this - 1 : shift'[m] = shift[m] /\ reds'[m] = reds[m]
  <2>1. PICK s, r, x, y, n : s = shift /\ r = reds /\ x = << >> /\ y = reductions(Itemset(this)) /\ n = this OBVIOUS
  <2>2. n \in Nat BY <1>2, <2>1
  <2>3. DOMAIN Extend(s, x) = 0 .. n /\ Extend(s, x)[n] = x /\ \A m \in 0 .. n - 1 : Extend(s, x)[m] = s[m]
    <3>1. DOMAIN s = 0 .. n - 1 BY <1>2, <2>1
    <3> QED BY <2>2, <3>1, ExtendFacts
  <2>4. DOMAIN Extend(r, y) = 0 .. n /\ Extend(r, y)[n] = y /\ \A m \in 0 .. n - 1 : Extend(r, y)[m] = r[m]
    <3>1. DOMAIN r = 0 .. n - 1 BY <1>2, <2>1
    <3> QED BY <2>2, <3>1, ExtendFacts
  <2>5. shift' = Extend(s, x) /\ reds' = Extend(r, y) BY <1>1, <2>1
  <2> QED BY <2>1, <2>3, <2>4, <2>5
<1>4. \A n \in 0 .. this : n \in DOMAIN states BY <1>1, <1>2 DEF AutomatonOK, Numbered
<1>5. \A n \in 0 .. this : n # this => n \in 0 .. this - 1 BY <1>2
<1>6. \A n \in DOMAIN states : Syms(n)' = Syms(n) /\ reductions(Itemset(n))' = reductions(Itemset(n))
  BY <1>1, SameItemset
<1>7. FirstDerivesOK' /\ Numbered' /\ StatesOK'
  BY <1>1 DEF AutomatonOK, FirstDerivesOK, Numbered, nstates, StatesOK, start_symbol
<1>8. RedsOK' BY <1>3, <1>4, <1>5, <1>6, <1>2, <1>1 DEF AutomatonOK, RedsOK
<1>9. ProgressOK' BY <1>1, <1>2, <1>3 DEF AutomatonOK, ProgressOK, Expanded, nstates
<1>10. ASSUME NEW n \in 0 .. this PROVE ShiftsOf(n)' /\ (n # this => Len(shift'[n]) = Len(Syms(n)'))
  <2>1. Len(Syms(n)) \in Nat BY <1>1, <1>4, ItemsetFacts DEF AutomatonOK
  <2>2. CASE n = this
    <3>1. shift'[n] = << >> BY <1>3, <2>2
    <3>2. Len(shift'[n]) <= Len(Syms(n)') BY <1>4, <1>6, <2>1, <3>1
    <3> QED BY <2>2, <3>1, <3>2 DEF ShiftsOf
  <2>3. CASE n # this
    <3>1. shift'[n] = shift[n] /\ n \in DOMAIN shift BY <1>2, <1>3, <1>5, <2>3
    <3>2. ShiftsOf(n) /\ Len(shift[n]) = Len(Syms(n)) BY <1>1, <2>3, <3>1 DEF AutomatonOK, ShiftsOK
    <3>3. Grown BY <1>1 DEF Grown
    <3>4. ShiftsOf(n)' BY <1>1, <1>4, <3>1, <3>2, <3>3, ShiftsStay
    <3> QED BY <1>4, <1>6, <3>1, <3>2, <3>4
  <2> QED BY <2>2, <2>3
<1>11. pending' \in Seq(Int) /\ Len(pending') = Len(Syms(this)')
       /\ \A k \in 1 .. Len(pending') : pending'[k] = Syms(this)'[k]
  <2>1. /\ Increasing(Syms(this), Nexts(Itemset(this)))
        /\ Nexts(Itemset(this)) \in SUBSET (1 .. g.nsyms - 1)
    BY <1>1, <1>2, ItemsetFacts DEF AutomatonOK
  <2>2. Syms(this) \in Seq(Int) BY <2>1 DEF Increasing
  <2>3. Syms(this)' = Syms(this) BY <1>2, <1>6, <1>1 DEF Syms, Itemset
  <2> QED BY <1>1, <2>2, <2>3
<1>12. ShiftsOK'
  <2>1. Len(shift'[this]) = 0 BY <1>3
  <2>2. Len(pending') \in Nat BY <1>11
  <2>3. this' = this BY <1>1
  <2>4. /\ Len(shift'[this]) + Len(pending') = Len(Syms(this)')
        /\ \A k \in 1 .. Len(pending') : pending'[k] = Syms(this)'[Len(shift'[this]) + k]
    BY <1>11, <2>1, <2>2
  <2> QED BY <1>3, <1>10, <1>11, <2>3, <2>4 DEF ShiftsOK
<1> QED BY <1>1, <1>7, <1>8, <1>9, <1>12 DEF LR0Inv, AutomatonOK

(* A pending symbol has been looked up. *)
LEMMA MoveOver ==
    ASSUME NEW S, NEW s \in Seq(S), NEW q \in S, NEW p \in Seq(Int), p # << >>
    PROVE  /\ Append(s, q) \in Seq(S) /\ Len(Append(s, q)) = Len(s) + 1 /\ Append(s, q)[Len(s) + 1] = q
           /\ \A k \in 1 .. Len(s) : Append(s, q)[k] = s[k]
           /\ Tail(p) \in Seq(Int) /\ Len(Tail(p)) = Len(p) - 1 /\ Len(p) >= 1
           /\ \A k \in 1 .. Len(Tail(p)) : Tail(p)[k] = p[k + 1]
           /\ Head(p) = p[1] /\ Len(s) \in Nat /\ Len(p) \in Nat
<1> QED OBVIOUS

LEMMA HeadIsNext ==
    ASSUME LR0Inv, phase = "shift", pending # << >>
    PROVE  /\ AutomatonOK /\ g \in Grammars /\ this \in DOMAIN states /\ this \in DOMAIN shift
           /\ shift[this] \in Seq(DOMAIN states)
           /\ Len(shift[this]) + 1 \in 1 .. Len(Syms(this)) /\ Len(shift[this]) \in Nat
           /\ Len(Syms(this)) \in Nat
           /\ Head(pending) = Syms(this)[Len(shift[this]) + 1]
           /\ Head(pending) \in Nexts(Itemset(this))
           /\ Head(pending) \in Int /\ Head(pending) > 0 /\ Head(pending) < g.nsyms
<1>1. AutomatonOK /\ g \in Grammars BY DEF LR0Inv
<1>2. this \in DOMAIN states /\ this \in DOMAIN shift
  BY <1>1 DEF AutomatonOK, Numbered, ProgressOK, Expanded
<1>3. ShiftsOf(this) /\ pending \in Seq(Int) /\ Len(shift[this]) + Len(pending) = Len(Syms(this))
  BY <1>1, <1>2 DEF AutomatonOK, ShiftsOK
<1>4. shift[this] \in Seq(DOMAIN states) BY <1>3 DEF ShiftsOf
<1>5. Len(pending) \in Nat /\ Len(pending) >= 1 /\ Len(shift[this]) \in Nat /\ Head(pending) = pending[1]
  BY <1>3, <1>4
<1>6. /\ Increasing(Syms(this), Nexts(Itemset(this))) /\ Len(Syms(this)) \in Nat
      /\ Nexts(Itemset(this)) \in SUBSET (1 .. g.nsyms - 1)
  BY <1>1, <1>2, ItemsetFacts DEF AutomatonOK
<1>7. Len(shift[this]) + 1 \in 1 .. Len(Syms(this)) BY <1>3, <1>5, <1>6
<1>8. pending[1] = Syms(this)[Len(shift[this]) + 1] BY <1>1, <1>2, <1>5 DEF AutomatonOK, ShiftsOK
<1>9. Syms(this)[Len(shift[this]) + 1] \in Nexts(Itemset(this)) BY <1>6, <1>7 DEF Increasing
<1>10. g.nsyms \in Nat
  <2>1. 2 \in DOMAIN g.rules BY <1>1, GrammarsAssumption DEF GrammarOK
  <2> QED BY <1>1, <2>1, RuleFacts
<1>11. Head(pending) \in 1 .. g.nsyms - 1 BY <1>5, <1>6, <1>8, <1>9
<1>12. Head(pending) \in Int /\ Head(pending) > 0 /\ Head(pending) < g.nsyms BY <1>10, <1>11
<1> QED BY <1>1, <1>2, <1>4, <1>5, <1>6, <1>7, <1>8, <1>9, <1>12

LEMMA ShiftAppended ==
    ASSUME LR0Inv, phase = "shift", pending # << >>, UNCHANGED << g, phase, firstDerives, reds, this >>,
           Grown, NEW q, q \in DOMAIN states',
           states'[q].items = Kernel(Itemset(this), Head(pending)),
           states'[q].accessing_symbol = Head(pending),
           shift' = [shift EXCEPT ![this] = Append(@, q)], pending' = Tail(pending)
    PROVE  ShiftsOK' /\ RedsOK' /\ DOMAIN shift' = DOMAIN shift
<1> DEFINE len == Len(shift[this])
<1>1. /\ AutomatonOK /\ this \in DOMAIN states /\ this \in DOMAIN shift
      /\ shift[this] \in Seq(DOMAIN states) /\ len \in Nat /\ len + 1 \in 1 .. Len(Syms(this))
      /\ Head(pending) = Syms(this)[len + 1] /\ Len(Syms(this)) \in Nat
  BY HeadIsNext
<1>2. shift'[this] = Append(shift[this], q) /\ DOMAIN shift' = DOMAIN shift
      /\ \A n \in DOMAIN shift : n # this => shift'[n] = shift[n]
  BY <1>1
<1>3. \A n \in DOMAIN shift : n \in DOMAIN states
  BY <1>1 DEF AutomatonOK, Numbered, ProgressOK, Expanded
<1>4. \A n \in DOMAIN states : Syms(n)' = Syms(n) /\ reductions(Itemset(n))' = reductions(Itemset(n))
      /\ Itemset(n)' = Itemset(n)
  BY SameItemset DEF Grown
<1>5. RedsOK'
  <2>1. \A n \in DOMAIN reds : n \in DOMAIN states
    BY <1>1 DEF AutomatonOK, Numbered, ProgressOK, Expanded
  <2> QED BY <1>1, <1>4, <2>1 DEF AutomatonOK, RedsOK
<1>6. pending \in Seq(Int) /\ len + Len(pending) = Len(Syms(this))
      /\ \A k \in 1 .. Len(pending) : pending[k] = Syms(this)[len + k]
  BY <1>1 DEF AutomatonOK, ShiftsOK
<1>7. shift[this] \in Seq(DOMAIN states') BY <1>1 DEF Grown
<1>8. /\ shift'[this] \in Seq(DOMAIN states') /\ Len(shift'[this]) = len + 1 /\ shift'[this][len + 1] = q
      /\ \A k \in 1 .. len : shift'[this][k] = shift[this][k]
      /\ pending' \in Seq(Int) /\ Len(pending') = Len(pending) - 1 /\ Len(pending) >= 1
      /\ \A k \in 1 .. Len(pending') : pending'[k] = pending[k + 1]
      /\ Len(pending) \in Nat
  <2> PICK S, s, p : S = DOMAIN states' /\ s = shift[this] /\ p = pending OBVIOUS
  <2>1. s \in Seq(S) /\ q \in S /\ p \in Seq(Int) /\ p # << >> BY <1>6, <1>7
  <2>2. /\ Append(s, q) \in Seq(S) /\ Len(Append(s, q)) = Len(s) + 1 /\ Append(s, q)[Len(s) + 1] = q
        /\ \A k \in 1 .. Len(s) : Append(s, q)[k] = s[k]
        /\ Tail(p) \in Seq(Int) /\ Len(Tail(p)) = Len(p) - 1 /\ Len(p) >= 1
        /\ \A k \in 1 .. Len(Tail(p)) : Tail(p)[k] = p[k + 1] /\ Len(p) \in Nat
    BY <2>1, MoveOver
  <2>3. Len(p) \in Nat BY <2>1
  <2> QED BY <1>2, <2>2, <2>3
<1>9. ASSUME NEW n \in DOMAIN shift, n # this
      PROVE  ShiftsOf(n)' /\ Len(shift'[n]) = Len(Syms(n)')
  <2>1. ShiftsOf(n) /\ Len(shift[n]) = Len(Syms(n)) BY <1>1, <1>9 DEF AutomatonOK, ShiftsOK
  <2>2. shift'[n] = shift[n] BY <1>2, <1>9
  <2>3. ShiftsOf(n)' BY <1>3, <1>9, <2>1, <2>2, ShiftsStay
  <2> QED BY <1>3, <1>4, <1>9, <2>1, <2>2, <2>3
<1>10. ShiftsOf(this)'
  <2>1. Syms(this)' = Syms(this) /\ Itemset(this)' = Itemset(this)
    BY <1>1, <1>4 DEF Syms, Itemset
  <2>2. ShiftsOf(this) BY <1>1 DEF AutomatonOK, ShiftsOK
  <2>3. ASSUME NEW k \in 1 .. len + 1
        PROVE  /\ states'[shift'[this][k]].accessing_symbol = Syms(this)'[k]
               /\ states'[shift'[this][k]].items = Kernel(Itemset(this), Syms(this)[k])'
    <3>1. Kernel(Itemset(this), Syms(this)[k])' = Kernel(Itemset(this), Syms(this)[k])
      BY <2>1 DEF Kernel, NextSymbol
    <3>2. CASE k = len + 1 BY <1>1, <1>8, <2>1, <3>1, <3>2
    <3>3. CASE k # len + 1
      <4>1. k \in 1 .. len BY <1>1, <3>3
      <4>2. shift[this][k] \in DOMAIN states BY <1>1, <4>1
      <4>3. states'[shift[this][k]] = states[shift[this][k]] BY <4>2 DEF Grown
      <4>4. /\ states[shift[this][k]].accessing_symbol = Syms(this)[k]
            /\ states[shift[this][k]].items = Kernel(Itemset(this), Syms(this)[k])
        BY <2>2, <4>1 DEF ShiftsOf
      <4> QED BY <1>8, <2>1, <3>1, <4>1, <4>3, <4>4
    <3> QED BY <3>2, <3>3
  <2>4. this' = this OBVIOUS
  <2>5. Len(shift'[this]) <= Len(Syms(this)') BY <1>1, <1>8, <2>1
  <2>6. \A k \in 1 .. Len(shift'[this]) :
           /\ states'[shift'[this][k]].accessing_symbol = Syms(this)'[k]
           /\ states'[shift'[this][k]].items = Kernel(Itemset(this), Syms(this)[k])'
    BY <1>8, <2>3
  <2> QED BY <1>8, <2>4, <2>5, <2>6 DEF ShiftsOf
<1>11. /\ Len(shift'[this]) + Len(pending') = Len(Syms(this)')
       /\ \A k \in 1 .. Len(pending') : pending'[k] = Syms(this)'[Len(shift'[this]) + k]
  <2>1. Syms(this)' = Syms(this) BY <1>1, <1>4 DEF Syms, Itemset
  <2>2. Len(shift'[this]) + Len(pending') = Len(Syms(this)) BY <1>1, <1>6, <1>8
  <2>3. ASSUME NEW k \in 1 .. Len(pending') PROVE pending'[k] = Syms(this)[Len(shift'[this]) + k]
    <3>1. k + 1 \in 1 .. Len(pending) /\ len + (k + 1) = len + 1 + k BY <1>1, <1>8
    <3>2. pending[k + 1] = Syms(this)[len + (k + 1)] BY <1>6, <3>1
    <3> HIDE DEF len
    <3> QED BY <1>8, <3>1, <3>2
  <2> QED BY <2>1, <2>2, <2>3
<1>12. ShiftsOK'
  <2>1. \A n \in DOMAIN shift' : ShiftsOf(n)' /\ (n # this => Len(shift'[n]) = Len(Syms(n)'))
    <3> SUFFICES ASSUME NEW n \in DOMAIN shift'
                 PROVE  ShiftsOf(n)' /\ (n # this => Len(shift'[n]) = Len(Syms(n)'))
      OBVIOUS
    <3>1. CASE n = this BY <1>10, <3>1 DEF ShiftsOf, Syms, Itemset
    <3>2. CASE n # this BY <1>2, <1>9, <3>2
    <3> QED BY <3>1, <3>2
  <2> QED BY <1>8, <1>11, <2>1 DEF ShiftsOK
<1> QED BY <1>2, <1>5, <1>12

LEMMA OldStateKeeps ==
    ASSUME LR0Inv, OldState
    PROVE  LR0Inv'
<1>1. /\ phase = "shift" /\ pending # << >> /\ UNCHANGED << g, phase, firstDerives, states, reds, this >>
      /\ pending' = Tail(pending)
  BY DEF OldState
<1>2. PICK q \in 0 .. nstates - 1 :
         /\ states[q].items = Kernel(Itemset(this), Head(pending))
         /\ shift' = [shift EXCEPT ![this] = Append(@, q)]
  BY DEF OldState, SameKernel, Itemset
<1>3. AutomatonOK /\ g \in Grammars /\ this \in DOMAIN states /\ Head(pending) \in Nexts(Itemset(this))
  BY <1>1, HeadIsNext
<1>4. q \in DOMAIN states BY <1>2, <1>3 DEF AutomatonOK, Numbered
<1>5. states[q].accessing_symbol = Head(pending)
  <2>1. Itemset(this) \in SUBSET ItemsOf(g) BY <1>3, ItemsetFacts DEF AutomatonOK
  <2>2. PICK it \in states[q].items : it[2] >= 1 /\ Rhs(g, it[1])[it[2]] = Head(pending)
    BY <1>2, <1>3, <2>1, KernelFacts
  <2>3. q # 0
    <3>1. \A x \in states[0].items : x[2] = 0 BY <1>3 DEF AutomatonOK, StatesOK
    <3> QED BY <2>2, <3>1
  <2> QED BY <1>3, <1>4, <2>2, <2>3 DEF AutomatonOK, StatesOK
<1>6. Grown BY <1>1 DEF Grown
<1>7. /\ states'[q].items = Kernel(Itemset(this), Head(pending)) /\ q \in DOMAIN states'
      /\ states'[q].accessing_symbol = Head(pending)
  BY <1>1, <1>2, <1>4, <1>5
<1>8. ShiftsOK' /\ RedsOK' /\ DOMAIN shift' = DOMAIN shift BY <1>1, <1>2, <1>6, <1>7, ShiftAppended
<1>9. FirstDerivesOK' /\ Numbered' /\ StatesOK' /\ ProgressOK'
  BY <1>1, <1>3, <1>8
     DEF AutomatonOK, FirstDerivesOK, Numbered, nstates, StatesOK, start_symbol, ProgressOK, Expanded
<1> QED BY <1>1, <1>3, <1>8, <1>9 DEF LR0Inv, AutomatonOK

LEMMA NewStateKeeps ==
    ASSUME LR0Inv, NewState
    PROVE  LR0Inv'
<1> DEFINE kernel == Kernel(Itemset(this), Head(pending))
<1>1. /\ phase = "shift" /\ pending # << >> /\ UNCHANGED << g, phase, firstDerives, reds, this >>
      /\ states' = Extend(states, [accessing_symbol |-> Head(pending), items |-> kernel])
      /\ shift' = [shift EXCEPT ![this] = Append(@, nstates)] /\ pending' = Tail(pending)
  BY DEF NewState, Itemset
<1>2. /\ AutomatonOK /\ g \in Grammars /\ this \in DOMAIN states
      /\ Head(pending) \in Nexts(Itemset(this)) /\ Head(pending) \in Int
      /\ Head(pending) > 0 /\ Head(pending) < g.nsyms
  BY <1>1, HeadIsNext
<1>3. nstates \in Nat /\ nstates >= 1 /\ DOMAIN states = 0 .. nstates - 1 BY <1>2 DEF AutomatonOK, Numbered
<1>4. /\ DOMAIN states' = 0 .. nstates
      /\ states'[nstates] = [accessing_symbol |-> Head(pending), items |-> kernel]
      /\ \A m \in 0 .. nstates - 1 : states'[m] = states[m]
      /\ nstates' = nstates + 1
  <2> PICK N, f, x : /\ N = nstates /\ f = states
                     /\ x = [accessing_symbol |-> Head(pending), items |-> kernel]
    OBVIOUS
  <2>1. N \in Nat /\ DOMAIN f = 0 .. N - 1 BY <1>3
  <2>2. /\ DOMAIN Extend(f, x) = 0 .. N /\ Cardinality(0 .. N) = N + 1
        /\ Extend(f, x)[N] = x
        /\ \A m \in 0 .. N - 1 : Extend(f, x)[m] = f[m]
    BY <2>1, ExtendFacts
  <2>3. states' = Extend(f, x) BY <1>1
  <2>4. nstates' = N + 1 BY <2>2, <2>3 DEF nstates
  <2> HIDE DEF kernel
  <2> QED BY <2>2, <2>3, <2>4
<1>5. Grown BY <1>3, <1>4 DEF Grown
<1>6. nstates \in DOMAIN states' BY <1>3, <1>4
<1>7. states'[nstates].items = kernel /\ states'[nstates].accessing_symbol = Head(pending) BY <1>4
<1>8. ShiftsOK' /\ RedsOK' /\ DOMAIN shift' = DOMAIN shift BY <1>1, <1>5, <1>6, <1>7, ShiftAppended
<1>9. FirstDerivesOK' BY <1>1, <1>2 DEF AutomatonOK, FirstDerivesOK
<1>10. Numbered' BY <1>3, <1>4 DEF Numbered
<1>11. StatesOK'
  <2>1. Itemset(this) \in SUBSET ItemsOf(g) BY <1>2, ItemsetFacts DEF AutomatonOK
  <2>2. /\ kernel \in SUBSET ItemsOf(g) /\ kernel # {}
        /\ \A it \in kernel : it[2] >= 1 /\ Rhs(g, it[1])[it[2]] = Head(pending)
    BY <1>2, <2>1, KernelFacts
  <2>3. g.nsyms \in Nat
    <3>1. 2 \in DOMAIN g.rules BY <1>2, GrammarsAssumption DEF GrammarOK
    <3> QED BY <1>2, <3>1, RuleFacts
  <2>4. Head(pending) \in Symbol(g) BY <1>2, <2>3 DEF Symbol
  <2>5. 0 \in DOMAIN states /\ nstates # 0 /\ start_symbol' = start_symbol BY <1>1, <1>3 DEF start_symbol
  <2>6. states'[0].items = { << r, 0 >> : r \in RulesOf(g, start_symbol) }
    BY <1>2, <2>5, <1>3, <1>4 DEF AutomatonOK, StatesOK
  <2>7. ASSUME NEW n \in DOMAIN states'
        PROVE  /\ states'[n].items \in SUBSET ItemsOf(g) /\ states'[n].accessing_symbol \in Symbol(g)
               /\ n # 0 =>
                     /\ states'[n].accessing_symbol > 0 /\ states'[n].items # {}
                     /\ \A it \in states'[n].items :
                           it[2] >= 1 /\ Rhs(g, it[1])[it[2]] = states'[n].accessing_symbol
    <3>1. CASE n = nstates
      <4> HIDE DEF kernel
      <4> QED BY <1>2, <1>7, <2>2, <2>4, <3>1
    <3>2. CASE n # nstates
      <4>1. n \in DOMAIN states /\ states'[n] = states[n] BY <1>3, <1>4, <3>2
      <4> QED BY <1>2, <4>1 DEF AutomatonOK, StatesOK
    <3> QED BY <3>1, <3>2
  <2> QED BY <1>1, <2>5, <2>6, <2>7 DEF StatesOK
<1>12. ProgressOK' BY <1>1, <1>2, <1>3, <1>4, <1>8 DEF AutomatonOK, ProgressOK, Expanded
<1> QED BY <1>1, <1>2, <1>8, <1>9, <1>10, <1>11, <1>12 DEF LR0Inv, AutomatonOK

LEMMA NextOfListKeeps ==
    ASSUME LR0Inv, NextStateOfList
    PROVE  LR0Inv'
<1>1. /\ phase = "shift" /\ phase' = "expand" /\ pending = << >> /\ this' = this + 1
      /\ UNCHANGED << g, firstDerives, states, shift, reds, pending >>
      /\ AutomatonOK /\ g \in Grammars
  BY DEF LR0Inv, NextStateOfList
<1>2. this \in Nat /\ this \in DOMAIN shift /\ this' \notin DOMAIN shift /\ Len(pending) = 0
  BY <1>1 DEF AutomatonOK, Numbered, ProgressOK, Expanded
<1>3. ASSUME NEW n \in DOMAIN shift PROVE n \in DOMAIN states /\ Len(shift[n]) = Len(Syms(n)) /\ ShiftsOf(n)
  <2>1. n \in DOMAIN states BY <1>1, <1>3 DEF AutomatonOK, Numbered, ProgressOK, Expanded
  <2>2. ShiftsOf(n) BY <1>1, <1>3 DEF AutomatonOK, ShiftsOK
  <2>3. shift[n] \in Seq(DOMAIN states) BY <2>2 DEF ShiftsOf
  <2>4. Len(shift[n]) \in Nat BY <2>3
  <2>5. Len(shift[n]) = Len(Syms(n))
    <3>1. CASE n = this BY <1>1, <1>2, <2>4, <3>1 DEF AutomatonOK, ShiftsOK
    <3>2. CASE n # this BY <1>1, <1>3, <3>2 DEF AutomatonOK, ShiftsOK
    <3> QED BY <3>1, <3>2
  <2> QED BY <2>1, <2>2, <2>5
<1>4. Grown BY <1>1 DEF Grown
<1>5. \A n \in DOMAIN shift : ShiftsOf(n)' /\ Len(shift'[n]) = Len(Syms(n)')
  <2> SUFFICES ASSUME NEW n \in DOMAIN shift PROVE ShiftsOf(n)' /\ Len(shift'[n]) = Len(Syms(n)') OBVIOUS
  <2>1. ShiftsOf(n)' BY <1>1, <1>3, <1>4, ShiftsStay
  <2>2. Syms(n)' = Syms(n) BY <1>1, SameItemset
  <2> QED BY <1>1, <1>3, <2>1, <2>2
<1>6. ShiftsOK' BY <1>1, <1>2, <1>5 DEF AutomatonOK, ShiftsOK
<1>7. RedsOK'
  <2>1. \A n \in DOMAIN reds : reductions(Itemset(n))' = reductions(Itemset(n)) BY <1>1, SameItemset
  <2> QED BY <1>1, <2>1 DEF AutomatonOK, RedsOK
<1>8. FirstDerivesOK' /\ Numbered' /\ StatesOK'
  BY <1>1 DEF AutomatonOK, FirstDerivesOK, Numbered, nstates, StatesOK, start_symbol
<1>9. ProgressOK' BY <1>1, <1>2 DEF AutomatonOK, Numbered, nstates, ProgressOK, Expanded
<1> QED BY <1>1, <1>6, <1>7, <1>8, <1>9 DEF LR0Inv, AutomatonOK

(* Nothing of this changes after lr0(). *)
LEMMA AutomatonStays ==
    ASSUME LR0Inv, UNCHANGED << g, firstDerives, states, shift, reds, this, pending >>,
           \/ UNCHANGED phase
           \/ phase' = "fatal"
           \/ LR0Done /\ phase' \notin {"lr0", "shift"}
           \/ phase \notin {"lr0", "fatal", "expand", "shift"} /\ phase' \notin {"lr0", "shift"}
    PROVE  LR0Inv'
<1>1. CASE phase' = "fatal" BY <1>1 DEF LR0Inv
<1>2. CASE phase' = "lr0" BY <1>2 DEF LR0Inv
<1>3. CASE phase' \notin {"lr0", "fatal"}
  <2>1. /\ AutomatonOK /\ g \in Grammars
        /\ phase' = phase \/ (this = nstates /\ phase # "shift" /\ phase' # "shift")
    BY <1>3 DEF LR0Inv, LR0Done, AutomatonOK, ProgressOK
  <2>2. FirstDerivesOK' /\ Numbered' /\ StatesOK'
    BY <2>1 DEF AutomatonOK, FirstDerivesOK, Numbered, nstates, StatesOK, start_symbol
  <2>3. Grown BY DEF Grown
  <2>4. \A n \in DOMAIN shift : n \in DOMAIN states /\ n \in DOMAIN reds
    BY <2>1 DEF AutomatonOK, Numbered, ProgressOK, Expanded
  <2>5. \A n \in DOMAIN shift : ShiftsOf(n)' /\ Syms(n)' = Syms(n)
    <3> SUFFICES ASSUME NEW n \in DOMAIN shift PROVE ShiftsOf(n)' /\ Syms(n)' = Syms(n) OBVIOUS
    <3>1. Syms(n)' = Syms(n) BY SameItemset
    <3>2. ShiftsOf(n) BY <2>1 DEF AutomatonOK, ShiftsOK
    <3>3. ShiftsOf(n)' BY <2>3, <2>4, <3>2, ShiftsStay
    <3> QED BY <3>1, <3>3
  <2>6. ShiftsOK'
    <3>1. \A n \in DOMAIN shift' : ShiftsOf(n)' /\ (n # this => Len(shift'[n]) = Len(Syms(n)'))
      BY <2>1, <2>5 DEF AutomatonOK, ShiftsOK
    <3>2. this \in DOMAIN shift =>
            /\ Len(shift'[this]) + Len(pending') = Len(Syms(this)')
            /\ \A k \in 1 .. Len(pending') : pending'[k] = Syms(this)'[Len(shift'[this]) + k]
      <4> SUFFICES ASSUME this \in DOMAIN shift
                   PROVE  /\ Len(shift'[this]) + Len(pending') = Len(Syms(this)')
                          /\ \A k \in 1 .. Len(pending') : pending'[k] = Syms(this)'[Len(shift'[this]) + k]
        OBVIOUS
      <4>1. Syms(this)' = Syms(this) BY <2>5 DEF Syms, Itemset
      <4> QED BY <2>1, <4>1 DEF AutomatonOK, ShiftsOK
    <3> QED BY <2>1, <3>1, <3>2 DEF AutomatonOK, ShiftsOK
  <2>7. RedsOK'
    <3>1. \A n \in DOMAIN reds : reductions(Itemset(n))' = reductions(Itemset(n)) BY SameItemset
    <3> QED BY <2>1, <3>1 DEF AutomatonOK, RedsOK
  <2>8. ProgressOK' BY <1>3, <2>1 DEF AutomatonOK, Numbered, nstates, ProgressOK, Expanded
  <2> QED BY <1>3, <2>1, <2>2, <2>6, <2>7, <2>8 DEF LR0Inv, AutomatonOK
<1> QED BY <1>1, <1>2, <1>3

LEMMA LR0Step ==
    ASSUME LR0Inv, LR0Next
    PROVE  LR0Inv'
<1>1. CASE TooManyStates BY <1>1, AutomatonStays DEF TooManyStates
<1> QED BY <1>1, InitializeKeeps, ExpandKeeps, OldStateKeeps, NewStateKeeps, NextOfListKeeps DEF LR0Next
-----------------------------------------------------------------------------
(***************************************************************************)
(* The automaton, once it is built: each symbol after a dot leads to one   *)
(* state, and a path from state 0 is what an LR parser has on its stack.   *)
(* An item at the end of a path says what the last symbols of the path     *)
(* are, and which item they began with.                                    *)
(***************************************************************************)
Built == LR0Inv /\ phase \notin {"lr0", "fatal", "expand", "shift"}

Leads(n, q) == \E k \in 1 .. Len(shift[n]) : shift[n][k] = q
Accessing(q) == states[q].accessing_symbol

LEMMA Transitions ==
    ASSUME Built, NEW n \in DOMAIN states
    PROVE  /\ shift[n] \in Seq(DOMAIN states) /\ Len(shift[n]) \in Nat
           /\ \A k \in 1 .. Len(shift[n]) : Leads(n, shift[n][k])
           /\ \A q : Leads(n, q) =>
                 /\ q \in DOMAIN states /\ q # 0
                 /\ Accessing(q) \in Nexts(Itemset(n)) /\ Accessing(q) \in 1 .. g.nsyms - 1
                 /\ states[q].items = Kernel(Itemset(n), Accessing(q))
           /\ \A x \in Nexts(Itemset(n)) : \E q : Leads(n, q) /\ Accessing(q) = x
           /\ \A p, q : Leads(n, p) /\ Leads(n, q) /\ Accessing(p) = Accessing(q) => p = q
           /\ \A k, l \in 1 .. Len(shift[n]) : shift[n][k] = shift[n][l] => k = l
           /\ \A k, l \in 1 .. Len(shift[n]) :
                 k < l <=> Accessing(shift[n][k]) < Accessing(shift[n][l])
<1>1. g \in Grammars /\ AutomatonOK BY DEF Built, LR0Inv
<1>2. n \in DOMAIN shift /\ this \notin DOMAIN shift
  BY <1>1 DEF Built, AutomatonOK, Numbered, ProgressOK, Expanded
<1>3. ShiftsOf(n) /\ Len(shift[n]) = Len(Syms(n)) BY <1>1, <1>2 DEF AutomatonOK, ShiftsOK
<1>4. /\ Itemset(n) \in SUBSET ItemsOf(g)
      /\ Increasing(Syms(n), Nexts(Itemset(n)))
      /\ Nexts(Itemset(n)) \in SUBSET (1 .. g.nsyms - 1)
      /\ Len(Syms(n)) \in Nat
  BY <1>1, ItemsetFacts DEF AutomatonOK
<1>5. shift[n] \in Seq(DOMAIN states) BY <1>3 DEF ShiftsOf
<1>6. ASSUME NEW k \in 1 .. Len(shift[n])
      PROVE  /\ shift[n][k] \in DOMAIN states /\ k \in 1 .. Len(Syms(n))
             /\ Accessing(shift[n][k]) = Syms(n)[k] /\ Syms(n)[k] \in Nexts(Itemset(n))
             /\ states[shift[n][k]].items = Kernel(Itemset(n), Syms(n)[k])
  <2>1. k \in 1 .. Len(Syms(n)) BY <1>3
  <2>2. shift[n][k] \in DOMAIN states BY <1>5
  <2> QED BY <1>3, <1>4, <2>1, <2>2 DEF ShiftsOf, Accessing, Increasing
<1>7. ASSUME NEW q, Leads(n, q)
      PROVE  /\ q \in DOMAIN states /\ q # 0
             /\ Accessing(q) \in Nexts(Itemset(n)) /\ Accessing(q) \in 1 .. g.nsyms - 1
             /\ states[q].items = Kernel(Itemset(n), Accessing(q))
  <2>1. PICK k \in 1 .. Len(shift[n]) : shift[n][k] = q BY <1>7 DEF Leads
  <2>2. /\ q \in DOMAIN states /\ Accessing(q) \in Nexts(Itemset(n))
        /\ states[q].items = Kernel(Itemset(n), Accessing(q))
    BY <1>6, <2>1
  <2>3. q # 0
    <3>1. PICK it \in states[q].items : it[2] >= 1 BY <1>1, <1>4, <2>2, KernelFacts
    <3>2. \A e \in states[0].items : e[2] = 0 BY <1>1 DEF AutomatonOK, StatesOK
    <3> QED BY <3>1, <3>2
  <2> QED BY <1>4, <2>2, <2>3
<1>8. ASSUME NEW x \in Nexts(Itemset(n)) PROVE \E q : Leads(n, q) /\ Accessing(q) = x
  <2>1. PICK k \in 1 .. Len(Syms(n)) : Syms(n)[k] = x BY <1>4 DEF Increasing
  <2>2. k \in 1 .. Len(shift[n]) BY <1>3
  <2>3. Leads(n, shift[n][k]) /\ Accessing(shift[n][k]) = x BY <1>6, <2>1, <2>2 DEF Leads
  <2> QED BY <2>3
<1>9. \A k, l \in 1 .. Len(shift[n]) : Accessing(shift[n][k]) = Accessing(shift[n][l]) => k = l
  BY <1>4, <1>6 DEF Increasing
<1>10. \A k, l \in 1 .. Len(shift[n]) : k < l <=> Accessing(shift[n][k]) < Accessing(shift[n][l])
  <2> SUFFICES ASSUME NEW k \in 1 .. Len(shift[n]), NEW l \in 1 .. Len(shift[n])
               PROVE  k < l <=> Accessing(shift[n][k]) < Accessing(shift[n][l])
    OBVIOUS
  <2>1. k < l <=> Syms(n)[k] < Syms(n)[l] BY <1>4, <1>6 DEF Increasing
  <2>2. Accessing(shift[n][k]) = Syms(n)[k] /\ Accessing(shift[n][l]) = Syms(n)[l] BY <1>6
  <2> QED BY <2>1, <2>2
<1>11. \A p, q : Leads(n, p) /\ Leads(n, q) /\ Accessing(p) = Accessing(q) => p = q
  BY <1>9 DEF Leads
<1>12. Len(shift[n]) \in Nat BY <1>5
<1>13. \A k \in 1 .. Len(shift[n]) : Leads(n, shift[n][k]) BY DEF Leads
<1> QED BY <1>5, <1>7, <1>8, <1>9, <1>10, <1>11, <1>12, <1>13

(* The dot of an item of the closure that is not at the beginning has passed
   the accessing symbol. *)
LEMMA DotPassed ==
    ASSUME Built, NEW n \in DOMAIN states, NEW it \in Itemset(n), it[2] # 0
    PROVE  it \in states[n].items /\ n # 0
<1>1. g \in Grammars /\ FirstDerivesOK /\ StatesOK BY DEF Built, LR0Inv, AutomatonOK
<1>2. states[n].items \in SUBSET ItemsOf(g) BY <1>1 DEF StatesOK
<1>3. it \in states[n].items
  <2>1. it \notin states[n].items => it = << it[1], 0 >> BY <1>1, <1>2, ClosureFollows DEF Itemset
  <2> QED BY <2>1
<1>4. \A x \in states[0].items : x[2] = 0 BY <1>1 DEF StatesOK
<1> QED BY <1>3, <1>4

IsPath(s) ==
    /\ s \in Seq(DOMAIN states) /\ s # << >>
    /\ s[1] = 0
    /\ \A k \in 1 .. Len(s) - 1 : Leads(s[k], s[k + 1])

(* The last k of the first m states of a path were reached by the first k
   symbols of rule r, and the rule could begin before. *)
BegunBefore(s, m, r, k) ==
    /\ k < m
    /\ \A j \in 1 .. k : Accessing(s[m - k + j]) = Rhs(g, r)[j]
    /\ << r, 0 >> \in Itemset(s[m - k])

LEMMA OnPath ==
    ASSUME Built, NEW s, IsPath(s), NEW m \in 1 .. Len(s), NEW k \in Nat, NEW r,
           << r, k >> \in Itemset(s[m])
    PROVE  BegunBefore(s, m, r, k)
<1> DEFINE Bad == { j \in Nat : \E e \in 1 .. Len(s) : << r, j >> \in Itemset(s[e]) /\ ~BegunBefore(s, e, r, j) }
<1>1. g \in Grammars /\ s \in Seq(DOMAIN states) /\ Len(s) \in Nat BY DEF Built, LR0Inv, IsPath
<1>2. Bad = {}
  <2> SUFFICES ASSUME Bad # {} PROVE FALSE OBVIOUS
  <2>1. Bad \in SUBSET Nat OBVIOUS
  <2> HIDE DEF Bad
  <2>2. PICK j \in Bad : \A l \in Bad : j <= l BY <2>1, LeastExists
  <2>3. PICK e \in 1 .. Len(s) : << r, j >> \in Itemset(s[e]) /\ ~BegunBefore(s, e, r, j) /\ j \in Nat
    BY <2>2 DEF Bad
  <2>4. j # 0
    <3> SUFFICES ASSUME j = 0 PROVE FALSE OBVIOUS
    <3>1. e - 0 = e /\ 0 < e /\ 1 .. 0 = {} BY <1>1
    <3> QED BY <2>3, <3>1 DEF BegunBefore
  <2>5. s[e] \in DOMAIN states BY <1>1
  <2>6. << r, j >> \in states[s[e]].items /\ s[e] # 0
    <3> DEFINE it == << r, j >>
    <3>1. it \in Itemset(s[e]) /\ it[2] # 0 BY <2>3, <2>4
    <3> HIDE DEF it
    <3>2. it \in states[s[e]].items /\ s[e] # 0 BY <2>5, <3>1, DotPassed
    <3> QED BY <3>2 DEF it
  <2>7. e # 1 BY <2>6 DEF IsPath
  <2>8. e - 1 \in 1 .. Len(s) - 1 /\ e - 1 \in 1 .. Len(s) /\ e - 1 + 1 = e BY <1>1, <2>7
  <2>9. Leads(s[e - 1], s[e]) BY <2>8 DEF IsPath
  <2>10. s[e - 1] \in DOMAIN states BY <1>1, <2>8
  <2>11. /\ Accessing(s[e]) \in 1 .. g.nsyms - 1
         /\ states[s[e]].items = Kernel(Itemset(s[e - 1]), Accessing(s[e]))
    BY <2>9, <2>10, Transitions
  <2>12. PICK y \in Itemset(s[e - 1]) : NextSymbol(y) = Accessing(s[e]) /\ << r, j >> = << y[1], y[2] + 1 >>
    BY <2>6, <2>11 DEF Kernel
  <2>13. y \in ItemsOf(g) BY <1>1, <2>10, ItemsetFacts DEF Built, LR0Inv, AutomatonOK
  <2>14. y = << y[1], y[2] >> /\ y[2] \in Nat /\ NextSymbol(y) = Rhs(g, y[1])[y[2] + 1]
    <3>1. NextSymbol(y) >= 0 BY <2>11, <2>12
    <3>2. y[1] \in DOMAIN g.rules /\ y[2] \in 0 .. Len(Rhs(g, y[1])) BY <1>1, <2>13, ItemFacts
    <3>3. y = << y[1], y[2] >> /\ NextSymbol(y) = Rhs(g, y[1])[y[2] + 1] BY <1>1, <2>13, <3>1, ItemFacts
    <3>4. Len(Rhs(g, y[1])) \in Nat BY <1>1, <3>2, RuleFacts
    <3> QED BY <3>2, <3>3, <3>4
  <2>15. y[1] = r /\ j = y[2] + 1 BY <2>12
  <2>16. << r, j - 1 >> \in Itemset(s[e - 1]) /\ Accessing(s[e]) = Rhs(g, r)[j] /\ j - 1 \in Nat
    BY <2>12, <2>14, <2>15
  <2>17. BegunBefore(s, e - 1, r, j - 1)
    <3>1. j - 1 \notin Bad BY <2>2, <2>3, <2>16
    <3> QED BY <2>8, <2>16, <3>1 DEF Bad
  <2>18. BegunBefore(s, e, r, j)
    <3>1. (e - 1) - (j - 1) = e - j /\ e \in Nat /\ j \in Nat BY <2>3, <2>8, <1>1
    <3>2. j < e BY <2>17, <3>1 DEF BegunBefore
    <3>3. ASSUME NEW l \in 1 .. j PROVE Accessing(s[e - j + l]) = Rhs(g, r)[l]
      <4>1. CASE l = j
        <5>1. e - j + j = e BY <3>1
        <5> QED BY <2>16, <4>1, <5>1
      <4>2. CASE l # j
        <5>1. l \in 1 .. j - 1 BY <3>1, <4>2
        <5> QED BY <2>17, <3>1, <5>1 DEF BegunBefore
      <4> QED BY <4>1, <4>2
    <3>4. << r, 0 >> \in Itemset(s[e - j]) BY <2>17, <3>1 DEF BegunBefore
    <3> QED BY <3>2, <3>3, <3>4 DEF BegunBefore
  <2> QED BY <2>3, <2>18
<1> QED BY <1>2

(***************************************************************************)
(* A rule that can be reduced at the end of a path: its right-hand side is *)
(* what the path ends with, and the state before has a transition by its   *)
(* left-hand side.  $accept : goal $end is never reduced, for $end is not  *)
(* shifted.                                                                *)
(***************************************************************************)
LEMMA ReduceOnPath ==
    ASSUME Built, NEW s, IsPath(s), NEW r \in Completed(Itemset(s[Len(s)]))
    PROVE  LET m == Len(Rhs(g, r)) IN
           /\ r \in DOMAIN g.rules /\ r # 2 /\ m \in Nat /\ Len(s) \in Nat /\ m < Len(s)
           /\ \A j \in 1 .. m : Accessing(s[Len(s) - m + j]) = Rhs(g, r)[j]
           /\ g.rules[r].lhs \in Nexts(Itemset(s[Len(s) - m]))
<1> DEFINE m == Len(Rhs(g, r))
           p == s[Len(s) - m]
<1>1. g \in Grammars /\ FirstDerivesOK /\ StatesOK /\ s \in Seq(DOMAIN states) /\ Len(s) \in Nat /\ Len(s) >= 1
  BY DEF Built, LR0Inv, AutomatonOK, IsPath
<1>2. s[Len(s)] \in DOMAIN states /\ Len(s) \in 1 .. Len(s) BY <1>1
<1>3. Itemset(s[Len(s)]) \in SUBSET ItemsOf(g) BY <1>1, <1>2, ItemsetFacts
<1>4. PICK it \in Itemset(s[Len(s)]) : NextSymbol(it) < 0 /\ it[1] = r BY DEF Completed
<1>5. r \in DOMAIN g.rules /\ it = << r, m >> BY <1>1, <1>3, <1>4, ItemFacts
<1>6. m \in Nat BY <1>1, <1>5, RuleFacts
<1>7. r # 2
  <2> SUFFICES ASSUME r = 2 PROVE FALSE OBVIOUS
  <2>0. GrammarOK(g) BY <1>1, GrammarsAssumption
  <2>1. Rhs(g, r) = << g.ntokens + 1, 0 >> BY <2>0 DEF GrammarOK, Rhs
  <2>2. m = 2 /\ Rhs(g, r)[2] = 0 BY <2>1
  <2> HIDE DEF m
  <2>3. it[2] = 2 /\ it[1] = r BY <1>4, <1>5, <2>2
  <2>4. it \in states[s[Len(s)]].items /\ s[Len(s)] # 0 BY <1>2, <2>3, DotPassed
  <2>5. Rhs(g, it[1])[it[2]] > 0 BY <1>1, <1>2, <2>4 DEF StatesOK
  <2> QED BY <1>5, <2>2, <2>5
<1>8. BegunBefore(s, Len(s), r, m) BY <1>2, <1>4, <1>5, <1>6, OnPath
<1>9. m < Len(s) /\ << r, 0 >> \in Itemset(p) BY <1>8 DEF BegunBefore
<1>10. Len(s) - m \in 1 .. Len(s) BY <1>1, <1>6, <1>9
<1>11. p \in DOMAIN states BY <1>1, <1>10
<1>12. g.rules[r].lhs \in Nexts(Itemset(p))
  <2> DEFINE x == << r, 0 >>
  <2>1. states[p].items \in SUBSET ItemsOf(g) /\ x[1] = r /\ x[2] = 0 BY <1>1, <1>11 DEF StatesOK
  <2>2. x \notin states[p].items
    <3>1. CASE p = 0
      <4>1. x \in states[0].items => r \in RulesOf(g, start_symbol) BY <1>1 DEF StatesOK
      <4>2. r \notin RulesOf(g, start_symbol) BY <1>1, <1>5, <1>7, RuleFacts DEF RulesOf, start_symbol
      <4> QED BY <3>1, <4>1, <4>2
    <3>2. CASE p # 0
      <4>1. x \in states[p].items => x[2] >= 1 BY <1>1, <1>11, <3>2 DEF StatesOK
      <4> QED BY <2>1, <4>1
    <3> QED BY <3>1, <3>2
  <2>3. x \in closure(states[p].items) BY <1>9 DEF Itemset
  <2> HIDE DEF x
  <2>4. PICK y \in closure(states[p].items) : NextSymbol(y) = g.rules[x[1]].lhs
    BY <1>1, <2>1, <2>2, <2>3, ClosureFollows
  <2>5. g.rules[r].lhs > 0
    <3>1. g.rules[r].lhs \in Vars(g) /\ g.ntokens \in Nat /\ g.ntokens > 1 /\ g.nsyms \in Nat
      BY <1>1, <1>5, RuleFacts
    <3> QED BY <3>1 DEF Vars
  <2> HIDE DEF p
  <2> QED BY <2>1, <2>4, <2>5 DEF Nexts, Itemset
<1>13. \A j \in 1 .. m : Accessing(s[Len(s) - m + j]) = Rhs(g, r)[j] BY <1>8 DEF BegunBefore
<1> QED BY <1>1, <1>5, <1>6, <1>7, <1>9, <1>12, <1>13
-----------------------------------------------------------------------------
(***************************************************************************)
(* The strings that the variables of a grammar derive: what GrammarTheory  *)
(* computes is closed under the rules.                                     *)
(***************************************************************************)
Grows(h, U, op) == h = [S \in SUBSET U |-> IF op[S] \subseteq S THEN S ELSE h[S \cup op[S]]]
Monotonic(U, op) == op \in [SUBSET U -> SUBSET U] /\ \A A, C \in SUBSET U : A \subseteq C => op[A] \subseteq op[C]

(* The sets that are closed under op and include S have this in common. *)
InAllClosed(U, op, S) == { u \in U : \A C \in SUBSET U : S \subseteq C /\ op[C] \subseteq C => u \in C }

LEMMA GrowsExists ==
    ASSUME NEW U, NEW op, Monotonic(U, op)
    PROVE  \E h : Grows(h, U, op)
<1> DEFINE h == [S \in SUBSET U |-> InAllClosed(U, op, S)]
<1>1. ASSUME NEW S \in SUBSET U, op[S] \subseteq S PROVE InAllClosed(U, op, S) = S
  BY <1>1 DEF InAllClosed
<1>2. ASSUME NEW S \in SUBSET U
      PROVE  S \cup op[S] \in SUBSET U /\ InAllClosed(U, op, S) = InAllClosed(U, op, S \cup op[S])
  <2>1. S \cup op[S] \in SUBSET U BY DEF Monotonic
  <2>2. \A C \in SUBSET U : S \subseteq C /\ op[C] \subseteq C <=> S \cup op[S] \subseteq C /\ op[C] \subseteq C
    <3> SUFFICES ASSUME NEW C \in SUBSET U, S \subseteq C, op[C] \subseteq C PROVE op[S] \subseteq C
      OBVIOUS
    <3>1. op[S] \subseteq op[C] BY DEF Monotonic
    <3> QED BY <3>1
  <2> QED BY <2>1, <2>2 DEF InAllClosed
<1>3. ASSUME NEW S \in SUBSET U PROVE h[S] = IF op[S] \subseteq S THEN S ELSE h[S \cup op[S]]
  BY <1>1, <1>2
<1>4. h = [S \in SUBSET U |-> IF op[S] \subseteq S THEN S ELSE h[S \cup op[S]]]
  <2>1. h = [S \in SUBSET U |-> h[S]] OBVIOUS
  <2> HIDE DEF h
  <2> QED BY <1>3, <2>1
<1> QED BY <1>4 DEF Grows

LEMMA GrowsClosed ==
    ASSUME NEW U, NEW op, Monotonic(U, op), NEW V \in SUBSET U, IsFiniteSet(V),
           \A A \in SUBSET U : op[A] \subseteq V, NEW h, Grows(h, U, op)
    PROVE  h[{}] \in SUBSET V /\ op[h[{}]] \subseteq h[{}]
<1> DEFINE Closed(C) == C \in SUBSET V /\ op[C] \subseteq C
           Left(S) == Cardinality(V \ S)
           Bad == { S \in SUBSET V : ~Closed(h[S]) }
           Counts == { Left(S) : S \in Bad }
<1>1. \A S \in SUBSET V : IsFiniteSet(V \ S) /\ Left(S) \in Nat
  BY FS_Subset, FS_CardinalityType
<1>2. SUFFICES ASSUME Bad # {} PROVE FALSE
  <2>1. {} \in SUBSET V OBVIOUS
  <2> QED BY <2>1
<1>3. Counts \in SUBSET Nat /\ Counts # {} BY <1>1, <1>2
<1>4. PICK c \in Counts : \A d \in Counts : c <= d
  <2> HIDE DEF Counts
  <2> QED BY <1>3, LeastExists
<1>5. PICK S \in Bad : c = Left(S) BY <1>4
<1>6. S \in SUBSET V /\ S \in SUBSET U /\ ~Closed(h[S]) OBVIOUS
<1>7. h[S] = IF op[S] \subseteq S THEN S ELSE h[S \cup op[S]] BY <1>6 DEF Grows
<1>8. ~(op[S] \subseteq S) BY <1>6, <1>7
<1>9. PICK S2 : S2 = S \cup op[S] OBVIOUS
<1>10. S2 \in SUBSET V /\ h[S2] = h[S] BY <1>6, <1>7, <1>8, <1>9
<1>11. S2 \in Bad BY <1>6, <1>10
<1>12. PICK u \in op[S] : u \notin S BY <1>8
<1>13. u \in V /\ u \in V \ S /\ u \notin V \ S2 /\ (V \ S2) \in SUBSET (V \ S) BY <1>6, <1>9, <1>12
<1>14. Left(S2) < Left(S)
  <2>1. PICK later, now : later = V \ S2 /\ now = V \ S OBVIOUS
  <2>2. later \in SUBSET now /\ later # now /\ IsFiniteSet(now) BY <1>1, <1>6, <1>13, <2>1
  <2>3. Cardinality(later) < Cardinality(now)
    <3>1. Cardinality(later) <= Cardinality(now) /\ IsFiniteSet(later) BY <2>2, FS_Subset
    <3>2. Cardinality(later) # Cardinality(now) BY <2>2, FS_Subset
    <3>3. Cardinality(later) \in Nat /\ Cardinality(now) \in Nat BY <2>2, <3>1, FS_CardinalityType
    <3> QED BY <3>1, <3>2, <3>3
  <2> QED BY <2>1, <2>3
<1>15. Left(S2) \in Counts BY <1>11
<1>16. c <= Left(S2) BY <1>4, <1>15
<1>17. c = Left(S) /\ Left(S) \in Nat /\ Left(S2) \in Nat BY <1>1, <1>5, <1>6, <1>10
<1> HIDE DEF Left
<1> QED BY <1>14, <1>16, <1>17

LEMMA PartOf ==
    ASSUME NEW S, NEW s \in Seq(S), NEW m \in 1 .. Len(s) + 1, NEW n \in 0 .. Len(s), m <= n + 1
    PROVE  /\ SubSeq(s, m, n) \in Seq(S) /\ Len(SubSeq(s, m, n)) = n - m + 1
           /\ \A k \in 1 .. n - m + 1 : SubSeq(s, m, n)[k] = s[m + k - 1]
OBVIOUS

(* Parts of a word. *)
Piece(w, a, b) == SubSeq(w, a + 1, b)

LEMMA PieceFacts ==
    ASSUME NEW A, NEW w \in Seq(A), NEW b \in 0 .. Len(w), NEW a \in 0 .. b
    PROVE  /\ Piece(w, a, b) \in Seq(A) /\ Len(Piece(w, a, b)) = b - a
           /\ \A q \in 1 .. b - a : Piece(w, a, b)[q] = w[a + q]
<1>1. Len(w) \in Nat OBVIOUS
<1>2. PICK m : m = a + 1 OBVIOUS
<1>3. m \in 1 .. Len(w) + 1 /\ m <= b + 1 /\ b - m + 1 = b - a BY <1>1, <1>2
<1>4. Len(SubSeq(w, m, b)) = b - m + 1 /\ \A q \in 1 .. b - m + 1 : SubSeq(w, m, b)[q] = w[m + q - 1]
  BY <1>1, <1>3, PartOf
<1>5. \A q \in 1 .. b - a : m + q - 1 = a + q BY <1>1, <1>2
<1>6. SubSeq(w, m, b) \in Seq(A)
  <2>1. \A q \in m .. b : q \in 1 .. Len(w) /\ w[q] \in A BY <1>1, <1>3
  <2> QED BY <1>1, <1>3, <2>1
<1> QED BY <1>2, <1>3, <1>4, <1>5, <1>6 DEF Piece

LEMMA JoinFacts ==
    ASSUME NEW A, NEW u \in Seq(A), NEW v \in Seq(A)
    PROVE  /\ u \o v \in Seq(A) /\ Len(u \o v) = Len(u) + Len(v)
           /\ Len(u) \in Nat /\ Len(v) \in Nat
           /\ \A q \in 1 .. Len(u) : (u \o v)[q] = u[q]
           /\ \A q \in 1 .. Len(v) : (u \o v)[Len(u) + q] = v[q]
<1>1. Len(u) \in Nat /\ Len(v) \in Nat OBVIOUS
<1>2. /\ u \o v \in Seq(A) /\ Len(u \o v) = Len(u) + Len(v)
      /\ \A q \in 1 .. Len(u) + Len(v) : (u \o v)[q] = IF q <= Len(u) THEN u[q] ELSE v[q - Len(u)]
  BY ConcatProperties
<1>3. \A q \in 1 .. Len(u) : (u \o v)[q] = u[q]
  <2>1. \A q \in 1 .. Len(u) : q \in 1 .. Len(u) + Len(v) /\ q <= Len(u) BY <1>1
  <2> QED BY <1>2, <2>1
<1>4. \A q \in 1 .. Len(v) : (u \o v)[Len(u) + q] = v[q]
  <2>1. \A q \in 1 .. Len(v) : /\ Len(u) + q \in 1 .. Len(u) + Len(v)
                               /\ ~(Len(u) + q <= Len(u)) /\ Len(u) + q - Len(u) = q
    BY <1>1
  <2> QED BY <1>2, <2>1
<1> QED BY <1>1, <1>2, <1>3, <1>4

LEMMA SameWord ==
    ASSUME NEW A, NEW u \in Seq(A), NEW v \in Seq(A), Len(u) = Len(v), \A q \in 1 .. Len(u) : u[q] = v[q]
    PROVE  u = v
<1>1. u = [q \in 1 .. Len(u) |-> u[q]] /\ v = [q \in 1 .. Len(v) |-> v[q]] OBVIOUS
<1> QED BY <1>1

LEMMA PiecesJoin ==
    ASSUME NEW A, NEW w \in Seq(A), NEW c \in 0 .. Len(w), NEW b \in 0 .. c, NEW a \in 0 .. b
    PROVE  Piece(w, a, b) \o Piece(w, b, c) = Piece(w, a, c)
<1>1. Len(w) \in Nat /\ b \in 0 .. Len(w) /\ a \in 0 .. c OBVIOUS
<1>2. PICK u, v, x : u = Piece(w, a, b) /\ v = Piece(w, b, c) /\ x = Piece(w, a, c) OBVIOUS
<1>3. u \in Seq(A) /\ Len(u) = b - a /\ \A q \in 1 .. b - a : u[q] = w[a + q] BY <1>1, <1>2, PieceFacts
<1>4. v \in Seq(A) /\ Len(v) = c - b /\ \A q \in 1 .. c - b : v[q] = w[b + q] BY <1>2, PieceFacts
<1>5. x \in Seq(A) /\ Len(x) = c - a /\ \A q \in 1 .. c - a : x[q] = w[a + q] BY <1>1, <1>2, PieceFacts
<1>6. /\ u \o v \in Seq(A) /\ Len(u \o v) = Len(u) + Len(v)
      /\ \A q \in 1 .. Len(u) : (u \o v)[q] = u[q]
      /\ \A q \in 1 .. Len(v) : (u \o v)[Len(u) + q] = v[q]
  <2>1. u \in Seq(A) /\ v \in Seq(A) BY <1>3, <1>4
  <2> QED BY <2>1, JoinFacts
<1>7. PICK y : y = u \o v OBVIOUS
<1>8. Len(y) = Len(x)
  <2>1. Len(y) = (b - a) + (c - b) /\ Len(x) = c - a BY <1>3, <1>4, <1>5, <1>6, <1>7
  <2> QED BY <1>1, <2>1
<1>9. ASSUME NEW q \in 1 .. Len(x) PROVE y[q] = x[q]
  <2>1. x[q] = w[a + q] BY <1>5
  <2>2. CASE q <= b - a
    <3>1. q \in 1 .. b - a BY <1>5, <2>2
    <3> QED BY <1>3, <1>6, <1>7, <2>1, <3>1
  <2>3. CASE ~(q <= b - a)
    <3>1. PICK j : j = q - (b - a) OBVIOUS
    <3>2. j \in 1 .. c - b /\ Len(u) + j = q /\ b + j = a + q BY <1>3, <1>5, <2>3, <3>1
    <3>3. y[Len(u) + j] = v[j] BY <1>4, <1>6, <1>7, <3>2
    <3> QED BY <1>4, <2>1, <3>2, <3>3
  <2> QED BY <2>2, <2>3
<1>10. y = x BY <1>5, <1>6, <1>7, <1>8, <1>9, SameWord
<1> QED BY <1>2, <1>7, <1>10

LEMMA CutOffFacts ==
    ASSUME NEW A, NEW w \in Seq(A), NEW k \in Nat
    PROVE  /\ CutOff(w, k) \in Seq(A) /\ Len(CutOff(w, k)) <= k /\ Len(CutOff(w, k)) \in Nat
           /\ Len(w) <= k => CutOff(w, k) = w
<1>1. Len(w) \in Nat OBVIOUS
<1>2. PICK n : n = IF Len(w) < k THEN Len(w) ELSE k OBVIOUS
<1>3. n \in 0 .. Len(w) /\ n <= k /\ (Len(w) <= k => n = Len(w)) BY <1>1, <1>2
<1>4. CutOff(w, k) = Piece(w, 0, n) BY <1>2 DEF CutOff, Piece
<1>5. Piece(w, 0, n) \in Seq(A) /\ Len(Piece(w, 0, n)) = n - 0 /\ \A q \in 1 .. n - 0 : Piece(w, 0, n)[q] = w[0 + q]
  <2>1. 0 \in 0 .. n BY <1>3
  <2> QED BY <1>3, <2>1, PieceFacts
<1>6. n \in Nat /\ n - 0 = n BY <1>1, <1>3
<1>7. ASSUME Len(w) <= k PROVE Piece(w, 0, n) = w
  <2>1. n = Len(w) BY <1>3, <1>7
  <2>2. PICK u : u = Piece(w, 0, n) OBVIOUS
  <2>3. u \in Seq(A) /\ Len(u) = Len(w) /\ \A q \in 1 .. Len(u) : u[q] = w[q]
    <3>1. \A q \in 1 .. n : 0 + q = q BY <1>6
    <3> QED BY <1>5, <1>6, <2>1, <2>2, <3>1
  <2> QED BY <2>2, <2>3, SameWord
<1> QED BY <1>3, <1>4, <1>5, <1>6, <1>7

-----------------------------------------------------------------------------
LanguageOK(gr) ==
    /\ gr.ntokens \in Nat /\ gr.nsyms \in Nat
    /\ IsFiniteSet(Vars(gr))
    /\ \A r \in DOMAIN gr.rules :
          /\ gr.rules[r].lhs \in Vars(gr)
          /\ Rhs(gr, r) \in Seq(Symbol(gr))

Words(gr) == Seq(0 .. gr.ntokens - 1)
ShortWords(gr, k) == { w \in Words(gr) : Len(w) <= k }

LEMMA ConcatFacts ==
    ASSUME NEW A, NEW L \in SUBSET Seq(A), NEW M \in SUBSET Seq(A), NEW k \in Nat
    PROVE  /\ \A w \in Concat(L, M, k) : w \in Seq(A) /\ Len(w) <= k
           /\ \A u \in L, v \in M : Len(u) < k /\ Len(u \o v) <= k => u \o v \in Concat(L, M, k)
<1>1. ASSUME NEW w \in Concat(L, M, k) PROVE w \in Seq(A) /\ Len(w) <= k
  <2>1. CASE w \in L /\ Len(w) = k BY <2>1
  <2>2. CASE \E p \in { u \in L : Len(u) < k } \X M : w = CutOff(p[1] \o p[2], k)
    <3>1. PICK p \in { u \in L : Len(u) < k } \X M : w = CutOff(p[1] \o p[2], k) BY <2>2
    <3>2. PICK u, v : u = p[1] /\ v = p[2] OBVIOUS
    <3>3. u \in Seq(A) /\ v \in Seq(A) BY <3>2
    <3>4. u \o v \in Seq(A) BY <3>3
    <3> QED BY <3>1, <3>2, <3>4, CutOffFacts
  <2> QED BY <1>1, <2>1, <2>2 DEF Concat
<1>2. ASSUME NEW u \in L, NEW v \in M, Len(u) < k, Len(u \o v) <= k
      PROVE  u \o v \in Concat(L, M, k)
  <2>1. PICK p : p = << u, v >> OBVIOUS
  <2>2. p \in { x \in L : Len(x) < k } \X M /\ p[1] = u /\ p[2] = v BY <1>2, <2>1
  <2>3. u \o v \in Seq(A) OBVIOUS
  <2>4. CutOff(u \o v, k) = u \o v BY <1>2, <2>3, CutOffFacts
  <2> QED BY <2>2, <2>4 DEF Concat
<1> QED BY <1>1, <1>2

LEMMA ConcatGrows ==
    ASSUME NEW L, NEW L2, L \subseteq L2, NEW M, NEW M2, M \subseteq M2, NEW k
    PROVE  Concat(L, M, k) \subseteq Concat(L2, M2, k)
<1>1. M # {} => M2 # {} OBVIOUS
<1>2. { u \in L : Len(u) = k } \subseteq { u \in L2 : Len(u) = k } OBVIOUS
<1>3. { u \in L : Len(u) < k } \X M \subseteq { u \in L2 : Len(u) < k } \X M2 OBVIOUS
<1> QED BY <1>1, <1>2, <1>3 DEF Concat

(* The strings of the first n symbols of s, for every n. *)
Catenates(c, gr, k, ps, s) ==
    /\ DOMAIN c = 0 .. Len(s)
    /\ c[0] = { << >> }
    /\ \A n \in 1 .. Len(s) : c[n] = Concat(c[n - 1], StringsOf(gr, ps, s[n]), k)

LEMMA StringsOfFacts ==
    ASSUME NEW gr, LanguageOK(gr), NEW ps \in SUBSET (Vars(gr) \X Words(gr)), NEW x \in Symbol(gr)
    PROVE  StringsOf(gr, ps, x) \in SUBSET Words(gr)
<1>1. CASE IsToken(gr, x)
  <2>1. x \in 0 .. gr.ntokens - 1 BY <1>1 DEF IsToken, Symbol, LanguageOK
  <2>2. << x >> \in Words(gr) BY <2>1 DEF Words
  <2> QED BY <1>1, <2>2 DEF StringsOf
<1>2. CASE ~IsToken(gr, x)
  <2>1. \A q \in ps : q[2] \in Words(gr) OBVIOUS
  <2> QED BY <1>2, <2>1 DEF StringsOf
<1> QED BY <1>1, <1>2

LEMMA CatenationExists ==
    ASSUME NEW gr, LanguageOK(gr), NEW k \in Nat, NEW ps \in SUBSET (Vars(gr) \X Words(gr)),
           NEW s \in Seq(Symbol(gr))
    PROVE  \E c : Catenates(c, gr, k, ps, s) /\ StringsOfAll(gr, k, ps, s) = c[Len(s)]
<1>1. PICK m : m = Len(s) OBVIOUS
<1>2. m \in Nat /\ \A n \in 1 .. m : s[n] \in Symbol(gr) BY <1>1
<1> DEFINE LS == SUBSET Words(gr)
           step == [p \in (1 .. m) \X LS |-> Concat(p[2], StringsOf(gr, ps, s[p[1]]), k)]
<1>3. step \in [(1 .. m) \X LS -> LS]
  <2> SUFFICES ASSUME NEW p \in (1 .. m) \X LS
               PROVE  Concat(p[2], StringsOf(gr, ps, s[p[1]]), k) \in LS
    OBVIOUS
  <2>1. PICK n, L, M : n = p[1] /\ L = p[2] /\ M = StringsOf(gr, ps, s[n]) OBVIOUS
  <2>2. n \in 1 .. m /\ L \in SUBSET Words(gr) BY <2>1
  <2>3. M \in SUBSET Words(gr) BY <1>2, <2>1, <2>2, StringsOfFacts
  <2>4. \A w \in Concat(L, M, k) : w \in Words(gr) BY <2>2, <2>3, ConcatFacts DEF Words
  <2> QED BY <2>1, <2>4
<1>4. {<< >>} \in LS
  <2>1. << >> \in Words(gr) BY DEF Words
  <2> QED BY <2>1
<1>5. PICK f \in [0 .. m -> LS] : Computes(f, {<< >>}, m, step)
  <2> HIDE DEF step, LS
  <2> QED BY <1>2, <1>3, <1>4, RecursionExists
<1>6. \A n \in 1 .. m : f[n] = Concat(f[n - 1], StringsOf(gr, ps, s[n]), k)
  <2> SUFFICES ASSUME NEW n \in 1 .. m PROVE f[n] = Concat(f[n - 1], StringsOf(gr, ps, s[n]), k) OBVIOUS
  <2>1. n - 1 \in 0 .. m BY <1>2
  <2>2. PICK p : p = << n, f[n - 1] >> OBVIOUS
  <2>3. p \in (1 .. m) \X LS /\ p[1] = n /\ p[2] = f[n - 1] BY <2>1, <2>2
  <2>4. f[n] = step[p] BY <1>5, <2>2 DEF Computes
  <2> QED BY <2>3, <2>4
<1>7. f[0] = {<< >>} BY <1>5 DEF Computes
<1> HIDE DEF step, LS
<1> DEFINE Is(h) == h = [n \in 0 .. m |-> IF n = 0 THEN { << >> }
                                         ELSE Concat(h[n - 1], StringsOf(gr, ps, s[n]), k)]
<1>8. Is(f)
  <2>1. \A n \in 0 .. m : f[n] = IF n = 0 THEN { << >> } ELSE Concat(f[n - 1], StringsOf(gr, ps, s[n]), k)
    <3>1. \A n \in 0 .. m : n # 0 => n \in 1 .. m BY <1>2
    <3> QED BY <1>6, <1>7, <3>1
  <2>2. f = [n \in 0 .. m |-> f[n]] BY <1>5
  <2> QED BY <2>1, <2>2
<1>9. PICK c : c = CHOOSE h : Is(h) OBVIOUS
<1>10. Is(c) BY <1>8, <1>9
<1>11. StringsOfAll(gr, k, ps, s) = c[m] BY <1>1, <1>9 DEF StringsOfAll
<1>12. DOMAIN c = 0 .. m /\ c[0] = {<< >>} BY <1>2, <1>10
<1>13. \A n \in 1 .. m : c[n] = Concat(c[n - 1], StringsOf(gr, ps, s[n]), k)
  <2>1. \A n \in 1 .. m : n \in 0 .. m /\ n # 0 BY <1>2
  <2> QED BY <1>10, <2>1
<1> QED BY <1>1, <1>11, <1>12, <1>13 DEF Catenates

(* Every one of the sets, by the least place where it would be otherwise. *)
LEMMA CatenationFacts ==
    ASSUME NEW gr, LanguageOK(gr), NEW k \in Nat, NEW ps \in SUBSET (Vars(gr) \X Words(gr)),
           NEW s \in Seq(Symbol(gr)), NEW c, Catenates(c, gr, k, ps, s)
    PROVE  \A n \in 0 .. Len(s) : c[n] \in SUBSET ShortWords(gr, k)
<1>1. Len(s) \in Nat OBVIOUS
<1> DEFINE Bad == { n \in 0 .. Len(s) : ~(c[n] \in SUBSET ShortWords(gr, k)) }
<1>2. SUFFICES ASSUME Bad # {} PROVE FALSE OBVIOUS
<1>3. Bad \in SUBSET Nat BY <1>1
<1>4. PICK n \in Bad : \A m \in Bad : n <= m
  <2> HIDE DEF Bad
  <2> QED BY <1>2, <1>3, LeastExists
<1>5. n \in 0 .. Len(s) /\ ~(c[n] \in SUBSET ShortWords(gr, k)) OBVIOUS
<1>6. n # 0
  <2>1. << >> \in Words(gr) /\ Len(<< >>) <= k BY DEF Words
  <2> QED BY <1>5, <2>1 DEF Catenates, ShortWords
<1>7. n - 1 \in 0 .. Len(s) /\ n \in 1 .. Len(s) BY <1>1, <1>5, <1>6
<1>8. c[n - 1] \in SUBSET ShortWords(gr, k)
  <2>1. ~(n <= n - 1) BY <1>1, <1>5
  <2>2. n - 1 \notin Bad BY <1>4, <2>1
  <2> QED BY <1>7, <2>2
<1>9. PICK L, M : L = c[n - 1] /\ M = StringsOf(gr, ps, s[n]) OBVIOUS
<1>10. L \in SUBSET Words(gr) /\ M \in SUBSET Words(gr)
  <2>1. s[n] \in Symbol(gr) BY <1>7
  <2> QED BY <1>8, <1>9, <2>1, StringsOfFacts DEF ShortWords
<1>11. \A w \in Concat(L, M, k) : w \in Words(gr) /\ Len(w) <= k BY <1>10, ConcatFacts DEF Words
<1>12. c[n] = Concat(L, M, k) BY <1>7, <1>9 DEF Catenates
<1> QED BY <1>5, <1>11, <1>12 DEF ShortWords

LEMMA CatenationGrows ==
    ASSUME NEW gr, NEW k, NEW ps, NEW Q, ps \subseteq Q, NEW s, Len(s) \in Nat,
           NEW c, Catenates(c, gr, k, ps, s), NEW e, Catenates(e, gr, k, Q, s)
    PROVE  c[Len(s)] \subseteq e[Len(s)]
<1> DEFINE Bad == { n \in 0 .. Len(s) : ~(c[n] \subseteq e[n]) }
<1>2. SUFFICES ASSUME Bad # {} PROVE FALSE OBVIOUS
<1>3. Bad \in SUBSET Nat OBVIOUS
<1>4. PICK n \in Bad : \A m \in Bad : n <= m
  <2> HIDE DEF Bad
  <2> QED BY <1>2, <1>3, LeastExists
<1>5. n \in 0 .. Len(s) /\ ~(c[n] \subseteq e[n]) OBVIOUS
<1>6. n # 0 BY <1>5 DEF Catenates
<1>7. n - 1 \in 0 .. Len(s) /\ n \in 1 .. Len(s) BY <1>5, <1>6
<1>8. c[n - 1] \subseteq e[n - 1]
  <2>1. ~(n <= n - 1) BY <1>5
  <2>2. n - 1 \notin Bad BY <1>4, <2>1
  <2> QED BY <1>7, <2>2
<1>9. StringsOf(gr, ps, s[n]) \subseteq StringsOf(gr, Q, s[n]) BY DEF StringsOf
<1>10. Concat(c[n - 1], StringsOf(gr, ps, s[n]), k) \subseteq Concat(e[n - 1], StringsOf(gr, Q, s[n]), k)
  BY <1>8, <1>9, ConcatGrows
<1> QED BY <1>5, <1>7, <1>10 DEF Catenates

-----------------------------------------------------------------------------
(* The pairs that DerivedStrings(gr, k) consists of. *)
Universe(gr) == Vars(gr) \X Words(gr)
ShortPairs(gr, k) == Vars(gr) \X ShortWords(gr, k)

LEMMA ShortWordsFinite ==
    ASSUME NEW gr, LanguageOK(gr), NEW k \in Nat
    PROVE  IsFiniteSet(ShortWords(gr, k))
<1> DEFINE graph(w) == { << q, w[q] >> : q \in 1 .. Len(w) }
           S == ShortWords(gr, k)
           C == SUBSET ((1 .. k) \X (0 .. gr.ntokens - 1))
           f == [w \in S |-> graph(w)]
<1>1. ASSUME NEW w \in S
      PROVE  w \in Seq(0 .. gr.ntokens - 1) /\ Len(w) \in Nat /\ Len(w) <= k
  BY DEF ShortWords, Words
<1>2. ASSUME NEW w \in S PROVE graph(w) \in C
  <2>1. PICK A : A = 0 .. gr.ntokens - 1 OBVIOUS
  <2>2. w \in Seq(A) BY <1>1, <2>1
  <2>3. \A q \in 1 .. Len(w) : w[q] \in A BY <2>2
  <2>4. \A q \in 1 .. Len(w) : q \in 1 .. k BY <1>1
  <2> QED BY <2>1, <2>3, <2>4
<1>3. ASSUME NEW u \in S, NEW v \in S, graph(u) = graph(v) PROVE u = v
  <2>1. ASSUME NEW q \in 1 .. Len(u) PROVE q \in 1 .. Len(v) /\ v[q] = u[q]
    <3>1. << q, u[q] >> \in graph(u) OBVIOUS
    <3>2. << q, u[q] >> \in graph(v) BY <1>3, <3>1
    <3> QED BY <3>2
  <2>2. ASSUME NEW q \in 1 .. Len(v) PROVE q \in 1 .. Len(u)
    <3>1. << q, v[q] >> \in graph(v) OBVIOUS
    <3>2. << q, v[q] >> \in graph(u) BY <1>3, <3>1
    <3> QED BY <3>2
  <2>3. Len(u) \in Nat /\ Len(v) \in Nat BY <1>1
  <2>4. Len(u) = Len(v)
    <3>1. Len(u) # 0 => Len(u) \in 1 .. Len(u) BY <2>3
    <3>2. Len(v) # 0 => Len(v) \in 1 .. Len(v) BY <2>3
    <3>3. Len(u) # 0 => Len(u) \in 1 .. Len(v) BY <2>1, <3>1
    <3>4. Len(v) # 0 => Len(v) \in 1 .. Len(u) BY <2>2, <3>2
    <3> QED BY <2>3, <3>3, <3>4
  <2> QED BY <1>1, <2>1, <2>4, SameWord
<1> HIDE DEF graph
<1>4. f \in Injection(S, C)
  <2>1. f \in [S -> C] BY <1>2
  <2>2. \A u, v \in S : f[u] = f[v] => u = v BY <1>3
  <2> QED BY <2>1, <2>2 DEF Injection, IsInjective
<1>5. IsFiniteSet(C)
  <2>1. IsFiniteSet(1 .. k) /\ IsFiniteSet(0 .. gr.ntokens - 1)
    <3>1. gr.ntokens - 1 \in Int BY DEF LanguageOK
    <3> QED BY <3>1, FS_Interval
  <2>2. IsFiniteSet((1 .. k) \X (0 .. gr.ntokens - 1)) BY <2>1, FS_Product
  <2> QED BY <2>2, FS_SUBSET
<1> HIDE DEF f, C, S
<1>6. IsFiniteSet(S) BY <1>4, <1>5, FS_Injection
<1> QED BY <1>6 DEF S

LEMMA ShortPairsFinite ==
    ASSUME NEW gr, LanguageOK(gr), NEW k \in Nat
    PROVE  IsFiniteSet(ShortPairs(gr, k)) /\ ShortPairs(gr, k) \in SUBSET Universe(gr)
<1>1. IsFiniteSet(Vars(gr)) BY DEF LanguageOK
<1>2. IsFiniteSet(ShortWords(gr, k)) BY ShortWordsFinite
<1>3. IsFiniteSet(ShortPairs(gr, k)) BY <1>1, <1>2, FS_Product DEF ShortPairs
<1>4. ShortWords(gr, k) \in SUBSET Words(gr) BY DEF ShortWords
<1> QED BY <1>3, <1>4 DEF ShortPairs, Universe

LEMMA DerivedOnceFacts ==
    ASSUME NEW gr, LanguageOK(gr), NEW k \in Nat, NEW ps \in SUBSET Universe(gr)
    PROVE  DerivedOnce(gr, k, ps) \in SUBSET ShortPairs(gr, k)
<1> SUFFICES ASSUME NEW r \in DOMAIN gr.rules, NEW w \in StringsOfAll(gr, k, ps, Rhs(gr, r))
             PROVE  << gr.rules[r].lhs, w >> \in ShortPairs(gr, k)
    BY DEF DerivedOnce
<1>1. gr.rules[r].lhs \in Vars(gr) /\ Rhs(gr, r) \in Seq(Symbol(gr)) BY DEF LanguageOK
<1>2. PICK s : s = Rhs(gr, r) OBVIOUS
<1>3. s \in Seq(Symbol(gr)) /\ Len(s) \in Nat BY <1>1, <1>2
<1>4. ps \in SUBSET (Vars(gr) \X Words(gr)) BY DEF Universe
<1>5. PICK c : Catenates(c, gr, k, ps, s) /\ StringsOfAll(gr, k, ps, s) = c[Len(s)]
  BY <1>3, <1>4, CatenationExists
<1>6. \A n \in 0 .. Len(s) : c[n] \in SUBSET ShortWords(gr, k) BY <1>3, <1>4, <1>5, CatenationFacts
<1>7. w \in ShortWords(gr, k)
  <2>1. Len(s) \in 0 .. Len(s) BY <1>3
  <2> QED BY <1>2, <1>5, <1>6, <2>1
<1> QED BY <1>1, <1>7 DEF ShortPairs

LEMMA DerivedOnceGrows ==
    ASSUME NEW gr, LanguageOK(gr), NEW k \in Nat, NEW ps \in SUBSET Universe(gr),
           NEW qs \in SUBSET Universe(gr), ps \subseteq qs
    PROVE  DerivedOnce(gr, k, ps) \subseteq DerivedOnce(gr, k, qs)
<1> SUFFICES ASSUME NEW r \in DOMAIN gr.rules
             PROVE  StringsOfAll(gr, k, ps, Rhs(gr, r)) \subseteq StringsOfAll(gr, k, qs, Rhs(gr, r))
    BY DEF DerivedOnce
<1>1. Rhs(gr, r) \in Seq(Symbol(gr)) BY DEF LanguageOK
<1>2. PICK s : s = Rhs(gr, r) OBVIOUS
<1>3. s \in Seq(Symbol(gr)) /\ Len(s) \in Nat BY <1>1, <1>2
<1>4. ps \in SUBSET (Vars(gr) \X Words(gr)) /\ qs \in SUBSET (Vars(gr) \X Words(gr)) BY DEF Universe
<1>5. PICK c : Catenates(c, gr, k, ps, s) /\ StringsOfAll(gr, k, ps, s) = c[Len(s)]
  BY <1>3, <1>4, CatenationExists
<1>6. PICK e : Catenates(e, gr, k, qs, s) /\ StringsOfAll(gr, k, qs, s) = e[Len(s)]
  BY <1>3, <1>4, CatenationExists
<1>7. c[Len(s)] \subseteq e[Len(s)] BY <1>3, <1>5, <1>6, CatenationGrows
<1> QED BY <1>2, <1>5, <1>6, <1>7

LEMMA DerivedStringsFacts ==
    ASSUME NEW gr, LanguageOK(gr), NEW k \in Nat
    PROVE  /\ DerivedStrings(gr, k) \in SUBSET ShortPairs(gr, k)
           /\ DerivedOnce(gr, k, DerivedStrings(gr, k)) \subseteq DerivedStrings(gr, k)
<1> DEFINE U == Universe(gr)
           op == [S \in SUBSET U |-> DerivedOnce(gr, k, S)]
           V == ShortPairs(gr, k)
           Is(h) == h = [S \in SUBSET U |-> IF DerivedOnce(gr, k, S) \subseteq S THEN S
                                            ELSE h[S \cup DerivedOnce(gr, k, S)]]
<1>1. V \in SUBSET U /\ IsFiniteSet(V) BY ShortPairsFinite
<1>2. \A S \in SUBSET U : op[S] = DerivedOnce(gr, k, S) /\ op[S] \in SUBSET V
  BY DerivedOnceFacts
<1>3. Monotonic(U, op)
  <2>1. op \in [SUBSET U -> SUBSET U] BY <1>1, <1>2
  <2>2. \A S, C \in SUBSET U : S \subseteq C => op[S] \subseteq op[C] BY <1>2, DerivedOnceGrows
  <2> QED BY <2>1, <2>2 DEF Monotonic
<1>4. ASSUME NEW h PROVE Is(h) <=> Grows(h, U, op)
  <2>1. [S \in SUBSET U |-> IF DerivedOnce(gr, k, S) \subseteq S THEN S ELSE h[S \cup DerivedOnce(gr, k, S)]]
        = [S \in SUBSET U |-> IF op[S] \subseteq S THEN S ELSE h[S \cup op[S]]]
    OBVIOUS
  <2> QED BY <2>1 DEF Grows
<1>5. PICK f : f = CHOOSE h : Is(h) OBVIOUS
<1>6. Is(f)
  <2> HIDE DEF U, op, Is
  <2>1. \E h : Grows(h, U, op) BY <1>3, GrowsExists
  <2>2. \E h : Is(h) BY <1>4, <2>1
  <2> QED BY <1>5, <2>2
<1>7. DerivedStrings(gr, k) = f[{}]
  <2>1. DerivedStrings(gr, k) = LET Derive(qs) == DerivedOnce(gr, k, qs) IN LeastFixpoint(Derive, U)
    BY DEF DerivedStrings, Universe, Words
  <2> QED BY <1>5, <2>1 DEF LeastFixpoint
<1>8. f[{}] \in SUBSET V /\ op[f[{}]] \subseteq f[{}]
  <2> HIDE DEF U, op, Is, V
  <2>1. Grows(f, U, op) BY <1>4, <1>6
  <2>2. \A S \in SUBSET U : op[S] \subseteq V BY <1>2
  <2> QED BY <1>1, <1>3, <2>1, <2>2, GrowsClosed
<1>9. f[{}] \in SUBSET U BY <1>1, <1>8
<1> QED BY <1>2, <1>7, <1>8, <1>9

(* If the right-hand side of a rule derives a part of a word, piece by piece,
   then the left-hand side derives it. *)
LEMMA DerivedClosed ==
    ASSUME NEW gr, LanguageOK(gr), NEW k \in Nat, NEW w \in Words(gr), Len(w) < k,
           NEW r \in DOMAIN gr.rules \ {gr.top}, NEW s, s = Rhs(gr, r),
           NEW cut \in [0 .. Len(s) -> 0 .. Len(w)],
           \A n \in 1 .. Len(s) :
              /\ cut[n - 1] <= cut[n]
              /\ Piece(w, cut[n - 1], cut[n]) \in StringsOf(gr, DerivedStrings(gr, k), s[n])
    PROVE  /\ cut[0] <= cut[Len(s)]
           /\ << gr.rules[r].lhs, Piece(w, cut[0], cut[Len(s)]) >> \in DerivedStrings(gr, k)
<1>1. Rhs(gr, r) \in Seq(Symbol(gr)) BY DEF LanguageOK
<1>2. s \in Seq(Symbol(gr)) /\ Len(s) \in Nat BY <1>1
<1>3. PICK ps : ps = DerivedStrings(gr, k) OBVIOUS
<1>4. ps \in SUBSET ShortPairs(gr, k) /\ DerivedOnce(gr, k, ps) \subseteq ps BY <1>3, DerivedStringsFacts
<1>5. ps \in SUBSET (Vars(gr) \X Words(gr)) BY <1>4, ShortPairsFinite DEF Universe
<1>6. PICK c : Catenates(c, gr, k, ps, s) /\ StringsOfAll(gr, k, ps, s) = c[Len(s)]
  BY <1>2, <1>5, CatenationExists
<1>7. PICK len : len = Len(w) OBVIOUS
<1>8. len \in Nat /\ w \in Seq(0 .. gr.ntokens - 1) BY <1>7 DEF Words
<1>9. \A n \in 0 .. Len(s) : cut[n] \in 0 .. len /\ cut[n] \in Nat BY <1>7, <1>8
<1> DEFINE Good(n) == cut[0] <= cut[n] /\ Piece(w, cut[0], cut[n]) \in c[n]
           Bad == { n \in 0 .. Len(s) : ~Good(n) }
<1>10. Bad = {}
  <2>1. SUFFICES ASSUME Bad # {} PROVE FALSE OBVIOUS
  <2>2. Bad \in SUBSET Nat OBVIOUS
  <2>3. PICK n \in Bad : \A m \in Bad : n <= m
    <3> HIDE DEF Bad
    <3> QED BY <2>1, <2>2, LeastExists
  <2>4. n \in 0 .. Len(s) /\ ~Good(n) OBVIOUS
  <2>5. n # 0
    <3>1. PICK a : a = cut[0] OBVIOUS
    <3>2. a \in 0 .. len /\ a \in Nat BY <1>2, <1>9, <3>1
    <3>3. Piece(w, a, a) \in Seq(0 .. gr.ntokens - 1) /\ Len(Piece(w, a, a)) = a - a
      <4>1. a \in 0 .. a /\ a \in 0 .. Len(w) BY <1>7, <3>2
      <4> QED BY <1>8, <4>1, PieceFacts
    <3>4. PICK u : u = Piece(w, a, a) OBVIOUS
    <3>5. u \in Seq(0 .. gr.ntokens - 1) /\ Len(u) = 0 BY <3>2, <3>3, <3>4
    <3>6. u = << >> BY <3>5
    <3>7. Piece(w, a, a) \in c[0] BY <1>6, <3>4, <3>6 DEF Catenates
    <3> QED BY <2>4, <3>1, <3>2, <3>7
  <2>6. n - 1 \in 0 .. Len(s) /\ n \in 1 .. Len(s) BY <1>2, <2>4, <2>5
  <2>7. Good(n - 1)
    <3>1. ~(n <= n - 1) BY <2>4
    <3>2. n - 1 \notin Bad BY <2>3, <3>1
    <3> QED BY <2>6, <3>2
  <2>8. PICK a, b, e : a = cut[0] /\ b = cut[n - 1] /\ e = cut[n] OBVIOUS
  <2>9. /\ a \in 0 .. b /\ b \in 0 .. e /\ e \in 0 .. Len(w) /\ a <= e
    <3>1. a \in Nat /\ b \in Nat /\ e \in Nat /\ e \in 0 .. len
      <4>1. 0 \in 0 .. Len(s) BY <1>2
      <4> QED BY <1>9, <2>6, <2>8, <4>1
    <3>2. a <= b /\ b <= e BY <2>6, <2>7, <2>8
    <3> QED BY <1>7, <3>1, <3>2
  <2>10. PICK u, v : u = Piece(w, a, b) /\ v = Piece(w, b, e) OBVIOUS
  <2>11. u \o v = Piece(w, a, e) BY <1>8, <2>9, <2>10, PiecesJoin
  <2>12. Len(u) < k
    <3>1. b \in 0 .. Len(w) BY <1>7, <1>8, <2>9
    <3>2. Len(Piece(w, a, b)) = b - a
      <4> HIDE DEF Good, Bad
      <4> QED BY <1>8, <2>9, <3>1, PieceFacts
    <3> QED BY <1>7, <1>8, <2>9, <2>10, <3>2
  <2>13. Len(u \o v) <= k
    <3>1. a \in 0 .. e BY <1>7, <1>8, <2>9
    <3>2. w \in Seq(0 .. gr.ntokens - 1) /\ e \in 0 .. Len(w) BY <1>8, <2>9
    <3>3. Len(Piece(w, a, e)) = e - a
      <4> HIDE DEF Good, Bad
      <4> QED BY <3>1, <3>2, PieceFacts
    <3> QED BY <1>7, <1>8, <2>9, <2>11, <3>3
  <2>14. PICK L, M : L = c[n - 1] /\ M = StringsOf(gr, ps, s[n]) OBVIOUS
  <2>15. L \in SUBSET Words(gr) /\ M \in SUBSET Words(gr)
    <3>1. c[n - 1] \in SUBSET ShortWords(gr, k) BY <1>2, <1>5, <1>6, <2>6, CatenationFacts
    <3>2. s[n] \in Symbol(gr) BY <1>2, <2>6
    <3>3. StringsOf(gr, ps, s[n]) \in SUBSET Words(gr) BY <1>5, <3>2, StringsOfFacts
    <3> QED BY <2>14, <3>1, <3>3 DEF ShortWords
  <2>16. u \in L /\ v \in M BY <1>3, <2>6, <2>7, <2>8, <2>10, <2>14
  <2>17. u \o v \in Concat(L, M, k) BY <2>12, <2>13, <2>15, <2>16, ConcatFacts DEF Words
  <2>18. c[n] = Concat(L, M, k) BY <1>6, <2>6, <2>14 DEF Catenates
  <2> QED BY <2>4, <2>8, <2>9, <2>11, <2>17, <2>18
<1>11. Len(s) \in 0 .. Len(s) BY <1>2
<1>12. Good(Len(s)) BY <1>10, <1>11
<1>13. PICK x : x = Piece(w, cut[0], cut[Len(s)]) OBVIOUS
<1>14. x \in StringsOfAll(gr, k, ps, Rhs(gr, r)) BY <1>6, <1>12, <1>13
<1>15. << gr.rules[r].lhs, x >> \in DerivedOnce(gr, k, ps) BY <1>14 DEF DerivedOnce
<1> QED BY <1>3, <1>4, <1>12, <1>13, <1>15

-----------------------------------------------------------------------------
(***************************************************************************)
(* The lists of actions are sorted.                                        *)
(***************************************************************************)
IsAction(a) ==
    /\ a = [symbol |-> a.symbol, number |-> a.number, action_code |-> a.action_code,
            prec |-> a.prec, assoc |-> a.assoc, suppressed |-> a.suppressed]
    /\ a.symbol \in Nat /\ a.number \in Nat /\ a.prec \in Nat
    /\ a.action_code \in {SHIFT, REDUCE} /\ a.suppressed \in 0 .. 2

SameKey(a, b) == a.symbol = b.symbol /\ a.action_code = b.action_code /\ a.number = b.number

LEMMA ActionsInOrder ==
    ASSUME NEW S, IsFiniteSet(S), \A a \in S : IsAction(a),
           \A a, b \in S : SameKey(a, b) => a = b
    PROVE  Sorted(InOrder(S, ActionOrder), S, { p \in S \X S : ActionOrder(p[1], p[2]) })
<1> DEFINE s == InOrder(S, ActionOrder)
<1>0. PICK L : L = { p \in S \X S : ActionOrder(p[1], p[2]) } OBVIOUS
<1>1. \A x, y \in S : << x, y >> \in L <=> ActionOrder(x, y) BY <1>0
<1>2. IsStrictOrder(S, L)
  <2>1. \A x \in S : ~ActionOrder(x, x) BY DEF ActionOrder, IsAction, SHIFT, REDUCE
  <2>2. \A x, y \in S : x # y => ActionOrder(x, y) \/ ActionOrder(y, x)
    BY DEF ActionOrder, IsAction, SameKey, SHIFT, REDUCE
  <2>3. \A x, y, z \in S : ActionOrder(x, y) /\ ActionOrder(y, z) => ActionOrder(x, z)
    BY DEF ActionOrder, IsAction, SHIFT, REDUCE
  <2> QED BY <1>1, <2>1, <2>2, <2>3 DEF IsStrictOrder
<1>3. Cardinality(S) \in Nat BY FS_CardinalityType
<1>4. \A x \in S : { y \in S : ActionOrder(y, x) } = Preceding(S, L, x) BY <1>1 DEF Preceding
<1>5. \A k \in 1 .. Cardinality(S) :
        s[k] = CHOOSE x \in S : Cardinality({ y \in S : ActionOrder(y, x) }) = k - 1 BY DEF InOrder
<1>6. s = [k \in 1 .. Cardinality(S) |-> s[k]]
  <2>1. s = [k \in 1 .. Cardinality(S) |->
                CHOOSE x \in S : Cardinality({ y \in S : ActionOrder(y, x) }) = k - 1] BY DEF InOrder
  <2> QED BY <1>5, <2>1
<1> HIDE DEF s
<1>7. ASSUME NEW k \in 1 .. Cardinality(S)
      PROVE  s[k] \in S /\ Cardinality(Preceding(S, L, s[k])) = k - 1
  <2>1. \E x \in S : Cardinality(Preceding(S, L, x)) = k - 1 BY <1>2, RankFacts
  <2>2. \E x \in S : Cardinality({ y \in S : ActionOrder(y, x) }) = k - 1 BY <1>4, <2>1
  <2>3. s[k] \in S /\ Cardinality({ y \in S : ActionOrder(y, s[k]) }) = k - 1 BY <1>5, <2>2
  <2> QED BY <1>4, <2>3
<1>8. s \in [1 .. Cardinality(S) -> S] BY <1>6, <1>7
<1>9. Sorted(s, S, L) BY <1>2, <1>7, <1>8, PlacesFacts
<1> QED BY <1>0, <1>9 DEF s

(* A list of actions as parse_actions() leaves it and remove_conflicts()
   keeps it. *)
IsList(acts) ==
    /\ acts \in Seq(ToSet(acts)) /\ Len(acts) \in Nat /\ DOMAIN acts = 1 .. Len(acts)
    /\ \A k \in 1 .. Len(acts) : IsAction(acts[k])
    /\ \A k, l \in 1 .. Len(acts) : k < l => ActionOrder(acts[k], acts[l])

LEMMA BySymbol ==
    ASSUME NEW acts, IsList(acts), NEW k \in 1 .. Len(acts), NEW l \in 1 .. Len(acts), k <= l
    PROVE  acts[k].symbol <= acts[l].symbol
<1>1. IsAction(acts[k]) /\ IsAction(acts[l]) BY DEF IsList
<1>2. k \in Int /\ l \in Int BY DEF IsList
<1>3. CASE k = l BY <1>1, <1>3 DEF IsAction
<1>4. CASE k # l
  <2>1. ActionOrder(acts[k], acts[l]) BY <1>2, <1>4 DEF IsList
  <2> QED BY <1>1, <2>1 DEF ActionOrder, IsAction
<1> QED BY <1>3, <1>4

ShiftAction(q) ==
    [symbol |-> AccessingSymbol(q), number |-> q, action_code |-> SHIFT,
     prec |-> g.prec[AccessingSymbol(q)], assoc |-> g.assoc[AccessingSymbol(q)], suppressed |-> 0]
ReduceAction(t, r) ==
    [symbol |-> t, number |-> r, action_code |-> REDUCE,
     prec |-> g.rprec[r], assoc |-> g.rassoc[r], suppressed |-> 0]

(* No precedence but those of the grammar gets into the lists. *)
GrammarPrec(p) == (\E x \in DOMAIN g.prec : p = g.prec[x]) \/ (\E r \in DOMAIN g.rprec : p = g.rprec[r])

LEMMA ShiftActionFacts ==
    ASSUME g \in Grammars, AutomatonOK, NEW q \in DOMAIN states
    PROVE  IsAction(ShiftAction(q)) /\ GrammarPrec(ShiftAction(q).prec)
<1>1. GrammarOK(g) BY GrammarsAssumption
<1>2. AccessingSymbol(q) \in Symbol(g) BY DEF AutomatonOK, StatesOK, AccessingSymbol
<1>3. AccessingSymbol(q) \in Nat /\ AccessingSymbol(q) \in DOMAIN g.prec
  BY <1>1, <1>2 DEF GrammarOK, Symbol
<1>4. g.prec[AccessingSymbol(q)] \in Nat BY <1>1, <1>3 DEF GrammarOK
<1>5. q \in Nat BY DEF AutomatonOK, Numbered
<1> QED BY <1>3, <1>4, <1>5 DEF IsAction, ShiftAction, GrammarPrec

LEMMA ReduceActionFacts ==
    ASSUME g \in Grammars, NEW r \in DOMAIN g.rules, NEW t \in 0 .. g.ntokens - 1
    PROVE  IsAction(ReduceAction(t, r)) /\ GrammarPrec(ReduceAction(t, r).prec)
<1>1. GrammarOK(g) BY GrammarsAssumption
<1>2. r \in Nat BY RuleFacts
<1>3. g.rprec[r] \in Nat /\ r \in DOMAIN g.rprec BY <1>1 DEF GrammarOK
<1>4. t \in Nat BY <1>1 DEF GrammarOK
<1> QED BY <1>2, <1>3, <1>4 DEF IsAction, ReduceAction, GrammarPrec

(* What parse_actions() makes an action of: a shift or a reduction of the state. *)
Source(n, a) ==
    \/ \E q \in ToSet(shift[n]) : ISTOKEN(AccessingSymbol(q)) /\ a = ShiftAction(q)
    \/ \E r \in ToSet(reds[n]) : \E t \in 0 .. g.ntokens - 1 : a = ReduceAction(t, r)

LEMMA ParseActionsFacts ==
    ASSUME g \in Grammars, AutomatonOK, this = nstates, phase # "shift", NEW n \in DOMAIN states
    PROVE  /\ IsList(ParseActions(n))
           /\ \A k \in 1 .. Len(ParseActions(n)) :
                 /\ ParseActions(n)[k].suppressed = 0 /\ GrammarPrec(ParseActions(n)[k].prec)
                 /\ Source(n, ParseActions(n)[k])
<1> DEFINE Qs == { m \in ToSet(shift[n]) : ISTOKEN(AccessingSymbol(m)) }
           Ts(r) == { u \in 0 .. g.ntokens - 1 : u \in LA[<< n, r >>] }
           Of(r) == { ReduceAction(t, r) : t \in Ts(r) }
           S == { ShiftAction(q) : q \in Qs } \cup UNION { Of(r) : r \in ToSet(reds[n]) }
<1>1. n \in DOMAIN shift /\ n \in DOMAIN reds BY DEF AutomatonOK, Numbered, ProgressOK, Expanded
<1>2. shift[n] \in Seq(DOMAIN states) /\ Len(shift[n]) \in Nat
  BY <1>1 DEF AutomatonOK, ShiftsOK, ShiftsOf
<1>3. Qs \in SUBSET DOMAIN states
  <2>1. \A k \in 1 .. Len(shift[n]) : shift[n][k] \in DOMAIN states BY <1>2
  <2> QED BY <1>2, <2>1 DEF ToSet
<1>4. IsFiniteSet(DOMAIN states)
  <2>1. nstates \in Nat /\ DOMAIN states = 0 .. nstates - 1 BY DEF AutomatonOK, Numbered
  <2>2. 0 \in Int /\ nstates - 1 \in Int BY <2>1
  <2> QED BY <2>1, <2>2, FS_Interval
<1>5. ToSet(reds[n]) \in SUBSET DOMAIN g.rules
  <2>1. Itemset(n) \in SUBSET ItemsOf(g) BY ClosureItems DEF AutomatonOK, StatesOK, Itemset
  <2>2. Increasing(reductions(Itemset(n)), Completed(Itemset(n))) /\ Completed(Itemset(n)) \in SUBSET DOMAIN g.rules
    BY <2>1, OrderOfReductions
  <2>3. reds[n] \in Seq(DOMAIN g.rules) BY <1>1, <2>2 DEF AutomatonOK, RedsOK, Increasing
  <2>4. \A k \in 1 .. Len(reds[n]) : reds[n][k] \in DOMAIN g.rules BY <2>3
  <2> QED BY <2>3, <2>4 DEF ToSet
<1>6. \A r \in ToSet(reds[n]) : \A t \in Ts(r) :
         IsAction(ReduceAction(t, r)) /\ GrammarPrec(ReduceAction(t, r).prec)
  BY <1>5, ReduceActionFacts
<1>7. \A q \in Qs : IsAction(ShiftAction(q)) /\ GrammarPrec(ShiftAction(q).prec)
  BY <1>3, ShiftActionFacts
<1>8. \A a \in S : IsAction(a) /\ GrammarPrec(a.prec) /\ a.suppressed = 0
  <2>1. \A q \in Qs : ShiftAction(q).suppressed = 0 BY DEF ShiftAction
  <2>2. \A r \in ToSet(reds[n]) : \A t \in Ts(r) : ReduceAction(t, r).suppressed = 0 BY DEF ReduceAction
  <2> HIDE DEF Qs, Ts
  <2> QED BY <1>6, <1>7, <2>1, <2>2
<1>s. \A a \in S : Source(n, a)
  <2>1. \A q \in Qs : Source(n, ShiftAction(q)) BY DEF Source
  <2>2. \A r \in ToSet(reds[n]) : \A t \in Ts(r) : Source(n, ReduceAction(t, r)) BY DEF Source
  <2> HIDE DEF Qs, Ts
  <2> QED BY <2>1, <2>2
<1>9. \A a, b \in S : SameKey(a, b) => a = b
  <2>1. \A q, m \in Qs : SameKey(ShiftAction(q), ShiftAction(m)) => q = m BY DEF SameKey, ShiftAction
  <2>2. \A q \in Qs : \A r \in ToSet(reds[n]) : \A t \in Ts(r) :
           ~SameKey(ShiftAction(q), ReduceAction(t, r)) /\ ~SameKey(ReduceAction(t, r), ShiftAction(q))
    BY DEF SameKey, ShiftAction, ReduceAction, SHIFT, REDUCE
  <2>3. \A r, e \in ToSet(reds[n]) : \A t \in Ts(r) : \A u \in Ts(e) :
           SameKey(ReduceAction(t, r), ReduceAction(u, e)) => r = e /\ t = u
    BY DEF SameKey, ReduceAction
  <2> HIDE DEF Qs, Ts
  <2> QED BY <2>1, <2>2, <2>3
<1>10. IsFiniteSet(S)
  <2>1. IsFiniteSet({ ShiftAction(q) : q \in Qs })
    <3> DEFINE f == [q \in Qs |-> ShiftAction(q)]
    <3>1. IsFiniteSet(Qs) BY <1>3, <1>4, FS_Subset
    <3>2. DOMAIN f = Qs /\ { ShiftAction(q) : q \in Qs } = { f[q] : q \in Qs } OBVIOUS
    <3> HIDE DEF f, Qs
    <3> QED BY <3>1, <3>2, ImageFinite
  <2>2. ASSUME NEW r \in ToSet(reds[n]) PROVE IsFiniteSet(Of(r))
    <3> DEFINE f == [t \in Ts(r) |-> ReduceAction(t, r)]
    <3>1. IsFiniteSet(Ts(r))
      <4>0. g.ntokens \in Nat BY GrammarsAssumption DEF GrammarOK
      <4>1. 0 \in Int /\ g.ntokens - 1 \in Int BY <4>0
      <4>2. IsFiniteSet(0 .. g.ntokens - 1) BY <4>1, FS_Interval
      <4> QED BY <4>2, FS_Subset
    <3>2. DOMAIN f = Ts(r) /\ Of(r) = { f[t] : t \in Ts(r) } OBVIOUS
    <3> HIDE DEF f, Ts
    <3>3. IsFiniteSet({ f[t] : t \in Ts(r) }) BY <3>1, <3>2, ImageFinite
    <3> QED BY <3>2, <3>3
  <2>3. IsFiniteSet(UNION { Of(r) : r \in ToSet(reds[n]) })
    <3> DEFINE f == [r \in ToSet(reds[n]) |-> Of(r)]
               Sets == { f[r] : r \in ToSet(reds[n]) }
    <3>1. IsFiniteSet(ToSet(reds[n])) BY <1>5, ItemsFinite, FS_Subset
    <3>2. DOMAIN f = ToSet(reds[n]) /\ (\A r \in ToSet(reds[n]) : f[r] = Of(r)) OBVIOUS
    <3> HIDE DEF f, Of
    <3>3. IsFiniteSet(Sets) BY <3>1, <3>2, ImageFinite
    <3>4. \A T \in Sets : IsFiniteSet(T) BY <2>2, <3>2
    <3>5. UNION { Of(r) : r \in ToSet(reds[n]) } = UNION Sets BY <3>2
    <3> HIDE DEF Sets
    <3> QED BY <3>3, <3>4, <3>5, FS_UNION
  <2> HIDE DEF Of, Qs
  <2> QED BY <2>1, <2>3, FS_Union
<1>11. ParseActions(n) = InOrder(S, ActionOrder) BY DEF ParseActions, ShiftAction, ReduceAction
<1>12. PICK s : s = ParseActions(n) OBVIOUS
<1> HIDE DEF S
<1>13. Sorted(s, S, { p \in S \X S : ActionOrder(p[1], p[2]) })
  <2>1. Sorted(InOrder(S, ActionOrder), S, { p \in S \X S : ActionOrder(p[1], p[2]) })
    BY <1>8, <1>9, <1>10, ActionsInOrder
  <2> QED BY <1>11, <1>12, <2>1
<1>14. Len(s) \in Nat /\ s \in Seq(S) /\ \A k \in 1 .. Len(s) : s[k] \in S BY <1>13 DEF Sorted
<1>15. \A k, l \in 1 .. Len(s) : k < l => ActionOrder(s[k], s[l])
  <2> SUFFICES ASSUME NEW k \in 1 .. Len(s), NEW l \in 1 .. Len(s), k < l
               PROVE  ActionOrder(s[k], s[l]) OBVIOUS
  <2>1. << s[k], s[l] >> \in { p \in S \X S : ActionOrder(p[1], p[2]) } BY <1>13 DEF Sorted
  <2>2. ActionOrder(<< s[k], s[l] >>[1], << s[k], s[l] >>[2]) BY <2>1
  <2> QED BY <2>2
<1>16. IsList(s)
  <2>1. DOMAIN s = 1 .. Len(s) BY <1>14
  <2>2. \A k \in 1 .. Len(s) : s[k] \in ToSet(s) BY <2>1 DEF ToSet
  <2>3. s \in Seq(ToSet(s)) BY <1>14, <2>2
  <2> QED BY <1>8, <1>14, <1>15, <2>1, <2>3 DEF IsList
<1>17. \A k \in 1 .. Len(s) : s[k].suppressed = 0 /\ GrammarPrec(s[k].prec) /\ Source(n, s[k])
  BY <1>s, <1>8, <1>14
<1> QED BY <1>12, <1>16, <1>17

-----------------------------------------------------------------------------
(***************************************************************************)
(* A turn of the inner loop, for a list acts, the action p under           *)
(* examination and the preferred action q.  It leaves a list that differs  *)
(* in what is suppressed, and a preferred action.                          *)
(***************************************************************************)
SameActions(acts, new) ==
    /\ IsList(new) /\ Len(new) = Len(acts)
    /\ \A k \in 1 .. Len(acts) :
          /\ new[k].symbol = acts[k].symbol /\ new[k].number = acts[k].number
          /\ new[k].action_code = acts[k].action_code /\ new[k].prec = acts[k].prec
SameFate(acts, new, k) == new[k].suppressed = acts[k].suppressed

LEMMA SuppressFacts ==
    ASSUME NEW acts, IsList(acts), NEW k \in 1 .. Len(acts), NEW how \in 0 .. 2
    PROVE  /\ SameActions(acts, Suppress(acts, k, how))
           /\ Suppress(acts, k, how)[k].suppressed = how
           /\ \A l \in 1 .. Len(acts) \ {k} : SameFate(acts, Suppress(acts, k, how), l)
<1> PICK new : new = Suppress(acts, k, how) OBVIOUS
<1>1. /\ DOMAIN new = DOMAIN acts
      /\ new[k] = [acts[k] EXCEPT !.suppressed = how]
      /\ \A l \in DOMAIN acts \ {k} : new[l] = acts[l]
  BY DEF Suppress, IsList
<1>2. new \in Seq(ToSet(new)) /\ Len(new) = Len(acts)
  <2>1. DOMAIN acts = 1 .. Len(acts) /\ Len(acts) \in Nat BY DEF IsList
  <2>2. new = [l \in 1 .. Len(acts) |-> new[l]] BY <2>1 DEF Suppress
  <2>3. \A l \in 1 .. Len(acts) : new[l] \in ToSet(new) BY <1>1, <2>1 DEF ToSet
  <2>4. new \in [1 .. Len(acts) -> ToSet(new)] BY <2>2, <2>3
  <2> QED BY <2>1, <2>4
<1>3. /\ IsAction(new[k]) /\ new[k].suppressed = how
      /\ new[k].symbol = acts[k].symbol /\ new[k].number = acts[k].number
      /\ new[k].action_code = acts[k].action_code /\ new[k].prec = acts[k].prec
  BY <1>1 DEF IsAction, IsList
<1>4. \A l \in 1 .. Len(acts) :
         /\ IsAction(new[l])
         /\ new[l].symbol = acts[l].symbol /\ new[l].number = acts[l].number
         /\ new[l].action_code = acts[l].action_code /\ new[l].prec = acts[l].prec
  BY <1>1, <1>3 DEF IsList
<1>5. \A l, m \in 1 .. Len(acts) : l < m => ActionOrder(new[l], new[m])
  BY <1>4 DEF IsList, ActionOrder
<1>6. IsList(new) BY <1>1, <1>2, <1>4, <1>5 DEF IsList
<1> QED BY <1>1, <1>2, <1>3, <1>4, <1>6 DEF SameActions, SameFate, IsList

(* What a turn can do. *)
Passed(acts, new, p, q, q2) ==
    (q # 0 => acts[q].symbol # acts[p].symbol) /\ new = acts /\ q2 = p
Taken(acts, new, p, q, q2) ==
    /\ acts[q].prec <= acts[p].prec
    /\ new[q].suppressed = 2 /\ SameFate(acts, new, p) /\ q2 = p
Beaten(acts, new, p, q, q2) ==
    /\ acts[p].prec <= acts[q].prec
    /\ new[p].suppressed = 2 /\ (SameFate(acts, new, q) \/ new[q].suppressed = 2) /\ q2 = q
Tried(acts, new, p, q, q2) ==
    /\ g.lemon_prec_flag /\ row # final_state /\ acts[p].prec > 0 /\ acts[q].prec > 0
          => acts[p].prec = acts[q].prec
    /\ new[p].suppressed = 1 /\ q2 = q
    /\ new[q].suppressed = (IF g.backtrack /\ acts[q].suppressed = 0 THEN 1 ELSE acts[q].suppressed)

Settled(acts, new, p, q, q2) ==
    /\ q # 0 /\ acts[q].symbol = acts[p].symbol
    /\ acts[q].prec > 0 /\ acts[p].prec > 0
    /\ Taken(acts, new, p, q, q2) \/ Beaten(acts, new, p, q, q2)
Unresolved(acts, new, p, q, q2) ==
    q # 0 /\ acts[q].symbol = acts[p].symbol /\ Tried(acts, new, p, q, q2)

Turned(acts, new, p, q) ==
    SameActions(acts, new) /\ \A k \in 1 .. Len(acts) \ {p, q} : SameFate(acts, new, k)

Totals == SRtotal + RRtotal
Outcome(new) ==
    /\ Turned(Row, new, actno, pref)
    /\ \/ Passed(Row, new, actno, pref, pref') /\ Totals' = Totals
       \/ Settled(Row, new, actno, pref, pref') /\ Totals' = Totals
       \/ Unresolved(Row, new, actno, pref, pref') /\ Totals' = Totals + 1

LEMMA SameActionsFacts ==
    ASSUME NEW acts, IsList(acts)
    PROVE  /\ SameActions(acts, acts)
           /\ \A x, y : SameActions(acts, x) /\ SameActions(x, y) => SameActions(acts, y)
BY DEF SameActions

LEMMA UnsettledOutcome ==
    ASSUME IsList(Row), actno \in 1 .. Len(Row), pref \in 1 .. actno - 1,
           Row[pref].symbol = Row[actno].symbol,
           g.lemon_prec_flag /\ row # final_state /\ Row[actno].prec > 0 /\ Row[pref].prec > 0
              => Row[actno].prec = Row[pref].prec,
           Totals' = Totals + 1, pref' = pref
    PROVE  Outcome(StartBacktrack(Suppress(Row, actno, 1), pref))
<1> PICK x : x = Suppress(Row, actno, 1) OBVIOUS
<1> PICK new : new = StartBacktrack(x, pref) OBVIOUS
<1>0. pref \in 1 .. Len(Row) /\ pref # actno /\ pref # 0 BY DEF IsList
<1>1. /\ SameActions(Row, x) /\ x[actno].suppressed = 1
      /\ \A k \in 1 .. Len(Row) \ {actno} : SameFate(Row, x, k)
  BY SuppressFacts
<1>2. IsList(x) /\ Len(x) = Len(Row) /\ x[pref].suppressed = Row[pref].suppressed
  BY <1>0, <1>1 DEF SameActions, SameFate
<1>3. CASE g.backtrack /\ Row[pref].suppressed = 0
  <2>1. new = Suppress(x, pref, 1) BY <1>2, <1>3 DEF StartBacktrack
  <2>2. /\ SameActions(x, new) /\ new[pref].suppressed = 1
        /\ \A k \in 1 .. Len(x) \ {pref} : SameFate(x, new, k)
    BY <1>0, <1>2, <2>1, SuppressFacts
  <2>3. SameActions(Row, new) BY <1>1, <2>2, SameActionsFacts
  <2>4. /\ new[actno].suppressed = 1
        /\ \A k \in 1 .. Len(Row) \ {actno, pref} : SameFate(Row, new, k)
    BY <1>0, <1>1, <1>2, <2>2 DEF SameFate
  <2> QED BY <1>0, <1>3, <2>2, <2>3, <2>4 DEF Outcome, Turned, Unresolved, Tried
<1>4. CASE ~(g.backtrack /\ Row[pref].suppressed = 0)
  <2>1. new = x BY <1>2, <1>4 DEF StartBacktrack
  <2> QED BY <1>0, <1>1, <1>2, <1>4, <2>1 DEF Outcome, Turned, Unresolved, Tried
<1> QED BY <1>3, <1>4

LEMMA PrecedenceOutcome ==
    ASSUME IsList(Row), actno \in 1 .. Len(Row), pref \in 1 .. actno - 1,
           Row[pref].symbol = Row[actno].symbol, HasPrec, NEW new, Totals' = Totals,
           \/ /\ Row[pref].prec <= Row[actno].prec
              /\ new = Suppress(Row, pref, 2) /\ pref' = actno
           \/ /\ Row[actno].prec <= Row[pref].prec
              /\ new = Suppress(Row, actno, 2) \/ new = Suppress(Suppress(Row, pref, 2), actno, 2)
              /\ pref' = pref
    PROVE  Outcome(new)
<1>0. pref \in 1 .. Len(Row) /\ pref # actno /\ pref # 0 BY DEF IsList
<1>1. Row[pref].prec > 0 /\ Row[actno].prec > 0 BY DEF HasPrec
<1> PICK x : x = Suppress(Row, pref, 2) OBVIOUS
<1>2. /\ SameActions(Row, x) /\ x[pref].suppressed = 2
      /\ \A k \in 1 .. Len(Row) \ {pref} : SameFate(Row, x, k)
  BY <1>0, SuppressFacts
<1>3. IsList(x) /\ Len(x) = Len(Row) BY <1>2 DEF SameActions
<1>4. CASE Row[pref].prec <= Row[actno].prec /\ new = x /\ pref' = actno
  <2>1. SameFate(Row, new, actno) BY <1>0, <1>2, <1>4
  <2> QED BY <1>0, <1>1, <1>2, <1>4, <2>1 DEF Outcome, Turned, Settled, Taken
<1>5. CASE Row[actno].prec <= Row[pref].prec /\ new = Suppress(Row, actno, 2) /\ pref' = pref
  <2>1. /\ SameActions(Row, new) /\ new[actno].suppressed = 2
        /\ \A k \in 1 .. Len(Row) \ {actno} : SameFate(Row, new, k)
    BY <1>5, SuppressFacts
  <2>2. SameFate(Row, new, pref) BY <1>0, <2>1
  <2> QED BY <1>0, <1>1, <1>5, <2>1, <2>2 DEF Outcome, Turned, Settled, Beaten
<1>6. CASE Row[actno].prec <= Row[pref].prec /\ new = Suppress(x, actno, 2) /\ pref' = pref
  <2>1. /\ SameActions(x, new) /\ new[actno].suppressed = 2
        /\ \A k \in 1 .. Len(x) \ {actno} : SameFate(x, new, k)
    BY <1>3, <1>6, SuppressFacts
  <2>2. SameActions(Row, new) BY <1>2, <2>1, SameActionsFacts
  <2>3. new[pref].suppressed = 2 /\ \A k \in 1 .. Len(Row) \ {actno, pref} : SameFate(Row, new, k)
    BY <1>0, <1>2, <1>3, <2>1 DEF SameFate
  <2> QED BY <1>0, <1>1, <1>6, <2>1, <2>2, <2>3 DEF Outcome, Turned, Settled, Beaten
<1> QED BY <1>4, <1>5, <1>6

LEMMA ResolveOutcome ==
    ASSUME row \in DOMAIN parser, IsList(Row), actno \in 1 .. Len(Row), pref \in 0 .. actno - 1,
           SRtotal \in Nat, RRtotal \in Nat, Resolve
    PROVE  /\ DOMAIN parser' = DOMAIN parser
           /\ \A n \in DOMAIN parser \ {row} : parser'[n] = parser[n]
           /\ SRtotal' \in Nat /\ RRtotal' \in Nat
           /\ Outcome(parser'[row])
<1>1. ASSUME NEW acts, Becomes(acts)
      PROVE  /\ DOMAIN parser' = DOMAIN parser
             /\ \A n \in DOMAIN parser \ {row} : parser'[n] = parser[n]
             /\ parser'[row] = acts
  BY <1>1 DEF Becomes
<1>2. CASE NewSymbol /\ pref' = actno /\ UNCHANGED << parser, SRtotal, RRtotal >>
  <2>1. SameActions(Row, Row) /\ \A k \in 1 .. Len(Row) : SameFate(Row, Row, k)
    BY SameActionsFacts DEF SameFate
  <2>2. Passed(Row, Row, actno, pref, pref') /\ Totals' = Totals
    BY <1>2 DEF Passed, NewSymbol, Totals
  <2>3. parser'[row] = Row BY <1>2 DEF Row
  <2> QED BY <1>2, <2>1, <2>2, <2>3 DEF Outcome, Turned
<1>3. CASE ~NewSymbol
  <2>1. pref \in 1 .. actno - 1 /\ Row[pref].symbol = Row[actno].symbol BY <1>3 DEF NewSymbol
  <2>2. IsAction(Row[pref]) /\ IsAction(Row[actno])
    <3>1. pref \in 1 .. Len(Row) BY <2>1 DEF IsList
    <3> QED BY <3>1 DEF IsList
  <2>3. CASE /\ CountSR \/ CountRR
             /\ g.lemon_prec_flag /\ row # final_state /\ Row[actno].prec > 0 /\ Row[pref].prec > 0
                   => Row[actno].prec = Row[pref].prec
    <3>1. Unsettled /\ Totals' = Totals + 1 /\ SRtotal' \in Nat /\ RRtotal' \in Nat
      BY <2>3 DEF CountSR, CountRR, Totals
    <3>2. Becomes(StartBacktrack(Suppress(Row, actno, 1), pref)) /\ pref' = pref
      BY <3>1 DEF Unsettled
    <3>3. Outcome(StartBacktrack(Suppress(Row, actno, 1), pref))
      BY <2>1, <2>3, <3>1, <3>2, UnsettledOutcome
    <3> QED BY <1>1, <3>1, <3>2, <3>3
  <2>4. CASE /\ HasPrec
             /\ \/ Row[pref].prec <= Row[actno].prec /\ TakeOver
                \/ Row[actno].prec <= Row[pref].prec /\ (KeepPref \/ LoseBoth)
    <3>1. Totals' = Totals /\ SRtotal' \in Nat /\ RRtotal' \in Nat
      BY <2>4 DEF TakeOver, KeepPref, LoseBoth, Totals
    <3>2. PICK new :
             /\ Becomes(new)
             /\ \/ /\ Row[pref].prec <= Row[actno].prec
                   /\ new = Suppress(Row, pref, 2) /\ pref' = actno
                \/ /\ Row[actno].prec <= Row[pref].prec
                   /\ new = Suppress(Row, actno, 2) \/ new = Suppress(Suppress(Row, pref, 2), actno, 2)
                   /\ pref' = pref
      BY <2>4 DEF TakeOver, KeepPref, LoseBoth
    <3>3. Outcome(new) BY <2>1, <2>4, <3>1, <3>2, PrecedenceOutcome
    <3> QED BY <1>1, <3>1, <3>2, <3>3
  <2>5. CASE AtAccept /\ CountSR BY <2>3, <2>5 DEF AtAccept
  <2>6. CASE HasPrec /\ ByPrecedence
    <3>1. CASE Row[pref].prec < Row[actno].prec /\ TakeOver BY <2>2, <2>4, <2>6, <3>1 DEF IsAction
    <3>2. CASE Row[pref].prec > Row[actno].prec /\ KeepPref BY <2>2, <2>4, <2>6, <3>2 DEF IsAction
    <3>3. CASE Row[pref].prec = Row[actno].prec /\ CountRR BY <2>3, <3>3
    <3>4. CASE Row[pref].prec = Row[actno].prec /\ (TakeOver \/ KeepPref \/ LoseBoth)
      BY <2>2, <2>4, <2>6, <3>4 DEF IsAction
    <3> QED BY <2>6, <3>1, <3>2, <3>3, <3>4 DEF ByPrecedence
  <2>7. CASE ~HasPrec /\ (CountSR \/ CountRR) BY <2>3, <2>7 DEF HasPrec
  <2> QED BY <1>3, <2>5, <2>6, <2>7 DEF Resolve
<1> QED BY <1>2, <1>3 DEF Resolve

-----------------------------------------------------------------------------
(***************************************************************************)
(* What is true of a list whose first e actions have been examined.  The   *)
(* actions of a symbol stand together, so only those of the last symbol,   *)
(* the group of the preferred action, can still change.                    *)
(***************************************************************************)
SameSymbol(acts, k, l) == acts[k].symbol = acts[l].symbol
IsLive(acts, k) == acts[k].suppressed = 0
AllPrec(acts, k) == \A l \in 1 .. Len(acts) : SameSymbol(acts, l, k) => acts[l].prec > 0

Untouched(acts, e) == \A k \in e + 1 .. Len(acts) : IsLive(acts, k)

OneLive(acts, e) ==
    \A k, l \in 1 .. e : SameSymbol(acts, k, l) /\ IsLive(acts, k) /\ IsLive(acts, l) => k = l

OnlyTrials(acts, e) ==
    \A k \in 1 .. e :
        /\ acts[k].suppressed \in {0, 1}
        /\ \A l \in 1 .. e : k # l /\ SameSymbol(acts, k, l) => acts[k].suppressed = 1

LiveIsStrongest(acts, e) ==
    \A k, l \in 1 .. e :
        SameSymbol(acts, k, l) /\ IsLive(acts, k) /\ AllPrec(acts, k) => acts[l].prec <= acts[k].prec

PrefLeads(acts, e, q) ==
    /\ q \in 0 .. e /\ (q = 0 => e = 0)
    /\ e > 0 => SameSymbol(acts, q, e)
    /\ \A k \in 1 .. e : SameSymbol(acts, k, q) /\ IsLive(acts, k) => k = q

PrefIsStrongest(acts, e, q) ==
    \A k \in 1 .. e : SameSymbol(acts, k, q) /\ AllPrec(acts, k) => acts[k].prec <= acts[q].prec

(* A turn of the loop, from the list acts to the list new. *)
Turn(acts, new, p, q, q2) ==
    /\ Turned(acts, new, p, q)
    /\ \/ Passed(acts, new, p, q, q2)
       \/ Settled(acts, new, p, q, q2)
       \/ Unresolved(acts, new, p, q, q2)

(* The first action of a symbol has none of its symbol before it. *)
LEMMA NewGroup ==
    ASSUME NEW acts, IsList(acts), NEW p \in 1 .. Len(acts), NEW q, PrefLeads(acts, p - 1, q)
    PROVE  (\E k \in 1 .. p - 1 : SameSymbol(acts, k, p)) <=> q # 0 /\ SameSymbol(acts, q, p)
<1>0. p \in Nat /\ Len(acts) \in Nat /\ p <= Len(acts) BY DEF IsList
<1>1. ASSUME NEW k \in 1 .. p - 1, SameSymbol(acts, k, p) PROVE q # 0 /\ SameSymbol(acts, q, p)
  <2>1. p - 1 > 0 /\ q # 0 /\ SameSymbol(acts, q, p - 1) BY <1>0, <1>1 DEF PrefLeads
  <2>2. k \in 1 .. Len(acts) /\ p - 1 \in 1 .. Len(acts) /\ k <= p - 1 /\ p - 1 <= p BY <1>0, <2>1
  <2>3. acts[k].symbol <= acts[p - 1].symbol /\ acts[p - 1].symbol <= acts[p].symbol
    BY <2>2, BySymbol
  <2>4. IsAction(acts[k]) /\ IsAction(acts[p - 1]) /\ IsAction(acts[p]) BY <2>2 DEF IsList
  <2> QED BY <1>1, <2>1, <2>3, <2>4 DEF SameSymbol, IsAction
<1>2. ASSUME q # 0, SameSymbol(acts, q, p) PROVE \E k \in 1 .. p - 1 : SameSymbol(acts, k, p)
  <2>1. q \in 1 .. p - 1 BY <1>0, <1>2 DEF PrefLeads
  <2> QED BY <1>2, <2>1
<1> QED BY <1>1, <1>2

(* The facts about a turn that the lemmas below need. *)
TurnResult(acts, new, p, q, q2) ==
    /\ IsList(new) /\ Len(new) = Len(acts) /\ p \in Nat /\ Len(acts) \in Nat
    /\ \A k, l \in 1 .. Len(acts) : SameSymbol(new, k, l) <=> SameSymbol(acts, k, l)
    /\ \A k \in 1 .. Len(acts) :
          /\ new[k].prec = acts[k].prec /\ acts[k].prec \in Nat /\ acts[k].symbol \in Nat
          /\ acts[k].suppressed \in 0 .. 2
          /\ AllPrec(new, k) <=> AllPrec(acts, k)
          /\ k \notin {p, q} => SameFate(acts, new, k)
    /\ \/ q2 = p /\ new = acts /\ \A k \in 1 .. p - 1 : ~SameSymbol(acts, k, p)
       \/ /\ q \in 1 .. p - 1 /\ SameSymbol(acts, q, p) /\ SameSymbol(acts, q, p - 1)
          /\ \A k \in 1 .. p - 1 : SameSymbol(acts, k, q) /\ IsLive(acts, k) => k = q
          /\ \/ /\ Taken(acts, new, p, q, q2) \/ Beaten(acts, new, p, q, q2)
                /\ acts[p].prec > 0
             \/ Tried(acts, new, p, q, q2)

LEMMA TurnFacts ==
    ASSUME NEW acts, IsList(acts), NEW p \in 1 .. Len(acts), NEW q, PrefLeads(acts, p - 1, q),
           NEW new, NEW q2, Turn(acts, new, p, q, q2)
    PROVE  TurnResult(acts, new, p, q, q2)
<1>1. /\ IsList(new) /\ Len(new) = Len(acts) /\ p \in Nat /\ Len(acts) \in Nat
      /\ \A k \in 1 .. Len(acts) : new[k].symbol = acts[k].symbol /\ new[k].prec = acts[k].prec
  <2>1. SameActions(acts, new) BY DEF Turn, Turned
  <2>2. Len(acts) \in Nat BY DEF IsList
  <2> QED BY <2>1, <2>2 DEF SameActions
<1>2. \A k, l \in 1 .. Len(acts) : SameSymbol(new, k, l) <=> SameSymbol(acts, k, l)
  BY <1>1 DEF SameSymbol
<1>3. \A k \in 1 .. Len(acts) : AllPrec(new, k) <=> AllPrec(acts, k) BY <1>1, <1>2 DEF AllPrec
<1>4. \A k \in 1 .. Len(acts) :
         acts[k].prec \in Nat /\ acts[k].symbol \in Nat /\ acts[k].suppressed \in 0 .. 2
  BY DEF IsList, IsAction
<1>5. \A k \in 1 .. Len(acts) : k \notin {p, q} => SameFate(acts, new, k) BY DEF Turn, Turned
<1>6. CASE Passed(acts, new, p, q, q2)
  <2>1. ~(q # 0 /\ SameSymbol(acts, q, p)) BY <1>6 DEF Passed, SameSymbol
  <2>2. \A k \in 1 .. p - 1 : ~SameSymbol(acts, k, p) BY <2>1, NewGroup
  <2>3. q2 = p /\ new = acts BY <1>6 DEF Passed
  <2> QED BY <1>1, <1>2, <1>3, <1>4, <1>5, <2>2, <2>3 DEF TurnResult
<1>7. CASE Settled(acts, new, p, q, q2) \/ Unresolved(acts, new, p, q, q2)
  <2>1. q \in 1 .. p - 1 /\ SameSymbol(acts, q, p)
    BY <1>1, <1>7 DEF Settled, Unresolved, SameSymbol, PrefLeads
  <2>2. SameSymbol(acts, q, p - 1) /\ \A k \in 1 .. p - 1 : SameSymbol(acts, k, q) /\ IsLive(acts, k) => k = q
    BY <1>1, <2>1 DEF PrefLeads
  <2>3. \/ /\ Taken(acts, new, p, q, q2) \/ Beaten(acts, new, p, q, q2)
           /\ acts[p].prec > 0
        \/ Tried(acts, new, p, q, q2)
    BY <1>7 DEF Settled, Unresolved
  <2> QED BY <1>1, <1>2, <1>3, <1>4, <1>5, <2>1, <2>2, <2>3 DEF TurnResult
<1> QED BY <1>6, <1>7 DEF Turn

LEMMA TurnKeepsUntouched ==
    ASSUME NEW acts, IsList(acts), NEW p \in 1 .. Len(acts), NEW q, PrefLeads(acts, p - 1, q),
           NEW new, NEW q2, Turn(acts, new, p, q, q2), Untouched(acts, p - 1)
    PROVE  Untouched(new, p)
<1>t. TurnResult(acts, new, p, q, q2) BY TurnFacts
<1>1. \A k \in 1 .. Len(acts) : k \notin {p, q} => SameFate(acts, new, k) BY <1>t DEF TurnResult
<1>0. q \in 0 .. p - 1 BY DEF PrefLeads
<1>2. Len(new) = Len(acts) /\ p \in Nat /\ Len(acts) \in Nat /\ (q \in Int /\ q < p)
  BY <1>0, <1>t DEF TurnResult
<1>3. \A k \in p + 1 .. Len(acts) : k \in 1 .. Len(acts) /\ k \in (p - 1) + 1 .. Len(acts) /\ k \notin {p, q}
  BY <1>2
<1> QED BY <1>1, <1>2, <1>3 DEF Untouched, SameFate, IsLive

LEMMA TurnKeepsPref ==
    ASSUME NEW acts, IsList(acts), NEW p \in 1 .. Len(acts), NEW q, PrefLeads(acts, p - 1, q),
           NEW new, NEW q2, Turn(acts, new, p, q, q2)
    PROVE  PrefLeads(new, p, q2)
<1>t. TurnResult(acts, new, p, q, q2) BY TurnFacts
<1>1. p \in Nat /\ p > 0 /\ p <= Len(acts) /\ Len(acts) \in Nat /\ 1 .. p - 1 \subseteq 1 .. Len(acts)
  BY <1>t DEF TurnResult
<1>2. \A k, l \in 1 .. Len(acts) : SameSymbol(new, k, l) <=> SameSymbol(acts, k, l) BY <1>t DEF TurnResult
<1>3. \A k \in 1 .. p : k \in 1 .. Len(acts) /\ (k = p \/ k \in 1 .. p - 1) BY <1>1
<1>4. CASE q2 = p /\ new = acts /\ \A k \in 1 .. p - 1 : ~SameSymbol(acts, k, p)
  BY <1>1, <1>3, <1>4 DEF PrefLeads, SameSymbol
<1>5. CASE /\ q \in 1 .. p - 1 /\ SameSymbol(acts, q, p)
           /\ \A k \in 1 .. p - 1 : SameSymbol(acts, k, q) /\ IsLive(acts, k) => k = q
           /\ \/ Taken(acts, new, p, q, q2) \/ Beaten(acts, new, p, q, q2)
              \/ Tried(acts, new, p, q, q2)
  <2>1. \A k \in 1 .. p - 1 \ {q} : SameSymbol(acts, k, q) => ~IsLive(new, k)
    <3>1. \A k \in 1 .. p - 1 \ {q} : SameFate(acts, new, k) BY <1>1, <1>t DEF TurnResult
    <3> QED BY <1>5, <3>1 DEF SameFate, IsLive
  <2>2. q \in 1 .. Len(acts) /\ p \in 1 .. Len(acts) BY <1>1, <1>5
  <2>3. \A k \in 1 .. p : SameSymbol(new, k, p) <=> SameSymbol(acts, k, q)
    <3>1. \A k \in 1 .. p : SameSymbol(new, k, p) <=> SameSymbol(acts, k, p) BY <1>2, <1>3, <2>2
    <3> QED BY <1>5, <3>1 DEF SameSymbol
  <2>4. \A k \in 1 .. p : SameSymbol(new, k, q) <=> SameSymbol(acts, k, q) BY <1>2, <1>3, <2>2
  <2>5. CASE q2 = p /\ ~IsLive(new, q) BY <1>1, <1>3, <2>1, <2>3, <2>5 DEF PrefLeads, SameSymbol
  <2>6. CASE q2 = q /\ ~IsLive(new, p)
    <3>1. SameSymbol(new, q, p) BY <1>2, <1>5, <2>2
    <3> QED BY <1>1, <1>3, <1>5, <2>1, <2>4, <2>6, <3>1 DEF PrefLeads
  <2> QED BY <1>5, <2>5, <2>6 DEF Taken, Beaten, Tried, IsLive
<1> QED BY <1>4, <1>5, <1>t DEF TurnResult

LEMMA TurnKeepsOneLive ==
    ASSUME NEW acts, IsList(acts), NEW p \in 1 .. Len(acts), NEW q, PrefLeads(acts, p - 1, q),
           NEW new, NEW q2, Turn(acts, new, p, q, q2), OneLive(acts, p - 1)
    PROVE  OneLive(new, p)
<1>t. TurnResult(acts, new, p, q, q2) BY TurnFacts
<1>1. p \in Nat /\ Len(acts) \in Nat /\ \A k \in 1 .. p : k \in 1 .. Len(acts) /\ (k = p \/ k \in 1 .. p - 1)
  BY <1>t DEF TurnResult
<1>2. \A k, l \in 1 .. p : SameSymbol(new, k, l) <=> SameSymbol(acts, k, l) BY <1>1, <1>t DEF TurnResult
<1>3. \A k \in 1 .. p - 1 : k # p /\ (IsLive(new, k) => IsLive(acts, k))
  <2>1. \A k \in 1 .. p - 1 : k # p /\ k \in 1 .. Len(acts) BY <1>1
  <2>2. \A k \in 1 .. p - 1 : k # q => SameFate(acts, new, k) BY <2>1, <1>t DEF TurnResult
  <2>3. q \in 1 .. p - 1 => (IsLive(new, q) => IsLive(acts, q))
    BY <2>1, <1>t DEF TurnResult, Taken, Beaten, Tried, IsLive, SameFate
  <2> QED BY <2>1, <2>2, <2>3 DEF SameFate, IsLive
<1>4. \A k \in 1 .. p - 1 : SameSymbol(acts, k, p) => ~(IsLive(new, k) /\ IsLive(new, p))
  <2>1. PrefLeads(new, p, q2) BY TurnKeepsPref
  <2>2. ASSUME NEW k \in 1 .. p - 1, SameSymbol(acts, k, p), IsLive(new, k), IsLive(new, p) PROVE FALSE
    <3>1. k \in 1 .. p /\ p \in 1 .. p /\ SameSymbol(new, k, p) /\ SameSymbol(new, q2, p) BY <1>1, <1>2, <2>1, <2>2 DEF PrefLeads
    <3>2. SameSymbol(new, k, q2) /\ SameSymbol(new, p, q2) BY <3>1 DEF SameSymbol
    <3>3. k = q2 /\ p = q2 BY <2>1, <2>2, <3>1, <3>2 DEF PrefLeads
    <3> QED BY <1>1, <3>3
  <2> QED BY <2>2
<1>5. ASSUME NEW k \in 1 .. p, NEW l \in 1 .. p, SameSymbol(new, k, l), IsLive(new, k), IsLive(new, l)
      PROVE  k = l
  <2>1. SameSymbol(acts, k, l) /\ SameSymbol(acts, l, k) BY <1>2, <1>5 DEF SameSymbol
  <2>2. CASE k = p \/ l = p BY <1>1, <1>4, <1>5, <2>1, <2>2
  <2>3. CASE k \in 1 .. p - 1 /\ l \in 1 .. p - 1 BY <1>3, <1>5, <2>1, <2>3 DEF OneLive
  <2> QED BY <1>1, <2>2, <2>3
<1> QED BY <1>5 DEF OneLive

LEMMA TurnKeepsTrials ==
    ASSUME NEW acts, IsList(acts), NEW p \in 1 .. Len(acts), NEW q, PrefLeads(acts, p - 1, q),
           NEW new, NEW q2, Turn(acts, new, p, q, q2), OnlyTrials(acts, p - 1), IsLive(acts, p),
           g.backtrack, acts[p].prec = 0
    PROVE  OnlyTrials(new, p)
<1>t. TurnResult(acts, new, p, q, q2) BY TurnFacts
<1>1. p \in Nat /\ Len(acts) \in Nat /\ \A k \in 1 .. p : k \in 1 .. Len(acts) /\ (k = p \/ k \in 1 .. p - 1)
  BY <1>t DEF TurnResult
<1>2. \A k, l \in 1 .. p : SameSymbol(new, k, l) <=> SameSymbol(acts, k, l) BY <1>1, <1>t DEF TurnResult
<1>3. CASE new = acts /\ \A k \in 1 .. p - 1 : ~SameSymbol(acts, k, p)
  <2>1. \A k \in 1 .. p - 1 : ~SameSymbol(acts, p, k) BY <1>3 DEF SameSymbol
  <2> QED BY <1>1, <1>3, <2>1 DEF OnlyTrials, IsLive
<1>4. CASE q \in 1 .. p - 1 /\ SameSymbol(acts, q, p) /\ Tried(acts, new, p, q, q2)
  <2>1. new[p].suppressed = 1 /\ new[q].suppressed = 1
    <3>1. acts[q].suppressed \in {0, 1} BY <1>4 DEF OnlyTrials
    <3> QED BY <1>4, <3>1 DEF Tried
  <2>2. \A k \in 1 .. p - 1 \ {q} : new[k].suppressed = acts[k].suppressed
    <3>1. \A k \in 1 .. p - 1 \ {q} : k \notin {p, q} /\ k \in 1 .. Len(acts) BY <1>1
    <3> QED BY <3>1, <1>t DEF TurnResult, SameFate
  <2>3. \A k \in 1 .. p - 1 \ {q} : SameSymbol(acts, k, p) => new[k].suppressed = 1
    <3>1. \A k \in 1 .. p - 1 \ {q} : SameSymbol(acts, k, p) => SameSymbol(acts, k, q)
      BY <1>4 DEF SameSymbol
    <3> QED BY <1>4, <2>2, <3>1 DEF OnlyTrials
  <2>4. ASSUME NEW k \in 1 .. p
        PROVE  new[k].suppressed \in {0, 1} BY <1>1, <2>1, <2>2 DEF OnlyTrials
  <2>5. ASSUME NEW k \in 1 .. p, NEW l \in 1 .. p, k # l, SameSymbol(new, k, l)
        PROVE  new[k].suppressed = 1
    <3>1. SameSymbol(acts, k, l) BY <1>2, <2>5
    <3>2. CASE k = p \/ k = q BY <2>1, <3>2
    <3>3. CASE k \in 1 .. p - 1 \ {q} /\ l = p BY <2>3, <3>1, <3>3
    <3>4. CASE k \in 1 .. p - 1 \ {q} /\ l \in 1 .. p - 1 BY <2>2, <2>5, <3>1, <3>4 DEF OnlyTrials
    <3> QED BY <1>1, <3>2, <3>3, <3>4
  <2> QED BY <2>4, <2>5 DEF OnlyTrials
<1> QED BY <1>3, <1>4, <1>t DEF TurnResult

LEMMA TurnKeepsPrefStrongest ==
    ASSUME NEW acts, IsList(acts), NEW p \in 1 .. Len(acts), NEW q, PrefLeads(acts, p - 1, q),
           NEW new, NEW q2, Turn(acts, new, p, q, q2), PrefIsStrongest(acts, p - 1, q),
           g.lemon_prec_flag, row # final_state
    PROVE  PrefIsStrongest(new, p, q2)
<1>t. TurnResult(acts, new, p, q, q2) BY TurnFacts
<1>1. p \in Nat /\ Len(acts) \in Nat /\ \A k \in 1 .. p : k \in 1 .. Len(acts) /\ (k = p \/ k \in 1 .. p - 1)
  BY <1>t DEF TurnResult
<1>2. \A k, l \in 1 .. Len(acts) : SameSymbol(new, k, l) <=> SameSymbol(acts, k, l) BY <1>t DEF TurnResult
<1>3. \A k \in 1 .. Len(acts) :
         new[k].prec = acts[k].prec /\ acts[k].prec \in Nat /\ (AllPrec(new, k) <=> AllPrec(acts, k))
  BY <1>t DEF TurnResult
<1>4. p \in 1 .. p /\ p \in 1 .. Len(acts) BY <1>1
<1>5. CASE q2 = p /\ new = acts /\ \A k \in 1 .. p - 1 : ~SameSymbol(acts, k, p)
  BY <1>1, <1>3, <1>4, <1>5 DEF PrefIsStrongest
<1>6. CASE /\ q \in 1 .. p - 1 /\ SameSymbol(acts, q, p)
           /\ \/ Taken(acts, new, p, q, q2) \/ Beaten(acts, new, p, q, q2)
              \/ Tried(acts, new, p, q, q2)
  <2>1. q \in 1 .. Len(acts) /\ q2 \in {p, q} BY <1>1, <1>6 DEF Taken, Beaten, Tried
  <2>2. ASSUME NEW k \in 1 .. p, SameSymbol(new, k, q2), AllPrec(new, k)
        PROVE  acts[k].prec <= acts[q2].prec
    <3>1. SameSymbol(acts, k, q) /\ AllPrec(acts, k)
      <4>1. SameSymbol(acts, k, q2) /\ AllPrec(acts, k) BY <1>1, <1>2, <1>3, <1>4, <2>1, <2>2
      <4> QED BY <1>6, <2>1, <4>1 DEF SameSymbol
    <3>2. acts[p].prec > 0 /\ acts[q].prec > 0
      <4>1. SameSymbol(acts, p, k) /\ SameSymbol(acts, q, k) BY <1>6, <3>1 DEF SameSymbol
      <4> QED BY <1>4, <2>1, <3>1, <4>1 DEF AllPrec
    <3>3. \/ acts[q].prec <= acts[p].prec /\ q2 = p
          \/ acts[p].prec <= acts[q].prec /\ q2 = q
      BY <1>3, <1>4, <1>6, <2>1, <3>2 DEF Taken, Beaten, Tried
    <3>4. CASE k = p BY <1>3, <1>4, <2>1, <3>3, <3>4
    <3>5. CASE k \in 1 .. p - 1
      <4>1. acts[k].prec <= acts[q].prec BY <3>1, <3>5 DEF PrefIsStrongest
      <4> QED BY <1>1, <1>3, <1>4, <2>1, <3>3, <4>1
    <3> QED BY <1>1, <3>4, <3>5
  <2> QED BY <1>1, <1>3, <1>4, <2>1, <2>2 DEF PrefIsStrongest
<1> QED BY <1>5, <1>6, <1>t DEF TurnResult

LEMMA TurnKeepsStrongest ==
    ASSUME NEW acts, IsList(acts), NEW p \in 1 .. Len(acts), NEW q, PrefLeads(acts, p - 1, q),
           NEW new, NEW q2, Turn(acts, new, p, q, q2), LiveIsStrongest(acts, p - 1),
           PrefIsStrongest(acts, p - 1, q), g.lemon_prec_flag, row # final_state
    PROVE  LiveIsStrongest(new, p)
<1>t. TurnResult(acts, new, p, q, q2) BY TurnFacts
<1>1. p \in Nat /\ Len(acts) \in Nat /\ \A k \in 1 .. p : k \in 1 .. Len(acts) /\ (k = p \/ k \in 1 .. p - 1)
  BY <1>t DEF TurnResult
<1>2. \A k, l \in 1 .. Len(acts) : SameSymbol(new, k, l) <=> SameSymbol(acts, k, l) BY <1>t DEF TurnResult
<1>3. \A k \in 1 .. Len(acts) :
         new[k].prec = acts[k].prec /\ acts[k].prec \in Nat /\ (AllPrec(new, k) <=> AllPrec(acts, k))
  BY <1>t DEF TurnResult
<1>4. PrefLeads(new, p, q2) /\ PrefIsStrongest(new, p, q2) BY TurnKeepsPref, TurnKeepsPrefStrongest
<1>5. ASSUME NEW k \in 1 .. p, NEW l \in 1 .. p, SameSymbol(new, k, l), IsLive(new, k), AllPrec(new, k)
      PROVE  new[l].prec <= new[k].prec
  <2>1. CASE SameSymbol(new, k, p)
    <3>1. SameSymbol(new, q2, p) BY <1>1, <1>4 DEF PrefLeads
    <3>2. SameSymbol(new, k, q2) /\ SameSymbol(new, l, q2) BY <1>5, <2>1, <3>1 DEF SameSymbol
    <3>3. k = q2 BY <1>4, <1>5, <3>2 DEF PrefLeads
    <3>4. AllPrec(new, l) BY <1>5 DEF AllPrec, SameSymbol
    <3> QED BY <1>4, <3>2, <3>3, <3>4 DEF PrefIsStrongest
  <2>2. CASE ~SameSymbol(new, k, p)
    <3>1. ~SameSymbol(acts, k, p) /\ ~SameSymbol(acts, l, p) /\ SameSymbol(acts, k, l) /\ AllPrec(acts, k)
      <4>1. ~SameSymbol(new, l, p) BY <1>5, <2>2 DEF SameSymbol
      <4> QED BY <1>1, <1>2, <1>3, <1>5, <2>2, <4>1
    <3>2. k \in 1 .. p - 1 /\ l \in 1 .. p - 1 BY <1>1, <3>1 DEF SameSymbol
    <3>3. IsLive(acts, k)
      <4>1. CASE new = acts BY <1>5, <4>1
      <4>2. CASE SameSymbol(acts, q, p)
        <5>1. k \notin {p, q} BY <3>1, <4>2 DEF SameSymbol
        <5>2. SameFate(acts, new, k) BY <1>1, <5>1, <1>t DEF TurnResult
        <5> QED BY <1>5, <5>2 DEF SameFate, IsLive
      <4> QED BY <4>1, <4>2, <1>t DEF TurnResult
    <3>4. acts[l].prec <= acts[k].prec BY <3>1, <3>2, <3>3 DEF LiveIsStrongest
    <3> QED BY <1>1, <1>3, <3>4
  <2> QED BY <2>1, <2>2
<1> QED BY <1>5 DEF LiveIsStrongest

-----------------------------------------------------------------------------
(***************************************************************************)
(* The invariant of make_parser().                                         *)
(***************************************************************************)
Examined(n) == IF n < row THEN Len(parser[n]) ELSE IF n = row THEN actno - 1 ELSE 0

ListOK(acts, n, e) ==
    /\ IsList(acts) /\ e \in 0 .. Len(acts)
    /\ \A k \in 1 .. Len(acts) : GrammarPrec(acts[k].prec)
    /\ Untouched(acts, e) /\ OneLive(acts, e)
    /\ g.backtrack /\ NoPrecedence => OnlyTrials(acts, e)
    /\ g.lemon_prec_flag /\ n # final_state => LiveIsStrongest(acts, e)

GroupOK(acts, n, e, q) ==
    /\ PrefLeads(acts, e, q)
    /\ g.lemon_prec_flag /\ n # final_state => PrefIsStrongest(acts, e, q)

(* The losers the loop has met so far; each has been counted. *)
Loses(acts, l) == \E m \in 1 .. l - 1 : SameSymbol(acts, m, l)
Seen == { e \in Losers : e[2] <= Examined(e[1]) }
CountOK == IsFiniteSet(Seen) /\ Totals = Cardinality(Seen)

RowsOK ==
    /\ DOMAIN parser = DOMAIN states
    /\ row \in 0 .. nstates /\ SRtotal \in Nat /\ RRtotal \in Nat
    /\ \A n \in DOMAIN parser : ListOK(parser[n], n, Examined(n))
    /\ row < nstates => GroupOK(Row, row, actno - 1, pref)
    /\ actno \in Nat \ {0} /\ (row = nstates => actno = 1)
    /\ NoPrecedence => CountOK
    /\ phase = "done" => row = nstates

MkparInv ==
    /\ LR0Inv
    /\ phase \notin {"remove_conflicts", "done"} =>
          actno = 1 /\ pref = 0 /\ SRtotal = 0 /\ RRtotal = 0
    /\ phase \in {"remove_conflicts", "done"} => RowsOK

LEMMA LoserFacts ==
    /\ Losers = { e \in UNION { { << n, k >> : k \in DOMAIN parser[n] } : n \in DOMAIN states } :
                     Loses(parser[e[1]], e[2]) }
    /\ \A e \in Losers : e = << e[1], e[2] >> /\ e[1] \in DOMAIN states /\ e[2] \in DOMAIN parser[e[1]]
BY DEF Losers, Loses, SameSymbol

(* One turn of the loop keeps what is true of a list. *)
LEMMA TurnKeepsList ==
    ASSUME row \in DOMAIN parser, ListOK(Row, row, actno - 1), GroupOK(Row, row, actno - 1, pref),
           actno \in 1 .. Len(Row), NEW new, Turn(Row, new, actno, pref, pref')
    PROVE  ListOK(new, row, actno) /\ GroupOK(new, row, actno, pref')
<1>1. IsList(Row) /\ PrefLeads(Row, actno - 1, pref) BY DEF ListOK, GroupOK
<1>2. TurnResult(Row, new, actno, pref, pref') BY <1>1, TurnFacts
<1>3. IsList(new) /\ Len(new) = Len(Row) /\ actno \in 0 .. Len(new)
  BY <1>2 DEF TurnResult
<1>4. \A k \in 1 .. Len(new) : GrammarPrec(new[k].prec) BY <1>2 DEF TurnResult, ListOK
<1>5. Untouched(new, actno) /\ OneLive(new, actno)
  BY <1>1, TurnKeepsUntouched, TurnKeepsOneLive DEF ListOK
<1>6. ASSUME g.backtrack, NoPrecedence PROVE OnlyTrials(new, actno)
  <2>1. OnlyTrials(Row, actno - 1) BY <1>6 DEF ListOK
  <2>2. IsLive(Row, actno)
    <3>1. actno \in (actno - 1) + 1 .. Len(Row) BY <1>3
    <3> QED BY <3>1 DEF ListOK, Untouched
  <2>3. Row[actno].prec = 0
    <3>1. GrammarPrec(Row[actno].prec) BY DEF ListOK
    <3> QED BY <1>6, <3>1 DEF GrammarPrec, NoPrecedence
  <2> QED BY <1>1, <1>6, <2>1, <2>2, <2>3, TurnKeepsTrials
<1>7. ASSUME g.lemon_prec_flag, row # final_state
      PROVE  LiveIsStrongest(new, actno) /\ PrefIsStrongest(new, actno, pref')
  <2>1. LiveIsStrongest(Row, actno - 1) /\ PrefIsStrongest(Row, actno - 1, pref)
    BY <1>7 DEF ListOK, GroupOK
  <2> QED BY <1>1, <1>7, <2>1, TurnKeepsStrongest, TurnKeepsPrefStrongest
<1>8. PrefLeads(new, actno, pref') BY <1>1, TurnKeepsPref
<1> QED BY <1>3, <1>4, <1>5, <1>6, <1>7, <1>8 DEF ListOK, GroupOK

(* The lists depend on the grammar and the final state only. *)
LEMMA SameList ==
    ASSUME UNCHANGED << g, final_state >>, NEW acts, NEW n, NEW e, ListOK(acts, n, e)
    PROVE  ListOK(acts, n, e)'
BY DEF ListOK, NoPrecedence, GrammarPrec

LEMMA ListActionsKeeps ==
    ASSUME LR0Inv, LR0Inv', phase \notin {"remove_conflicts", "done"} =>
               actno = 1 /\ pref = 0 /\ SRtotal = 0 /\ RRtotal = 0,
           ListActions
    PROVE  MkparInv'
<1>1. phase = "make_parser" /\ phase' = "remove_conflicts" BY DEF ListActions, LalrDone
<1>2. g \in Grammars /\ AutomatonOK /\ this = nstates BY <1>1 DEF LR0Inv, AutomatonOK, ProgressOK
<1>3. /\ actno' = 1 /\ pref' = 0 /\ SRtotal' = 0 /\ RRtotal' = 0 /\ row' = 0
      /\ UNCHANGED << g, states >> /\ parser' = [n \in DOMAIN states |-> ParseActions(n)]
  BY <1>1 DEF ListActions
<1>4. nstates' = nstates /\ nstates \in Nat /\ nstates > 0 /\ DOMAIN states = 0 .. nstates - 1
  BY <1>2, <1>3 DEF nstates, AutomatonOK, Numbered
<1>5. DOMAIN parser' = DOMAIN states BY <1>3
<1>6. \A n \in DOMAIN states : Examined(n)' = 0 /\ n \in Nat BY <1>3, <1>4 DEF Examined
<1>7. \A n \in DOMAIN states : ListOK(parser[n], n, Examined(n))'
  <2> SUFFICES ASSUME NEW n \in DOMAIN states PROVE ListOK(parser[n], n, Examined(n))' OBVIOUS
  <2>1. /\ IsList(ParseActions(n))
        /\ \A k \in 1 .. Len(ParseActions(n)) :
              ParseActions(n)[k].suppressed = 0 /\ GrammarPrec(ParseActions(n)[k].prec)
    BY <1>1, <1>2, ParseActionsFacts
  <2> PICK acts : acts = ParseActions(n) OBVIOUS
  <2>2. ListOK(acts, n, 0)'
    BY <1>3, <2>1 DEF IsList, ListOK, Untouched, OneLive, OnlyTrials, LiveIsStrongest, IsLive, GrammarPrec
  <2>3. parser'[n] = acts BY <1>3
  <2> QED BY <1>6, <2>2, <2>3
<1>8. GroupOK(Row, row, actno - 1, pref)'
  <2>1. (actno - 1)' = 0 BY <1>3
  <2>2. \A acts, n : GroupOK(acts, n, 0, 0)' BY DEF GroupOK, PrefLeads, PrefIsStrongest
  <2> QED BY <1>3, <2>1, <2>2
<1>9. CountOK'
  <2>1. Seen' = {}
    <3>1. \A e \in Losers' : e[1] \in DOMAIN states' /\ e[2] \in DOMAIN parser'[e[1]] BY DEF Losers
    <3>2. \A n \in DOMAIN states : DOMAIN parser'[n] \subseteq Nat \ {0}
      BY <1>5, <1>7 DEF ListOK, IsList
    <3>3. \A e \in Losers' : Examined(e[1])' = 0 /\ e[2] \in Nat \ {0} BY <1>3, <1>6, <3>1, <3>2
    <3>4. \A e \in Losers' : ~(e[2] <= Examined(e[1])') BY <3>3
    <3> QED BY <3>4 DEF Seen
  <2>2. Totals' = 0 BY <1>3 DEF Totals
  <2> QED BY <2>1, <2>2, FS_EmptySet DEF CountOK
<1>10. RowsOK' BY <1>1, <1>3, <1>4, <1>5, <1>7, <1>8, <1>9 DEF RowsOK
<1> QED BY <1>1, <1>10 DEF MkparInv

(* Where the loop stands. *)
LEMMA InRow ==
    ASSUME LR0Inv, RowsOK, phase = "remove_conflicts", row < nstates
    PROVE  /\ row \in DOMAIN parser /\ row \in Nat /\ actno \in Nat \ {0}
           /\ ListOK(Row, row, actno - 1) /\ GroupOK(Row, row, actno - 1, pref)
           /\ IsList(Row) /\ actno - 1 <= Len(Row) /\ Len(Row) \in Nat
           /\ nstates \in Nat /\ DOMAIN parser = 0 .. nstates - 1
<1>1. /\ DOMAIN parser = DOMAIN states /\ row \in 0 .. nstates
      /\ \A n \in DOMAIN parser : ListOK(parser[n], n, Examined(n))
      /\ GroupOK(Row, row, actno - 1, pref) /\ actno \in Nat \ {0}
  BY DEF RowsOK
<1>2. nstates \in Nat /\ DOMAIN states = 0 .. nstates - 1 BY DEF LR0Inv, AutomatonOK, Numbered
<1>3. row \in DOMAIN parser /\ row \in Nat BY <1>1, <1>2
<1>4. Examined(row) = actno - 1 BY <1>3 DEF Examined
<1>5. ListOK(Row, row, actno - 1) BY <1>1, <1>3, <1>4 DEF Row
<1>6. IsList(Row) /\ Len(Row) \in Nat /\ actno - 1 \in 0 .. Len(Row) BY <1>5 DEF ListOK, IsList
<1> QED BY <1>1, <1>2, <1>3, <1>5, <1>6

(* The losers met so far grow by the action that was not passed. *)
LEMMA TurnKeepsCount ==
    ASSUME LR0Inv, RowsOK, phase = "remove_conflicts", row < nstates, actno <= Len(Row),
           NEW new, Outcome(new), NoPrecedence,
           UNCHANGED << states, row >>, actno' = actno + 1,
           DOMAIN parser' = DOMAIN parser, parser'[row] = new,
           \A n \in DOMAIN parser \ {row} : parser'[n] = parser[n]
    PROVE  CountOK'
<1>1. /\ row \in DOMAIN parser /\ row \in Nat /\ actno \in 1 .. Len(Row)
      /\ IsList(Row) /\ Len(Row) \in Nat /\ PrefLeads(Row, actno - 1, pref)
      /\ DOMAIN parser = DOMAIN states /\ \A n \in DOMAIN parser : n \in Nat
      /\ \A k \in 1 .. Len(Row) : GrammarPrec(Row[k].prec)
  BY InRow DEF GroupOK, ListOK, RowsOK
<1>2. SameActions(Row, new) BY DEF Outcome, Turned
<1>3. \A n \in DOMAIN parser : Len(parser'[n]) = Len(parser[n]) /\ DOMAIN parser'[n] = DOMAIN parser[n]
  <2>1. Len(new) = Len(Row) /\ DOMAIN new = DOMAIN Row BY <1>1, <1>2 DEF SameActions, IsList
  <2> QED BY <2>1 DEF Row
<1>4. \A n \in DOMAIN parser : \A k, l \in DOMAIN parser[n] :
         SameSymbol(parser'[n], k, l) <=> SameSymbol(parser[n], k, l)
  <2>1. \A k, l \in DOMAIN Row : SameSymbol(new, k, l) <=> SameSymbol(Row, k, l)
    BY <1>1, <1>2 DEF SameActions, SameSymbol, IsList
  <2> QED BY <2>1 DEF Row
<1>5. \A n \in DOMAIN parser : DOMAIN parser[n] = 1 .. Len(parser[n]) /\ Len(parser[n]) \in Nat
  BY DEF RowsOK, ListOK, IsList
<1>6. Losers' = Losers
  <2>1. \A n \in DOMAIN parser : \A l \in DOMAIN parser[n] :
           Loses(parser'[n], l) <=> Loses(parser[n], l)
    <3>1. \A n \in DOMAIN parser : \A l \in DOMAIN parser[n] : \A m \in 1 .. l - 1 : m \in DOMAIN parser[n]
      BY <1>5
    <3> QED BY <1>4, <3>1 DEF Loses
  <2>2. \A n \in DOMAIN parser :
           { l \in DOMAIN parser'[n] : \E m \in 1 .. l - 1 : parser'[n][m].symbol = parser'[n][l].symbol }
              = { l \in DOMAIN parser[n] : \E m \in 1 .. l - 1 : parser[n][m].symbol = parser[n][l].symbol }
    BY <1>3, <2>1 DEF Loses, SameSymbol
  <2> QED BY <1>1, <2>2 DEF Losers
<1>7. \A n \in DOMAIN parser : n # row => Examined(n)' = Examined(n) BY <1>1, <1>3 DEF Examined
<1>8. Examined(row) = actno - 1 /\ Examined(row)' = actno BY <1>1 DEF Examined
<1>9. \A e \in Losers : e = << e[1], e[2] >> /\ e[1] \in DOMAIN parser /\ e[2] \in Nat
  BY <1>1, <1>5, LoserFacts
<1>10. Seen' = IF << row, actno >> \in Losers THEN Seen \cup { << row, actno >> } ELSE Seen
  <2>1. \A e \in Losers : (e[2] <= Examined(e[1]))' <=> e[2] <= Examined(e[1]) \/ e = << row, actno >>
    <3> SUFFICES ASSUME NEW e \in Losers
                 PROVE  (e[2] <= Examined(e[1]))' <=> e[2] <= Examined(e[1]) \/ e = << row, actno >> OBVIOUS
    <3>1. e = << e[1], e[2] >> /\ e[1] \in DOMAIN parser /\ e[2] \in Nat BY <1>9
    <3>2. CASE e[1] # row BY <1>7, <3>1, <3>2
    <3>3. CASE e[1] = row BY <1>1, <1>8, <3>1, <3>3
    <3> QED BY <3>2, <3>3
  <2> QED BY <1>6, <2>1 DEF Seen
<1>11. << row, actno >> \notin Seen
  <2>1. ~(actno <= actno - 1) BY <1>1
  <2> QED BY <1>8, <2>1 DEF Seen
<1>12. << row, actno >> \in Losers <=> Loses(Row, actno)
  <2>1. actno \in DOMAIN parser[row] /\ row \in DOMAIN states BY <1>1, <1>5 DEF Row
  <2> QED BY <2>1, LoserFacts DEF Row
<1>13. Loses(Row, actno) <=> pref # 0 /\ SameSymbol(Row, pref, actno)
  BY <1>1, NewGroup DEF Loses
<1>14. CASE Passed(Row, new, actno, pref, pref') /\ Totals' = Totals
  <2>1. << row, actno >> \notin Losers BY <1>12, <1>13, <1>14 DEF Passed, SameSymbol
  <2>2. Seen' = Seen BY <1>10, <2>1
  <2> QED BY <1>14, <2>2 DEF CountOK, RowsOK
<1>15. CASE Unresolved(Row, new, actno, pref, pref') /\ Totals' = Totals + 1
  <2>1. << row, actno >> \in Losers BY <1>12, <1>13, <1>15 DEF Unresolved, SameSymbol
  <2>2. Seen' = Seen \cup { << row, actno >> } BY <1>10, <2>1
  <2>3. IsFiniteSet(Seen) /\ Totals = Cardinality(Seen) BY DEF CountOK, RowsOK
  <2>4. IsFiniteSet(Seen') /\ Cardinality(Seen') = Cardinality(Seen) + 1
    BY <1>11, <2>2, <2>3, FS_AddElement
  <2> QED BY <1>15, <2>3, <2>4 DEF CountOK
<1>16. CASE Settled(Row, new, actno, pref, pref')
  <2>1. GrammarPrec(Row[actno].prec) /\ Row[actno].prec > 0 BY <1>1, <1>16 DEF Settled
  <2>2. Row[actno].prec = 0 BY <2>1 DEF GrammarPrec, NoPrecedence
  <2> QED BY <2>1, <2>2
<1> QED BY <1>14, <1>15, <1>16 DEF Outcome

LEMMA RemoveConflictsKeeps ==
    ASSUME LR0Inv, LR0Inv', RowsOK, RemoveConflicts
    PROVE  MkparInv'
<1>1. /\ phase = "remove_conflicts" /\ row < nstates /\ actno <= Len(Row) /\ Resolve
      /\ actno' = actno + 1 /\ phase' = phase
      /\ UNCHANGED << g, states, final_state, row >>
  BY DEF RemoveConflicts, lr0Vars
<1>2. /\ row \in DOMAIN parser /\ row \in Nat /\ actno \in 1 .. Len(Row)
      /\ ListOK(Row, row, actno - 1) /\ GroupOK(Row, row, actno - 1, pref)
      /\ IsList(Row) /\ nstates \in Nat /\ \A n \in DOMAIN parser : n \in Nat
  BY <1>1, InRow
<1>3. pref \in 0 .. actno - 1 /\ SRtotal \in Nat /\ RRtotal \in Nat
  BY <1>2 DEF GroupOK, PrefLeads, RowsOK
<1>4. /\ DOMAIN parser' = DOMAIN parser
      /\ \A n \in DOMAIN parser \ {row} : parser'[n] = parser[n]
      /\ SRtotal' \in Nat /\ RRtotal' \in Nat
      /\ Outcome(parser'[row])
  BY <1>1, <1>2, <1>3, ResolveOutcome
<1> PICK new : new = parser'[row] OBVIOUS
<1>5. Turn(Row, new, actno, pref, pref') BY <1>4 DEF Outcome, Turn
<1>6. ListOK(new, row, actno) /\ GroupOK(new, row, actno, pref') BY <1>2, <1>5, TurnKeepsList
<1>7. (\A n \in DOMAIN parser : n = row => Examined(n)' = actno) /\ (actno - 1)' = actno
  BY <1>1, <1>2 DEF Examined
<1>8. \A n \in DOMAIN parser \ {row} : Examined(n)' = Examined(n) BY <1>1, <1>4 DEF Examined
<1>9. \A n \in DOMAIN parser' : ListOK(parser[n], n, Examined(n))'
  <2> SUFFICES ASSUME NEW n \in DOMAIN parser PROVE ListOK(parser[n], n, Examined(n))' BY <1>4
  <2> PICK acts : acts = parser'[n] OBVIOUS
  <2> PICK e : e = Examined(n)' OBVIOUS
  <2>1. ListOK(acts, n, e)
    <3>1. CASE n = row BY <1>6, <1>7, <3>1
    <3>2. CASE n # row BY <1>4, <1>8, <3>2 DEF RowsOK
    <3> QED BY <3>1, <3>2
  <2>2. ListOK(acts, n, e)' BY <1>1, <2>1, SameList
  <2> QED BY <2>2
<1>10. GroupOK(Row, row, actno - 1, pref)'
  <2> PICK q, e, f : q = pref' /\ e = (actno - 1)' /\ f = row' OBVIOUS
  <2>1. GroupOK(new, f, e, q) BY <1>1, <1>6, <1>7
  <2>2. GroupOK(new, f, e, q)' BY <1>1, <2>1 DEF GroupOK
  <2>3. Row' = new BY <1>1 DEF Row
  <2> QED BY <2>2, <2>3
<1>11. NoPrecedence' => CountOK'
  <2>1. NoPrecedence' <=> NoPrecedence BY <1>1 DEF NoPrecedence
  <2> QED BY <1>1, <1>4, <2>1, TurnKeepsCount
<1>12. RowsOK'
  <2>1. nstates' = nstates /\ DOMAIN parser' = DOMAIN states' BY <1>1, <1>4 DEF nstates, RowsOK
  <2>2. row' \in 0 .. nstates' /\ actno' \in Nat \ {0} /\ row' # nstates' BY <1>1, <1>2, <2>1
  <2> QED BY <1>1, <1>4, <1>9, <1>10, <1>11, <2>1, <2>2 DEF RowsOK
<1> QED BY <1>1, <1>12 DEF MkparInv

LEMMA NextRowKeeps ==
    ASSUME LR0Inv, LR0Inv', RowsOK, NextRow
    PROVE  MkparInv'
<1>1. /\ phase = "remove_conflicts" /\ row < nstates /\ actno > Len(Row) /\ phase' = phase
      /\ row' = row + 1 /\ actno' = 1 /\ pref' = 0
      /\ UNCHANGED << g, states, parser, final_state, SRtotal, RRtotal >>
  BY DEF NextRow, lr0Vars
<1>2. /\ row \in DOMAIN parser /\ row \in Nat /\ actno - 1 = Len(Row)
      /\ nstates \in Nat /\ \A n \in DOMAIN parser : n \in Nat
  <2>1. actno \in Nat \ {0} /\ actno - 1 <= Len(Row) /\ Len(Row) \in Nat BY <1>1, InRow
  <2>2. actno - 1 = Len(Row) BY <1>1, <2>1
  <2> QED BY <1>1, <2>2, InRow
<1>3. \A n \in DOMAIN parser : Examined(n)' = Examined(n)
  <2> SUFFICES ASSUME NEW n \in DOMAIN parser PROVE Examined(n)' = Examined(n) OBVIOUS
  <2>1. Examined(n)' = IF n < row + 1 THEN Len(parser[n]) ELSE IF n = row + 1 THEN 0 ELSE 0
    BY <1>1 DEF Examined
  <2>2. n = row => Examined(n) = Len(parser[n]) BY <1>2 DEF Examined, Row
  <2>3. n < row => Examined(n) = Len(parser[n]) BY DEF Examined
  <2>4. n > row => Examined(n) = 0 BY <1>2 DEF Examined
  <2> QED BY <1>2, <2>1, <2>2, <2>3, <2>4
<1>4. \A n \in DOMAIN parser' : ListOK(parser[n], n, Examined(n))'
  <2> SUFFICES ASSUME NEW n \in DOMAIN parser PROVE ListOK(parser[n], n, Examined(n))' BY <1>1
  <2> PICK acts : acts = parser[n] OBVIOUS
  <2> PICK e : e = Examined(n) OBVIOUS
  <2>1. ListOK(acts, n, e) BY DEF RowsOK
  <2>2. ListOK(acts, n, e)' BY <1>1, <2>1, SameList
  <2> QED BY <1>1, <1>3, <2>2
<1>5. GroupOK(Row, row, actno - 1, pref)'
  <2>1. (actno - 1)' = 0 BY <1>1
  <2>2. \A acts, n : GroupOK(acts, n, 0, 0)' BY DEF GroupOK, PrefLeads, PrefIsStrongest
  <2> QED BY <1>1, <2>1, <2>2
<1>6. NoPrecedence' => CountOK'
  <2>1. NoPrecedence' <=> NoPrecedence BY <1>1 DEF NoPrecedence
  <2>2. Losers' = Losers /\ Totals' = Totals BY <1>1 DEF Losers, Totals
  <2>3. Seen' = Seen
    <3>1. \A e \in Losers : e[1] \in DOMAIN parser BY LoserFacts DEF RowsOK
    <3>2. \A e \in Losers : Examined(e[1])' = Examined(e[1]) BY <1>3, <3>1
    <3> QED BY <2>2, <3>2 DEF Seen
  <2> QED BY <2>1, <2>2, <2>3 DEF CountOK, RowsOK
<1>7. RowsOK'
  <2>1. nstates' = nstates /\ DOMAIN parser' = DOMAIN states' BY <1>1 DEF nstates, RowsOK
  <2>2. row' \in 0 .. nstates' /\ actno' \in Nat \ {0} /\ actno' = 1 BY <1>1, <1>2, <2>1
  <2>3. SRtotal' \in Nat /\ RRtotal' \in Nat BY <1>1 DEF RowsOK
  <2> QED BY <1>1, <1>4, <1>5, <1>6, <2>1, <2>2, <2>3 DEF RowsOK
<1> QED BY <1>1, <1>7 DEF MkparInv

LEMMA RowsStay ==
    ASSUME RowsOK, UNCHANGED << g, states, parser, final_state, row, actno, pref, SRtotal, RRtotal >>,
           phase' = "done" => row = nstates
    PROVE  RowsOK'
<1>1. \A n \in DOMAIN parser : Examined(n)' = Examined(n) BY DEF Examined
<1>2. \A n \in DOMAIN parser' : ListOK(parser[n], n, Examined(n))'
  <2> SUFFICES ASSUME NEW n \in DOMAIN parser PROVE ListOK(parser[n], n, Examined(n))' OBVIOUS
  <2> PICK acts : acts = parser[n] OBVIOUS
  <2> PICK e : e = Examined(n) OBVIOUS
  <2>1. ListOK(acts, n, e) BY DEF RowsOK
  <2>2. ListOK(acts, n, e)' BY <2>1, SameList
  <2> QED BY <1>1, <2>2
<1>3. row < nstates => GroupOK(Row, row, actno - 1, pref)' BY DEF RowsOK, GroupOK, Row
<1>4. NoPrecedence' => CountOK'
  <2>1. NoPrecedence' <=> NoPrecedence BY DEF NoPrecedence
  <2>2. Losers' = Losers /\ Totals' = Totals BY DEF Losers, Totals
  <2>3. Seen' = Seen
    <3>1. \A e \in Losers : e[1] \in DOMAIN parser BY LoserFacts DEF RowsOK
    <3>2. \A e \in Losers : Examined(e[1])' = Examined(e[1]) BY <1>1, <3>1
    <3> QED BY <2>2, <3>2 DEF Seen
  <2> QED BY <2>1, <2>2, <2>3 DEF CountOK, RowsOK
<1>5. nstates' = nstates BY DEF nstates
<1> QED BY <1>2, <1>3, <1>4, <1>5 DEF RowsOK

LEMMA MkparStart == Init => MkparInv
<1> SUFFICES ASSUME Init PROVE MkparInv OBVIOUS
<1>1. LR0Inv BY LR0Start DEF Init
<1> QED BY <1>1 DEF Init, LR0Init, MkparInit, MkparInv

LEMMA MkparStep == MkparInv /\ [Next]_vars => MkparInv'
<1> SUFFICES ASSUME MkparInv, [Next]_vars PROVE MkparInv' OBVIOUS
<1> USE DEF MkparInv
<1>1. CASE LR0Next /\ UNCHANGED << lalrVars, mkparVars >>
  <2>1. LR0Inv' BY <1>1, LR0Step
  <2>2. phase \in {"lr0", "expand", "shift"} /\ phase' \in {"expand", "shift", "fatal"}
    BY <1>1 DEF LR0Next, InitializeStates, Expand, OldState, NewState, TooManyStates, NextStateOfList
  <2>3. UNCHANGED << actno, pref, SRtotal, RRtotal >> BY <1>1 DEF mkparVars
  <2> QED BY <2>1, <2>2, <2>3
<1>2. CASE LalrNext /\ UNCHANGED mkparVars
  <2>1. /\ UNCHANGED << g, firstDerives, states, shift, reds, this, pending >>
        /\ \/ LR0Done /\ phase' \in {"initialize_F", "fatal"}
           \/ /\ phase \in {"initialize_F", "reads", "includes"}
              /\ phase' \in {"reads", "includes", "make_parser"}
    BY <1>2 DEF LalrNext, SetGotoMap, TooManyGotos, InitializeF, BuildRelations, RunDigraph,
                ComputeLookaheads, lr0Vars
  <2>2. LR0Inv' BY <2>1, AutomatonStays
  <2>3. phase \notin {"remove_conflicts", "done"} /\ phase' \notin {"remove_conflicts", "done"}
    BY <2>1 DEF LR0Done
  <2>4. UNCHANGED << actno, pref, SRtotal, RRtotal >> BY <1>2 DEF mkparVars
  <2> QED BY <2>2, <2>3, <2>4
<1>3. CASE MkparNext
  <2>1. /\ UNCHANGED << g, firstDerives, states, shift, reds, this, pending >>
        /\ phase \in {"make_parser", "remove_conflicts"}
        /\ phase' \in {"remove_conflicts", "done"}
    BY <1>3 DEF MkparNext, ListActions, RemoveConflicts, NextRow, Finish, LalrDone, lr0Vars
  <2>2. LR0Inv' BY <2>1, AutomatonStays
  <2>3. CASE ListActions BY <2>2, <2>3, ListActionsKeeps
  <2>4. CASE RemoveConflicts BY <2>2, <2>4, RemoveConflictsKeeps DEF RemoveConflicts
  <2>5. CASE NextRow BY <2>2, <2>5, NextRowKeeps DEF NextRow
  <2>6. CASE Finish
    <3>1. RowsOK' BY <2>6, RowsStay DEF Finish
    <3> QED BY <2>1, <2>2, <3>1
  <2> QED BY <1>3, <2>3, <2>4, <2>5, <2>6 DEF MkparNext
<1>4. CASE UNCHANGED vars
  <2>1. UNCHANGED << lr0Vars, mkparVars >> BY <1>4 DEF vars
  <2>2. LR0Inv' BY <2>1, AutomatonStays DEF lr0Vars
  <2>3. CASE phase \in {"remove_conflicts", "done"}
    <3>1. RowsOK' BY <2>1, <2>3, RowsStay DEF lr0Vars, mkparVars, RowsOK
    <3> QED BY <2>1, <2>2, <2>3, <3>1 DEF lr0Vars
  <2> QED BY <2>1, <2>2, <2>3 DEF lr0Vars, mkparVars
<1> QED BY <1>1, <1>2, <1>3, <1>4 DEF Next

LEMMA MkparInvariant == Spec => []MkparInv
<1> QED BY MkparStart, MkparStep, PTL DEF Spec

-----------------------------------------------------------------------------
(***************************************************************************)
(* What follows for the lists that are done.                               *)
(***************************************************************************)
LEMMA DoneLists ==
    ASSUME MkparInv, phase = "done"
    PROVE  /\ DOMAIN parser = DOMAIN states /\ row = nstates
           /\ \A n \in DOMAIN states :
                 /\ ListOK(parser[n], n, Len(parser[n])) /\ Examined(n) = Len(parser[n])
                 /\ DOMAIN parser[n] = 1 .. Len(parser[n]) /\ Len(parser[n]) \in Nat
<1>1. RowsOK /\ AutomatonOK BY DEF MkparInv, LR0Inv
<1>2. DOMAIN parser = DOMAIN states /\ row = nstates BY <1>1 DEF RowsOK
<1>3. \A n \in DOMAIN states : n < row BY <1>1, <1>2 DEF AutomatonOK, Numbered
<1>4. \A n \in DOMAIN states : Examined(n) = Len(parser[n]) BY <1>3 DEF Examined
<1>5. \A n \in DOMAIN states : ListOK(parser[n], n, Len(parser[n])) BY <1>1, <1>2, <1>4 DEF RowsOK
<1> QED BY <1>2, <1>4, <1>5 DEF ListOK, IsList

(* Two members, if there is more than one. *)
LEMMA TwoMembers ==
    ASSUME NEW S, IsFiniteSet(S), Cardinality(S) > 1, NEW k \in S
    PROVE  \E l \in S : l # k
<1>1. S # {k} BY FS_Singleton
<1> QED BY <1>1

(***************************************************************************)
(* For every grammar, every mix of precedence, associativity and rule      *)
(* order leaves one parse action at most for a state and a token           *)
(* (remove_conflicts()).                                                   *)
(***************************************************************************)
THEOREM OneActionLeft == Spec => []Deterministic
<1>1. MkparInv => Deterministic
  <2> SUFFICES ASSUME MkparInv, phase = "done", NEW n \in DOMAIN states,
                      NEW k \in DOMAIN parser[n], NEW l \in DOMAIN parser[n],
                      parser[n][k].symbol = parser[n][l].symbol,
                      parser[n][k].suppressed = 0, parser[n][l].suppressed = 0
               PROVE  k = l
    BY DEF Deterministic
  <2>1. OneLive(parser[n], Len(parser[n])) /\ DOMAIN parser[n] = 1 .. Len(parser[n])
    BY DoneLists DEF ListOK
  <2> QED BY <2>1 DEF OneLive, SameSymbol, IsLive
<1> QED BY <1>1, MkparInvariant, PTL

(***************************************************************************)
(* For every grammar with lemon_prec_flag, the action that is left for a   *)
(* token is one of the highest precedence among its rivals, if all have    *)
(* one: the comparisons in pairs find the maximum.                         *)
(***************************************************************************)
THEOREM LeftIsStrongest == Spec => []StrongestWins
<1>1. MkparInv => StrongestWins
  <2> SUFFICES ASSUME MkparInv, phase = "done", g.lemon_prec_flag,
                      NEW n \in DOMAIN states \ {final_state}, NEW x \in 0 .. g.ntokens - 1,
                      \A k \in Rivals(n, x) : parser[n][k].prec > 0,
                      NEW k \in Rivals(n, x), NEW l \in Rivals(n, x), parser[n][k].suppressed = 0
               PROVE  parser[n][l].prec <= parser[n][k].prec
    BY DEF StrongestWins
  <2>1. LiveIsStrongest(parser[n], Len(parser[n])) /\ DOMAIN parser[n] = 1 .. Len(parser[n])
    BY DoneLists DEF ListOK
  <2>2. k \in DOMAIN parser[n] /\ l \in DOMAIN parser[n] /\ SameSymbol(parser[n], k, l) /\ IsLive(parser[n], k)
    BY DEF Rivals, SameSymbol, IsLive
  <2>3. AllPrec(parser[n], k) BY <2>1 DEF AllPrec, Rivals, SameSymbol
  <2> QED BY <2>1, <2>2, <2>3 DEF LiveIsStrongest
<1> QED BY <1>1, MkparInvariant, PTL

(***************************************************************************)
(* For every grammar without precedences and with -B, all actions of a     *)
(* conflict become trials.                                                 *)
(***************************************************************************)
THEOREM ConflictsBecomeTrials == Spec => []TrialsComplete
<1>1. MkparInv => TrialsComplete
  <2> SUFFICES ASSUME MkparInv, phase = "done", g.backtrack, NoPrecedence,
                      NEW n \in DOMAIN states, NEW x \in 0 .. g.ntokens - 1,
                      Cardinality(Rivals(n, x)) > 1, NEW k \in Rivals(n, x)
               PROVE  parser[n][k].suppressed = 1
    BY DEF TrialsComplete
  <2>1. /\ OnlyTrials(parser[n], Len(parser[n])) /\ DOMAIN parser[n] = 1 .. Len(parser[n])
        /\ Len(parser[n]) \in Nat
    BY DoneLists DEF ListOK
  <2>2. IsFiniteSet(Rivals(n, x))
    <3>1. 1 \in Int /\ Len(parser[n]) \in Int /\ Rivals(n, x) \subseteq 1 .. Len(parser[n])
      BY <2>1 DEF Rivals
    <3> QED BY <3>1, FS_Interval, FS_Subset
  <2>3. PICK l \in Rivals(n, x) : l # k BY <2>2, TwoMembers
  <2>4. k \in DOMAIN parser[n] /\ l \in DOMAIN parser[n] /\ SameSymbol(parser[n], k, l)
    BY DEF Rivals, SameSymbol
  <2> QED BY <2>1, <2>3, <2>4 DEF OnlyTrials
<1> QED BY <1>1, MkparInvariant, PTL

(***************************************************************************)
(* For every grammar without precedences, the conflict totals count every  *)
(* action but the first of each state and token, and each of them once.    *)
(***************************************************************************)
THEOREM EveryLossIsCounted == Spec => []CountsEveryLoss
<1>1. MkparInv => CountsEveryLoss
  <2> SUFFICES ASSUME MkparInv, phase = "done", NoPrecedence
               PROVE  SRtotal + RRtotal = Cardinality(Losers)
    BY DEF CountsEveryLoss
  <2>1. Totals = Cardinality(Seen) BY DEF MkparInv, RowsOK, CountOK
  <2>2. \A e \in Losers : e[2] <= Examined(e[1])
    <3> SUFFICES ASSUME NEW e \in Losers PROVE e[2] <= Examined(e[1]) OBVIOUS
    <3>1. e[1] \in DOMAIN states /\ e[2] \in DOMAIN parser[e[1]] BY LoserFacts
    <3>2. Examined(e[1]) = Len(parser[e[1]]) /\ DOMAIN parser[e[1]] = 1 .. Len(parser[e[1]])
      BY <3>1, DoneLists
    <3> QED BY <3>1, <3>2
  <2>3. Seen = Losers BY <2>2 DEF Seen
  <2> QED BY <2>1, <2>3 DEF Totals
<1> QED BY <1>1, MkparInvariant, PTL

-----------------------------------------------------------------------------
(***************************************************************************)
(* What the actions are: a shift is a transition of the automaton by its   *)
(* symbol, a reduction one of a rule completed in its state.  It is what   *)
(* the tables of the parser rest on.                                       *)
(***************************************************************************)
OriginOK(n, a) ==
    /\ a.symbol < g.ntokens
    /\ a.action_code = SHIFT => Leads(n, a.number) /\ Accessing(a.number) = a.symbol
    /\ a.action_code = REDUCE => a.number \in Completed(Itemset(n))

Origins ==
    /\ DOMAIN parser = DOMAIN states
    /\ \A n \in DOMAIN states :
          IsList(parser[n]) /\ \A k \in 1 .. Len(parser[n]) : OriginOK(n, parser[n][k])
FinalOK == Leads(0, final_state) /\ Accessing(final_state) = g.ntokens + 1
DefredOK == \A n \in DOMAIN states : defred[n] = 0 \/ defred[n] \in Completed(Itemset(n))

ActionsInv ==
    /\ MkparInv
    /\ phase \in {"remove_conflicts", "done"} => Origins /\ FinalOK
    /\ phase = "done" => DefredOK

LEMMA SourceOK ==
    ASSUME Built, NEW n \in DOMAIN states, NEW a, Source(n, a)
    PROVE  OriginOK(n, a)
<1>1. shift[n] \in Seq(DOMAIN states) /\ \A k \in 1 .. Len(shift[n]) : Leads(n, shift[n][k])
  BY Transitions
<1>2. \A q \in ToSet(shift[n]) : Leads(n, q) BY <1>1 DEF ToSet
<1>3. AutomatonOK /\ g \in Grammars /\ n \in DOMAIN reds
  BY DEF Built, LR0Inv, AutomatonOK, ProgressOK, Expanded, Numbered
<1>4. ToSet(reds[n]) \in SUBSET Completed(Itemset(n))
  <2>1. Itemset(n) \in SUBSET ItemsOf(g) BY <1>3, ClosureItems DEF AutomatonOK, StatesOK, Itemset
  <2>2. Increasing(reds[n], Completed(Itemset(n)))
    BY <1>3, <2>1, OrderOfReductions DEF AutomatonOK, RedsOK
  <2> QED BY <2>2 DEF Increasing, ToSet
<1>5. CASE \E q \in ToSet(shift[n]) : ISTOKEN(AccessingSymbol(q)) /\ a = ShiftAction(q)
  <2>1. PICK q \in ToSet(shift[n]) : ISTOKEN(AccessingSymbol(q)) /\ a = ShiftAction(q) BY <1>5
  <2>2. a.action_code = SHIFT /\ a.number = q /\ a.symbol = Accessing(q) /\ a.symbol < g.ntokens
    BY <2>1 DEF ShiftAction, AccessingSymbol, Accessing, ISTOKEN, start_symbol
  <2> QED BY <1>2, <2>2 DEF OriginOK, SHIFT, REDUCE
<1>6. CASE \E r \in ToSet(reds[n]) : \E t \in 0 .. g.ntokens - 1 : a = ReduceAction(t, r)
  <2>1. PICK r \in ToSet(reds[n]), t \in 0 .. g.ntokens - 1 : a = ReduceAction(t, r) BY <1>6
  <2>2. a.action_code = REDUCE /\ a.number = r /\ a.symbol = t BY <2>1 DEF ReduceAction
  <2>3. t < g.ntokens
    <3>1. g.ntokens \in Nat BY <1>3, GrammarsAssumption DEF GrammarOK
    <3> QED BY <3>1
  <2> QED BY <1>4, <2>3, <2>2 DEF OriginOK, SHIFT, REDUCE
<1> QED BY <1>5, <1>6 DEF Source

(* State 0 has a transition by the goal. *)
LEMMA GoalTransition ==
    ASSUME Built
    PROVE  0 \in DOMAIN states /\ g.ntokens + 1 \in Nexts(Itemset(0)) /\ << 2, 0 >> \in Itemset(0)
<1>1. g \in Grammars /\ StatesOK /\ Numbered BY DEF Built, LR0Inv, AutomatonOK
<1>2. GrammarOK(g) BY <1>1, GrammarsAssumption
<1>3. 2 \in RulesOf(g, start_symbol) /\ Rhs(g, 2) = << g.ntokens + 1, 0 >> /\ g.ntokens \in Nat
  BY <1>2 DEF GrammarOK, RulesOf, start_symbol, Rhs
<1>4. << 2, 0 >> \in Itemset(0) BY <1>1, <1>3 DEF StatesOK, Itemset, closure
<1>5. NextSymbol(<< 2, 0 >>) = g.ntokens + 1 BY <1>3 DEF NextSymbol
<1>6. g.ntokens + 1 > 0 BY <1>3
<1> QED BY <1>1, <1>4, <1>5, <1>6 DEF Nexts, Numbered

LEMMA FinalStateFound ==
    ASSUME Built
    PROVE  Leads(0, FindFinalState) /\ Accessing(FindFinalState) = g.ntokens + 1
<1>1. 0 \in DOMAIN states /\ g.ntokens + 1 \in Nexts(Itemset(0)) BY GoalTransition
<1>2. PICK q : Leads(0, q) /\ Accessing(q) = g.ntokens + 1 BY <1>1, Transitions
<1>3. GrammarOK(g) BY GrammarsAssumption DEF Built, LR0Inv
<1>4. Head(Rhs(g, g.top)) = g.ntokens + 1 BY <1>3 DEF GrammarOK, Rhs
<1>5. shift[0] \in Seq(DOMAIN states) /\ \A p \in ToSet(shift[0]) : Leads(0, p)
  BY <1>1, Transitions DEF ToSet, Leads
<1>6. q \in ToSet(shift[0]) BY <1>2, <1>5 DEF Leads, ToSet
<1>7. \E p \in ToSet(shift[0]) : AccessingSymbol(p) = Head(Rhs(g, g.top))
  BY <1>2, <1>4, <1>6 DEF Accessing, AccessingSymbol
<1>8. /\ FindFinalState \in ToSet(shift[0])
      /\ AccessingSymbol(FindFinalState) = Head(Rhs(g, g.top)) BY <1>7 DEF FindFinalState
<1> QED BY <1>4, <1>5, <1>8 DEF Accessing, AccessingSymbol

(* A default reduction is one of the actions. *)
LEMMA SoleReductionOK ==
    ASSUME NEW n, NEW acts, IsList(acts), \A k \in 1 .. Len(acts) : OriginOK(n, acts[k])
    PROVE  SoleReduction(acts) = 0 \/ SoleReduction(acts) \in Completed(Itemset(n))
<1> DEFINE live == { k \in DOMAIN acts : MaySuppress(acts[k]) }
<1>1. DOMAIN acts = 1 .. Len(acts) BY DEF IsList
<1>2. CASE (\E k \in live : acts[k].action_code = SHIFT) \/ (\A k \in live : acts[k].symbol = 1)
  BY <1>2 DEF SoleReduction
<1>3. CASE ~((\E k \in live : acts[k].action_code = SHIFT) \/ (\A k \in live : acts[k].symbol = 1))
  <2> DEFINE c == CHOOSE k \in live : TRUE
  <2>1. SoleReduction(acts) = 0 \/ SoleReduction(acts) = acts[c].number BY DEF SoleReduction
  <2>2. c \in live BY <1>3
  <2> HIDE DEF c
  <2>3. c \in 1 .. Len(acts) /\ acts[c].action_code # SHIFT BY <1>1, <1>3, <2>2
  <2>4. acts[c].action_code = REDUCE BY <2>3 DEF IsList, IsAction
  <2>5. acts[c].number \in Completed(Itemset(n)) BY <2>3, <2>4 DEF OriginOK
  <2> QED BY <2>1, <2>5
<1> QED BY <1>2, <1>3

(* The automaton does not change any more. *)
LEMMA SameOrigin ==
    ASSUME UNCHANGED << g, firstDerives, states, shift >>
    PROVE  /\ \A n, a : OriginOK(n, a)' <=> OriginOK(n, a)
           /\ \A n : Completed(Itemset(n))' = Completed(Itemset(n))
           /\ \A n, q : Leads(n, q)' <=> Leads(n, q)
           /\ \A q : Accessing(q)' = Accessing(q)
<1>1. \A it : NextSymbol(it)' = NextSymbol(it) BY DEF NextSymbol
<1>2. \A n : Itemset(n)' = Itemset(n) BY <1>1 DEF Itemset, closure, start_symbol
<1>3. \A n : Completed(Itemset(n))' = Completed(Itemset(n)) BY <1>1, <1>2 DEF Completed
<1>4. \A n, q : Leads(n, q)' <=> Leads(n, q) BY DEF Leads
<1>5. \A q : Accessing(q)' = Accessing(q) BY DEF Accessing
<1> QED BY <1>3, <1>4, <1>5 DEF OriginOK

LEMMA OriginsStay ==
    ASSUME Built, Origins, FinalOK,
           UNCHANGED << g, firstDerives, states, shift, parser, final_state >>
    PROVE  Origins' /\ FinalOK'
<1>1. Origins' BY SameOrigin DEF Origins
<1>2. FinalOK' BY SameOrigin DEF FinalOK
<1> QED BY <1>1, <1>2

LEMMA ListActionsOrigins ==
    ASSUME Built, ListActions
    PROVE  Origins' /\ FinalOK'
<1>1. /\ UNCHANGED << g, firstDerives, states, shift >>
      /\ parser' = [n \in DOMAIN states |-> ParseActions(n)] /\ final_state' = FindFinalState
  BY DEF ListActions
<1>2. g \in Grammars /\ AutomatonOK /\ this = nstates /\ phase # "shift"
  BY DEF Built, LR0Inv, AutomatonOK, ProgressOK
<1>3. ASSUME NEW n \in DOMAIN states
      PROVE  IsList(parser'[n]) /\ \A k \in 1 .. Len(parser'[n]) : OriginOK(n, parser'[n][k])
  <2>1. PICK acts : acts = ParseActions(n) OBVIOUS
  <2>2. IsList(acts) /\ \A k \in 1 .. Len(acts) : Source(n, acts[k]) BY <1>2, <2>1, ParseActionsFacts
  <2>3. \A k \in 1 .. Len(acts) : OriginOK(n, acts[k]) BY <2>2, SourceOK
  <2> QED BY <1>1, <2>1, <2>2, <2>3
<1>4. Origins'
  <2>1. ASSUME NEW n \in DOMAIN states'
        PROVE  IsList(parser'[n]) /\ \A k \in 1 .. Len(parser'[n]) : OriginOK(n, parser[n][k])'
    <3> PICK acts : acts = parser'[n] OBVIOUS
    <3>1. IsList(acts) /\ \A k \in 1 .. Len(acts) : OriginOK(n, acts[k]) BY <1>1, <1>3
    <3>2. \A k \in 1 .. Len(acts) : OriginOK(n, acts[k])' BY <1>1, <3>1, SameOrigin
    <3> QED BY <3>1, <3>2
  <2> QED BY <1>1, <2>1 DEF Origins
<1>5. FinalOK'
  <2>1. Leads(0, final_state') /\ Accessing(final_state') = g.ntokens + 1 BY <1>1, FinalStateFound
  <2>2. PICK q : q = final_state' OBVIOUS
  <2>3. Leads(0, q)' /\ Accessing(q)' = g.ntokens + 1 BY <1>1, <2>1, <2>2, SameOrigin
  <2> QED BY <1>1, <2>2, <2>3 DEF FinalOK
<1> QED BY <1>4, <1>5

LEMMA RemoveConflictsOrigins ==
    ASSUME Built, MkparInv, Origins, FinalOK, RemoveConflicts
    PROVE  Origins' /\ FinalOK'
<1>1. /\ phase = "remove_conflicts" /\ row < nstates /\ actno <= Len(Row) /\ Resolve
      /\ UNCHANGED << g, firstDerives, states, shift, final_state >>
  BY DEF RemoveConflicts, lr0Vars
<1>2. LR0Inv /\ RowsOK BY <1>1 DEF MkparInv
<1>3. /\ row \in DOMAIN parser /\ actno \in 1 .. Len(Row) /\ IsList(Row)
      /\ GroupOK(Row, row, actno - 1, pref)
  BY <1>1, <1>2, InRow
<1>4. pref \in 0 .. actno - 1 /\ SRtotal \in Nat /\ RRtotal \in Nat
  BY <1>2, <1>3 DEF GroupOK, PrefLeads, RowsOK
<1>5. /\ DOMAIN parser' = DOMAIN parser
      /\ \A n \in DOMAIN parser \ {row} : parser'[n] = parser[n]
      /\ Outcome(parser'[row])
  BY <1>1, <1>3, <1>4, ResolveOutcome
<1>6. SameActions(Row, parser'[row]) BY <1>5 DEF Outcome, Turned
<1>7. ASSUME NEW n \in DOMAIN states'
      PROVE  IsList(parser'[n]) /\ \A k \in 1 .. Len(parser'[n]) : OriginOK(n, parser[n][k])'
  <2> PICK acts, new : acts = parser[n] /\ new = parser'[n] OBVIOUS
  <2>1. IsList(acts) /\ \A k \in 1 .. Len(acts) : OriginOK(n, acts[k]) BY <1>1 DEF Origins
  <2>2. SameActions(acts, new)
    <3>1. CASE n = row BY <1>6, <3>1 DEF Row
    <3>2. CASE n # row
      <4>1. new = acts BY <1>1, <1>5, <3>2 DEF Origins
      <4> QED BY <2>1, <4>1, SameActionsFacts
    <3> QED BY <3>1, <3>2
  <2>3. IsList(new) /\ \A k \in 1 .. Len(new) : OriginOK(n, new[k])
    BY <2>1, <2>2 DEF SameActions, OriginOK
  <2>4. \A k \in 1 .. Len(new) : OriginOK(n, new[k])' BY <1>1, <2>3, SameOrigin
  <2> QED BY <2>3, <2>4
<1>8. Origins' BY <1>1, <1>5, <1>7 DEF Origins
<1>9. FinalOK' BY <1>1, SameOrigin DEF FinalOK
<1> QED BY <1>8, <1>9

LEMMA FinishOrigins ==
    ASSUME Built, Origins, FinalOK, Finish
    PROVE  Origins' /\ FinalOK' /\ DefredOK'
<1>1. /\ UNCHANGED << g, firstDerives, states, shift, parser, final_state >>
      /\ defred' = [n \in DOMAIN states |-> SoleReduction(parser[n])]
  BY DEF Finish
<1>2. Origins' /\ FinalOK' BY <1>1, OriginsStay
<1>3. ASSUME NEW n \in DOMAIN states PROVE defred'[n] = 0 \/ defred'[n] \in Completed(Itemset(n))
  <2>1. PICK acts : acts = parser[n] OBVIOUS
  <2>2. IsList(acts) /\ \A k \in 1 .. Len(acts) : OriginOK(n, acts[k]) BY <2>1 DEF Origins
  <2>3. defred'[n] = SoleReduction(acts) BY <1>1, <2>1
  <2> QED BY <2>2, <2>3, SoleReductionOK
<1>4. DefredOK'
  <2>1. \A n : Completed(Itemset(n))' = Completed(Itemset(n)) BY <1>1, SameOrigin
  <2> QED BY <1>1, <1>3, <2>1 DEF DefredOK
<1> QED BY <1>2, <1>4

LEMMA ActionsStart == Init => ActionsInv
BY MkparStart DEF ActionsInv, Init, LR0Init

LEMMA ActionsStep == ActionsInv /\ [Next]_vars => ActionsInv'
<1> SUFFICES ASSUME ActionsInv, [Next]_vars PROVE ActionsInv' OBVIOUS
<1>1. MkparInv /\ MkparInv' BY MkparStep DEF ActionsInv
<1>2. phase \in {"make_parser", "remove_conflicts", "done"} => Built BY <1>1 DEF MkparInv, Built
<1>3. CASE LR0Next \/ LalrNext
  <2>1. phase' \notin {"remove_conflicts", "done"}
    <3>1. LR0Next => phase' \notin {"remove_conflicts", "done"}
      BY DEF LR0Next, InitializeStates, Expand, OldState, NewState, TooManyStates, NextStateOfList
    <3>2. LalrNext => phase' \notin {"remove_conflicts", "done"}
      BY DEF LalrNext, SetGotoMap, TooManyGotos, InitializeF, BuildRelations, RunDigraph,
             ComputeLookaheads, lr0Vars
    <3> QED BY <1>3, <3>1, <3>2
  <2> QED BY <1>1, <2>1 DEF ActionsInv
<1>4. CASE ListActions
  <2>1. phase = "make_parser" /\ phase' = "remove_conflicts" BY <1>4 DEF ListActions, LalrDone
  <2> QED BY <1>1, <1>2, <1>4, <2>1, ListActionsOrigins DEF ActionsInv
<1>5. CASE RemoveConflicts
  <2>1. phase = "remove_conflicts" /\ phase' = phase BY <1>5 DEF RemoveConflicts, lr0Vars
  <2> QED BY <1>1, <1>2, <1>5, <2>1, RemoveConflictsOrigins DEF ActionsInv
<1>6. CASE NextRow
  <2>1. /\ phase = "remove_conflicts" /\ phase' = phase
        /\ UNCHANGED << g, firstDerives, states, shift, parser, final_state >>
    BY <1>6 DEF NextRow, lr0Vars
  <2> QED BY <1>1, <1>2, <2>1, OriginsStay DEF ActionsInv
<1>7. CASE Finish
  <2>1. phase = "remove_conflicts" /\ phase' = "done" BY <1>7 DEF Finish
  <2> QED BY <1>1, <1>2, <1>7, <2>1, FinishOrigins DEF ActionsInv
<1>8. CASE UNCHANGED vars
  <2>1. UNCHANGED << g, firstDerives, states, shift, parser, final_state, phase, defred >>
    BY <1>8 DEF vars, lr0Vars, mkparVars
  <2>2. phase \in {"remove_conflicts", "done"} => Origins' /\ FinalOK'
    BY <1>2, <2>1, OriginsStay DEF ActionsInv
  <2>3. phase = "done" => DefredOK' BY <2>1, SameOrigin DEF ActionsInv, DefredOK
  <2> QED BY <1>1, <2>1, <2>2, <2>3 DEF ActionsInv
<1> QED BY <1>3, <1>4, <1>5, <1>6, <1>7, <1>8 DEF Next, MkparNext

-----------------------------------------------------------------------------
(***************************************************************************)
(* The conflicts that are counted, with or without precedences: one by one *)
(* they are the trials of a list, but for one trial of a token, the action *)
(* that was preferred and whose rivals are counted.                        *)
(***************************************************************************)
IsTrial(acts, k) == acts[k].suppressed = 1

RowCounted(acts, V) ==
    /\ \A k \in V : k \in 1 .. Len(acts) /\ IsTrial(acts, k)
    /\ \A k \in 1 .. Len(acts) \ V : IsTrial(acts, k) =>
          /\ \E l \in V : SameSymbol(acts, l, k)
          /\ \A m \in 1 .. Len(acts) \ {k} : IsTrial(acts, m) /\ SameSymbol(acts, m, k) => m \in V

(* In the group of the preferred action it is that action. *)
GroupCounted(acts, V, e, q) ==
    /\ q \notin V
    /\ \A k \in 1 .. e \ V : IsTrial(acts, k) /\ SameSymbol(acts, k, e) => k = q

CountedIn(U, n) == { k \in Nat : << n, k >> \in U }

Counted(U) ==
    /\ IsFiniteSet(U) /\ Totals = Cardinality(U)
    /\ \A u \in U : u = << u[1], u[2] >> /\ u[1] \in DOMAIN parser /\ u[2] \in Nat
    /\ \A n \in DOMAIN parser : RowCounted(parser[n], CountedIn(U, n))

CountedRows ==
    \E U : /\ Counted(U)
           /\ phase = "remove_conflicts" /\ row < nstates =>
                 GroupCounted(Row, CountedIn(U, row), actno - 1, pref)

CountedInv == phase \in {"remove_conflicts", "done"} => CountedRows

LEMMA TurnKeepsCounted ==
    ASSUME NEW acts, IsList(acts), NEW p \in 1 .. Len(acts), NEW q, PrefLeads(acts, p - 1, q),
           NEW new, NEW q2, Turn(acts, new, p, q, q2), Untouched(acts, p - 1),
           NEW V, RowCounted(acts, V), GroupCounted(acts, V, p - 1, q)
    PROVE  /\ p \notin V
           /\ Unresolved(acts, new, p, q, q2) =>
                 RowCounted(new, V \cup {p}) /\ GroupCounted(new, V \cup {p}, p, q2)
           /\ Passed(acts, new, p, q, q2) \/ Settled(acts, new, p, q, q2) =>
                 RowCounted(new, V) /\ GroupCounted(new, V, p, q2)
<1>t. TurnResult(acts, new, p, q, q2) BY TurnFacts
<1>1. /\ p \in Nat /\ Len(acts) \in Nat /\ 1 <= p /\ p <= Len(acts) /\ Len(new) = Len(acts)
      /\ \A k, l \in 1 .. Len(acts) : SameSymbol(new, k, l) <=> SameSymbol(acts, k, l)
      /\ \A k \in 1 .. Len(acts) \ {p, q} : IsTrial(new, k) <=> IsTrial(acts, k)
  BY <1>t DEF TurnResult, SameFate, IsTrial
<1>2. \A k \in p .. Len(acts) : ~IsTrial(acts, k)
  <2>1. \A k \in p .. Len(acts) : k \in (p - 1) + 1 .. Len(acts) BY <1>1
  <2> QED BY <2>1 DEF Untouched, IsLive, IsTrial
<1>3. p \notin V /\ q \notin V /\ V \subseteq 1 .. Len(acts)
  BY <1>1, <1>2 DEF RowCounted, GroupCounted
<1>4. \A k \in 1 .. Len(acts) \ V : IsTrial(acts, k) /\ SameSymbol(acts, k, p) /\ (\E m \in 1 .. p - 1 : SameSymbol(acts, m, p))
         => k = q
  <2> SUFFICES ASSUME NEW k \in 1 .. Len(acts) \ V, IsTrial(acts, k), SameSymbol(acts, k, p),
                      NEW m \in 1 .. p - 1, SameSymbol(acts, m, p)
               PROVE  k = q OBVIOUS
  <2>1. k \in 1 .. p - 1 BY <1>1, <1>2
  <2>2. SameSymbol(acts, q, p) /\ SameSymbol(acts, q, p - 1) BY <1>t DEF TurnResult
  <2>3. SameSymbol(acts, k, p - 1) BY <2>2 DEF SameSymbol
  <2> QED BY <2>1, <2>3 DEF GroupCounted
<1>5. ASSUME Unresolved(acts, new, p, q, q2)
      PROVE  RowCounted(new, V \cup {p}) /\ GroupCounted(new, V \cup {p}, p, q2)
  <2> DEFINE W == V \cup {p}
  <2>1. new[p].suppressed = 1 /\ q2 = q /\ IsTrial(new, p) BY <1>5 DEF Unresolved, Tried, IsTrial
  <2>2. q \in 1 .. p - 1 /\ SameSymbol(acts, q, p)
    BY <1>1, <1>5 DEF Unresolved, SameSymbol, PrefLeads
  <2>3. q \in 1 .. Len(acts) /\ q # p BY <1>1, <2>2
  <2>4. \A k \in V : k \in 1 .. Len(new) /\ k \notin {p, q} /\ IsTrial(new, k)
    BY <1>1, <1>3 DEF RowCounted
  <2>5. \A k \in 1 .. Len(acts) \ (V \cup {p}) : IsTrial(new, k) /\ SameSymbol(acts, k, p) => k = q
    BY <1>1, <1>4, <2>2
  <2>6. RowCounted(new, W)
    <3>1. ASSUME NEW k \in 1 .. Len(new) \ W, IsTrial(new, k), k # q
          PROVE  /\ \E l \in W : SameSymbol(new, l, k)
                 /\ \A m \in 1 .. Len(new) \ {k} : IsTrial(new, m) /\ SameSymbol(new, m, k) => m \in W
      <4>1. k \in 1 .. Len(acts) \ V /\ k \notin {p, q} /\ ~SameSymbol(acts, k, p) BY <1>1, <2>5, <3>1
      <4>2. /\ \E l \in V : SameSymbol(acts, l, k)
            /\ \A m \in 1 .. Len(acts) \ {k} : IsTrial(acts, m) /\ SameSymbol(acts, m, k) => m \in V
        BY <1>1, <3>1, <4>1 DEF RowCounted
      <4>3. ASSUME NEW m \in 1 .. Len(new) \ {k}, IsTrial(new, m), SameSymbol(new, m, k) PROVE m \in W
        <5>1. SameSymbol(acts, m, k) BY <1>1, <4>1, <4>3
        <5>2. m \notin {p, q} BY <2>2, <4>1, <5>1 DEF SameSymbol
        <5> QED BY <1>1, <4>2, <4>3, <5>1, <5>2
      <4> QED BY <1>1, <1>3, <4>1, <4>2, <4>3
    <3>2. ASSUME IsTrial(new, q), q \notin W
          PROVE  /\ \E l \in W : SameSymbol(new, l, q)
                 /\ \A m \in 1 .. Len(new) \ {q} : IsTrial(new, m) /\ SameSymbol(new, m, q) => m \in W
      <4>1. SameSymbol(new, p, q) BY <1>1, <2>2, <2>3 DEF SameSymbol
      <4>2. ASSUME NEW m \in 1 .. Len(new) \ {q}, IsTrial(new, m), SameSymbol(new, m, q) PROVE m \in W
        <5>1. SameSymbol(acts, m, p) BY <1>1, <2>2, <2>3, <4>2 DEF SameSymbol
        <5> QED BY <1>1, <2>5, <4>2, <5>1
      <4> QED BY <4>1, <4>2
    <3> QED BY <1>1, <2>1, <2>4, <3>1, <3>2 DEF RowCounted
  <2>7. GroupCounted(new, W, p, q2)
    <3>1. ASSUME NEW k \in 1 .. p \ W, IsTrial(new, k), SameSymbol(new, k, p) PROVE k = q
      <4>1. k \in 1 .. Len(acts) \ (V \cup {p}) BY <1>1
      <4>2. SameSymbol(acts, k, p) BY <1>1, <3>1, <4>1
      <4> QED BY <2>5, <3>1, <4>1, <4>2
    <3> QED BY <1>3, <2>1, <2>3, <3>1 DEF GroupCounted
  <2> QED BY <2>6, <2>7
<1>6. ASSUME Passed(acts, new, p, q, q2) \/ Settled(acts, new, p, q, q2)
      PROVE  RowCounted(new, V) /\ GroupCounted(new, V, p, q2)
  <2>1. ~IsTrial(new, p)
    <3>1. ~IsTrial(acts, p) BY <1>1, <1>2
    <3> QED BY <3>1, <1>6 DEF Passed, Settled, Taken, Beaten, SameFate, IsTrial
  <2>2. IsTrial(new, q) => IsTrial(acts, q)
    BY <1>6 DEF Passed, Settled, Taken, Beaten, SameFate, IsTrial
  <2>3. \A k \in 1 .. Len(acts) : IsTrial(new, k) => IsTrial(acts, k) /\ k # p BY <1>1, <2>1, <2>2
  <2>4. \A k \in V : k \in 1 .. Len(new) /\ IsTrial(new, k)
    BY <1>1, <1>3 DEF RowCounted
  <2>5. RowCounted(new, V)
    <3>1. ASSUME NEW k \in 1 .. Len(new) \ V, IsTrial(new, k)
          PROVE  /\ \E l \in V : SameSymbol(new, l, k)
                 /\ \A m \in 1 .. Len(new) \ {k} : IsTrial(new, m) /\ SameSymbol(new, m, k) => m \in V
      <4>1. /\ \E l \in V : SameSymbol(acts, l, k)
            /\ \A m \in 1 .. Len(acts) \ {k} : IsTrial(acts, m) /\ SameSymbol(acts, m, k) => m \in V
        BY <1>1, <2>3, <3>1 DEF RowCounted
      <4> QED BY <1>1, <1>3, <2>3, <4>1
    <3> QED BY <2>4, <3>1 DEF RowCounted
  <2>6. GroupCounted(new, V, p, q2)
    <3>1. CASE Passed(acts, new, p, q, q2)
      <4>1. q2 = p BY <3>1 DEF Passed
      <4>2. \A k \in 1 .. p - 1 : ~SameSymbol(acts, k, p)
        <5>1. ~(q # 0 /\ SameSymbol(acts, q, p)) BY <3>1 DEF Passed, SameSymbol
        <5> QED BY <5>1, NewGroup
      <4>3. ASSUME NEW k \in 1 .. p \ V, SameSymbol(new, k, p) PROVE k = p
        <5>1. SameSymbol(acts, k, p) BY <1>1, <4>3
        <5> QED BY <1>1, <4>2, <5>1
      <4> QED BY <1>3, <4>1, <4>3 DEF GroupCounted
    <3>2. CASE Settled(acts, new, p, q, q2)
      <4>1. q2 \in {p, q} /\ q \in 1 .. p - 1 /\ SameSymbol(acts, q, p) /\ (IsTrial(new, q) => q2 = q)
        <5>1. q \in 1 .. p - 1 /\ SameSymbol(acts, q, p)
          BY <1>1, <3>2 DEF Settled, SameSymbol, PrefLeads
        <5>2. q2 \in {p, q} /\ (IsTrial(new, q) => q2 = q)
          BY <3>2 DEF Settled, Taken, Beaten, IsTrial
        <5> QED BY <5>1, <5>2
      <4>2. ASSUME NEW k \in 1 .. p \ V, IsTrial(new, k), SameSymbol(new, k, p) PROVE k = q2
        <5>1. k \in 1 .. Len(acts) \ V BY <1>1
        <5>2. SameSymbol(acts, k, p) /\ IsTrial(acts, k) BY <1>1, <2>3, <4>2, <5>1
        <5>3. k = q BY <1>4, <4>1, <5>1, <5>2
        <5> QED BY <4>1, <4>2, <5>3
      <4> QED BY <1>3, <4>1, <4>2 DEF GroupCounted
    <3> QED BY <1>6, <3>1, <3>2
  <2> QED BY <2>5, <2>6
<1> QED BY <1>3, <1>5, <1>6
(* A turn of the loop counts a trial, or none. *)
LEMMA RemoveConflictsCounts ==
    ASSUME LR0Inv, RowsOK, CountedRows, RemoveConflicts
    PROVE  CountedRows'
<1>1. /\ phase = "remove_conflicts" /\ row < nstates /\ actno <= Len(Row) /\ Resolve
      /\ actno' = actno + 1 /\ UNCHANGED << row, states, phase >>
  BY DEF RemoveConflicts, lr0Vars
<1>2. /\ row \in DOMAIN parser /\ row \in Nat /\ actno \in 1 .. Len(Row) /\ actno \in Nat
      /\ ListOK(Row, row, actno - 1) /\ GroupOK(Row, row, actno - 1, pref) /\ IsList(Row)
  BY <1>1, InRow
<1>3. PrefLeads(Row, actno - 1, pref) /\ Untouched(Row, actno - 1) /\ pref \in 0 .. actno - 1
  BY <1>2 DEF GroupOK, ListOK, PrefLeads
<1>4. /\ DOMAIN parser' = DOMAIN parser
      /\ \A n \in DOMAIN parser \ {row} : parser'[n] = parser[n]
      /\ Outcome(parser'[row])
  <2>1. SRtotal \in Nat /\ RRtotal \in Nat BY DEF RowsOK
  <2> QED BY <1>1, <1>2, <1>3, <2>1, ResolveOutcome
<1> PICK U : /\ Counted(U)
             /\ phase = "remove_conflicts" /\ row < nstates =>
                   GroupCounted(Row, CountedIn(U, row), actno - 1, pref)
  BY DEF CountedRows
<1> PICK new, V, q2, e : new = parser'[row] /\ V = CountedIn(U, row) /\ q2 = pref' /\ e = << row, actno >> OBVIOUS
<1>5. /\ RowCounted(Row, V) /\ GroupCounted(Row, V, actno - 1, pref)
  BY <1>1, <1>2 DEF Counted, Row
<1>6. Turn(Row, new, actno, pref, q2) BY <1>4 DEF Outcome, Turn
<1>7. /\ actno \notin V
      /\ Unresolved(Row, new, actno, pref, q2) =>
            RowCounted(new, V \cup {actno}) /\ GroupCounted(new, V \cup {actno}, actno, q2)
      /\ Passed(Row, new, actno, pref, q2) \/ Settled(Row, new, actno, pref, q2) =>
            RowCounted(new, V) /\ GroupCounted(new, V, actno, q2)
  BY <1>2, <1>3, <1>5, <1>6, TurnKeepsCounted
<1>8. Row' = new /\ (actno - 1)' = actno BY <1>1, <1>2 DEF Row
<1>9. \A W, X : /\ Counted(W)' /\ X = CountedIn(W, row) /\ GroupCounted(new, X, actno, q2)
                => CountedRows'
  <2> SUFFICES ASSUME NEW W, NEW X, Counted(W)', X = CountedIn(W, row), GroupCounted(new, X, actno, q2)
               PROVE  CountedRows' OBVIOUS
  <2>1. CountedIn(W, row)' = X BY <1>1 DEF CountedIn
  <2>2. GroupCounted(Row, CountedIn(W, row), actno - 1, pref)' BY <1>8, <2>1 DEF GroupCounted, IsTrial, SameSymbol
  <2> QED BY <2>2 DEF CountedRows
<1>10. CASE Unresolved(Row, new, actno, pref, q2) /\ Totals' = Totals + 1
  <2> PICK W : W = U \cup {e} OBVIOUS
  <2>1. e \notin U BY <1>2, <1>7 DEF CountedIn
  <2>2. IsFiniteSet(W) /\ Totals' = Cardinality(W) BY <1>10, <2>1, FS_AddElement DEF Counted
  <2>3. CountedIn(W, row) = V \cup {actno} BY <1>2 DEF CountedIn
  <2>4. \A n \in DOMAIN parser \ {row} : CountedIn(W, n) = CountedIn(U, n) BY DEF CountedIn
  <2>5. \A n \in DOMAIN parser : RowCounted(parser'[n], CountedIn(W, n))
    <3>1. RowCounted(new, CountedIn(W, row)) BY <1>7, <1>10, <2>3
    <3>2. ASSUME NEW n \in DOMAIN parser \ {row} PROVE RowCounted(parser'[n], CountedIn(W, n))
      <4>1. RowCounted(parser[n], CountedIn(U, n)) BY DEF Counted
      <4> QED BY <1>4, <2>4, <4>1
    <3> QED BY <3>1, <3>2
  <2>6. \A u \in W : u = << u[1], u[2] >> /\ u[1] \in DOMAIN parser /\ u[2] \in Nat BY <1>2 DEF Counted
  <2>7. Counted(W)'
    <3>1. \A n \in DOMAIN parser' : RowCounted(parser[n], CountedIn(W, n))'
      <4> SUFFICES ASSUME NEW n \in DOMAIN parser PROVE RowCounted(parser[n], CountedIn(W, n))' BY <1>4
      <4> PICK acts, X : acts = parser'[n] /\ X = CountedIn(W, n) OBVIOUS
      <4>1. RowCounted(acts, X) BY <2>5
      <4>2. CountedIn(W, n)' = X BY DEF CountedIn
      <4> QED BY <4>1, <4>2 DEF RowCounted, IsTrial, SameSymbol
    <3> QED BY <1>4, <2>2, <2>6, <3>1 DEF Counted
  <2> QED BY <1>7, <1>9, <1>10, <2>3, <2>7
<1>11. CASE /\ Passed(Row, new, actno, pref, q2) \/ Settled(Row, new, actno, pref, q2)
            /\ Totals' = Totals
  <2>1. \A n \in DOMAIN parser : RowCounted(parser'[n], CountedIn(U, n))
    BY <1>4, <1>7, <1>11 DEF Counted
  <2>2. Counted(U)'
    <3>1. \A n \in DOMAIN parser' : RowCounted(parser[n], CountedIn(U, n))'
      <4> SUFFICES ASSUME NEW n \in DOMAIN parser PROVE RowCounted(parser[n], CountedIn(U, n))' BY <1>4
      <4> PICK acts, X : acts = parser'[n] /\ X = CountedIn(U, n) OBVIOUS
      <4>1. RowCounted(acts, X) BY <2>1
      <4>2. CountedIn(U, n)' = X BY DEF CountedIn
      <4> QED BY <4>1, <4>2 DEF RowCounted, IsTrial, SameSymbol
    <3> QED BY <1>4, <1>11, <3>1 DEF Counted
  <2> QED BY <1>7, <1>9, <1>11, <2>2
<1> QED BY <1>4, <1>10, <1>11 DEF Outcome

(* Nothing is counted when the actions are listed. *)
LEMMA ListActionsCounts ==
    ASSUME Built, ListActions, SRtotal = 0, RRtotal = 0, actno = 1, pref = 0
    PROVE  CountedRows'
<1>1. /\ Totals' = 0 /\ parser' = [n \in DOMAIN states |-> ParseActions(n)]
      /\ actno' = 1 /\ pref' = 0 /\ row' = 0
  BY DEF ListActions, Totals
<1>2. \A n \in DOMAIN states : \A k \in 1 .. Len(ParseActions(n)) : ~IsTrial(ParseActions(n), k)
  <2> SUFFICES ASSUME NEW n \in DOMAIN states
               PROVE  \A k \in 1 .. Len(ParseActions(n)) : ~IsTrial(ParseActions(n), k) OBVIOUS
  <2>1. g \in Grammars /\ AutomatonOK /\ this = nstates /\ phase # "shift"
    BY DEF Built, LR0Inv, AutomatonOK, ProgressOK
  <2>2. \A k \in 1 .. Len(ParseActions(n)) : ParseActions(n)[k].suppressed = 0 BY <2>1, ParseActionsFacts
  <2> QED BY <2>2 DEF IsTrial
<1>3. \A n : CountedIn({}, n) = {} BY DEF CountedIn
<1>4. \A n \in DOMAIN parser' : RowCounted(parser[n], CountedIn({}, n))'
  <2> SUFFICES ASSUME NEW n \in DOMAIN states PROVE RowCounted(parser[n], CountedIn({}, n))' BY <1>1
  <2> PICK acts : acts = ParseActions(n) OBVIOUS
  <2>1. parser'[n] = acts /\ CountedIn({}, n)' = {} BY <1>1, <1>3 DEF CountedIn
  <2>2. \A k \in 1 .. Len(acts) : ~IsTrial(acts, k) BY <1>2
  <2> QED BY <2>1, <2>2 DEF RowCounted, IsTrial
<1>5. Counted({})' BY <1>1, <1>4, FS_EmptySet DEF Counted
<1>6. GroupCounted(Row, CountedIn({}, row), actno - 1, pref)'
  <2>1. (actno - 1)' = 0 /\ CountedIn({}, row)' = {} BY <1>1 DEF CountedIn
  <2> QED BY <1>1, <2>1 DEF GroupCounted
<1> QED BY <1>5, <1>6 DEF CountedRows

LEMMA CountedStays ==
    ASSUME NEW U, Counted(U), UNCHANGED << parser, SRtotal, RRtotal >>
    PROVE  Counted(U)'
BY DEF Counted, Totals, RowCounted, CountedIn, IsTrial, SameSymbol

LEMMA CountedStep == ActionsInv /\ CountedInv /\ [Next]_vars => CountedInv'
<1> SUFFICES ASSUME ActionsInv, CountedInv, [Next]_vars PROVE CountedInv' OBVIOUS
<1>1. MkparInv BY DEF ActionsInv
<1>2. CASE LR0Next \/ LalrNext
  <2>1. phase' \notin {"remove_conflicts", "done"}
    <3>1. LR0Next => phase' \notin {"remove_conflicts", "done"}
      BY DEF LR0Next, InitializeStates, Expand, OldState, NewState, TooManyStates, NextStateOfList
    <3>2. LalrNext => phase' \notin {"remove_conflicts", "done"}
      BY DEF LalrNext, SetGotoMap, TooManyGotos, InitializeF, BuildRelations, RunDigraph,
             ComputeLookaheads, lr0Vars
    <3> QED BY <1>2, <3>1, <3>2
  <2> QED BY <2>1 DEF CountedInv
<1>3. CASE ListActions
  <2>1. phase = "make_parser" BY <1>3 DEF ListActions, LalrDone
  <2>2. Built /\ SRtotal = 0 /\ RRtotal = 0 /\ actno = 1 /\ pref = 0 BY <1>1, <2>1 DEF MkparInv, Built
  <2> QED BY <1>3, <2>2, ListActionsCounts DEF CountedInv
<1>4. CASE RemoveConflicts
  <2>1. phase = "remove_conflicts" BY <1>4 DEF RemoveConflicts
  <2> QED BY <1>1, <1>4, <2>1, RemoveConflictsCounts DEF CountedInv, MkparInv
<1>5. CASE NextRow
  <2>1. /\ phase = "remove_conflicts" /\ actno' = 1 /\ pref' = 0
        /\ UNCHANGED << parser, SRtotal, RRtotal >>
    BY <1>5 DEF NextRow
  <2>2. PICK U : Counted(U) BY <2>1 DEF CountedInv, CountedRows
  <2>3. Counted(U)' BY <2>1, <2>2, CountedStays
  <2>4. GroupCounted(Row, CountedIn(U, row), actno - 1, pref)'
    <3>1. (actno - 1)' = 0 BY <2>1
    <3>2. 0 \notin CountedIn(U, row)'
      <4> SUFFICES ASSUME 0 \in CountedIn(U, row)' PROVE FALSE OBVIOUS
      <4>1. << row', 0 >> \in U BY DEF CountedIn
      <4>2. row' \in DOMAIN parser BY <2>2, <4>1 DEF Counted
      <4>3. 0 \in CountedIn(U, row') BY <4>1 DEF CountedIn
      <4> QED BY <2>2, <4>2, <4>3 DEF Counted, RowCounted
    <3> QED BY <2>1, <3>1, <3>2 DEF GroupCounted
  <2> QED BY <2>3, <2>4 DEF CountedInv, CountedRows
<1>6. CASE Finish
  <2>1. /\ phase = "remove_conflicts" /\ phase' = "done"
        /\ UNCHANGED << parser, SRtotal, RRtotal >>
    BY <1>6 DEF Finish
  <2>2. PICK U : Counted(U) BY <2>1 DEF CountedInv, CountedRows
  <2>3. Counted(U)' BY <2>1, <2>2, CountedStays
  <2> QED BY <2>1, <2>3 DEF CountedInv, CountedRows
<1>7. CASE UNCHANGED vars
  <2>1. UNCHANGED << phase, states, parser, row, actno, pref, SRtotal, RRtotal >>
    BY <1>7 DEF vars, lr0Vars, mkparVars
  <2> SUFFICES ASSUME phase \in {"remove_conflicts", "done"} PROVE CountedRows' BY <2>1 DEF CountedInv
  <2>2. PICK U : /\ Counted(U)
                 /\ phase = "remove_conflicts" /\ row < nstates =>
                       GroupCounted(Row, CountedIn(U, row), actno - 1, pref)
    BY DEF CountedInv, CountedRows
  <2>3. Counted(U)' BY <2>1, <2>2, CountedStays
  <2>4. phase' = "remove_conflicts" /\ row' < nstates' =>
            GroupCounted(Row, CountedIn(U, row), actno - 1, pref)'
    BY <2>1, <2>2 DEF GroupCounted, CountedIn, Row, nstates, IsTrial, SameSymbol
  <2> QED BY <2>3, <2>4 DEF CountedRows
<1> QED BY <1>2, <1>3, <1>4, <1>5, <1>6, <1>7 DEF Next, MkparNext

-----------------------------------------------------------------------------
(***************************************************************************)
(* The gotos: set_goto_map() numbers each transition by a variable once.   *)
(***************************************************************************)
IsGoto(e) ==
    /\ e = << Accessing(e[3]), e[2], e[3] >>
    /\ e[2] \in DOMAIN states /\ Leads(e[2], e[3]) /\ Accessing(e[3]) >= g.ntokens

GotosListed ==
    LET s == InOrder(Gotos, GotoOrder)
    IN  /\ fromState = [k \in 0 .. Len(s) - 1 |-> s[k + 1][2]]
        /\ toState = [k \in 0 .. Len(s) - 1 |-> s[k + 1][3]]

GotosInv == phase \notin {"lr0", "fatal", "expand", "shift"} => GotosListed

LEMMA GotoTriples ==
    ASSUME Built
    PROVE  \A e : e \in Gotos <=> IsGoto(e)
<1> DEFINE Late(n) == { j \in 1 .. Len(shift[n]) :
                          \A l \in j .. Len(shift[n]) : ~ISTOKEN(Shifts(n)[l]) }
           Of(n) == { << Shifts(n)[k], n, shift[n][k] >> : k \in Late(n) }
<1>1. /\ g \in Grammars /\ GrammarOK(g) /\ g.ntokens \in Nat
      /\ DOMAIN shift = DOMAIN states
  BY GrammarsAssumption DEF Built, LR0Inv, AutomatonOK, ProgressOK, Expanded, Numbered, GrammarOK
<1>2. Gotos = UNION { Of(n) : n \in DOMAIN shift } BY DEF Gotos
<1>3. ASSUME NEW n \in DOMAIN states
      PROVE  /\ Len(shift[n]) \in Nat
             /\ \A k \in 1 .. Len(shift[n]) :
                   /\ Shifts(n)[k] = Accessing(shift[n][k]) /\ Shifts(n)[k] \in Nat
                   /\ Leads(n, shift[n][k])
                   /\ k \in Late(n) <=> Shifts(n)[k] >= g.ntokens
  <2>1. /\ Len(shift[n]) \in Nat
        /\ \A k \in 1 .. Len(shift[n]) :
              Leads(n, shift[n][k]) /\ Accessing(shift[n][k]) \in 1 .. g.nsyms - 1
        /\ \A k, l \in 1 .. Len(shift[n]) :
              k < l <=> Accessing(shift[n][k]) < Accessing(shift[n][l])
    BY Transitions
  <2>2. \A k \in 1 .. Len(shift[n]) : Shifts(n)[k] = Accessing(shift[n][k])
    BY DEF Shifts, AccessingSymbol, Accessing
  <2>3. g.nsyms \in Nat BY <1>1 DEF GrammarOK
  <2>4. \A k \in 1 .. Len(shift[n]) : Shifts(n)[k] \in Nat BY <2>1, <2>2, <2>3
  <2>5. ASSUME NEW k \in 1 .. Len(shift[n]) PROVE k \in Late(n) <=> Shifts(n)[k] >= g.ntokens
    <3>1. \A l \in k .. Len(shift[n]) : l \in 1 .. Len(shift[n]) /\ (l = k \/ k < l) BY <2>1
    <3>2. \A l \in k .. Len(shift[n]) : Shifts(n)[l] \in Nat /\ Shifts(n)[l] >= Shifts(n)[k]
      BY <2>1, <2>2, <2>4, <3>1
    <3>3. \A x \in Nat : ~ISTOKEN(x) <=> x >= g.ntokens BY <1>1 DEF ISTOKEN, start_symbol
    <3>4. k \in k .. Len(shift[n]) BY <2>1
    <3>5. Shifts(n)[k] \in Nat BY <2>4
    <3>6. ASSUME Shifts(n)[k] >= g.ntokens PROVE \A l \in k .. Len(shift[n]) : ~ISTOKEN(Shifts(n)[l])
      BY <1>1, <3>2, <3>3, <3>5, <3>6
    <3>7. ASSUME \A l \in k .. Len(shift[n]) : ~ISTOKEN(Shifts(n)[l]) PROVE Shifts(n)[k] >= g.ntokens
      BY <3>3, <3>4, <3>5, <3>7
    <3> QED BY <3>6, <3>7
  <2> HIDE DEF Late
  <2> QED BY <2>1, <2>2, <2>4, <2>5
<1>4. ASSUME NEW e \in Gotos PROVE IsGoto(e)
  <2>1. PICK n \in DOMAIN states : e \in Of(n) BY <1>1, <1>2
  <2>2. PICK k \in Late(n) : e = << Shifts(n)[k], n, shift[n][k] >> BY <2>1
  <2>3. k \in 1 .. Len(shift[n]) BY <2>2
  <2> HIDE DEF Late
  <2>4. Shifts(n)[k] = Accessing(shift[n][k]) /\ Leads(n, shift[n][k]) /\ Shifts(n)[k] >= g.ntokens
    BY <1>3, <2>2, <2>3
  <2>5. e[1] = Shifts(n)[k] /\ e[2] = n /\ e[3] = shift[n][k] BY <2>2
  <2> QED BY <2>2, <2>4, <2>5 DEF IsGoto
<1>5. ASSUME NEW e, IsGoto(e) PROVE e \in Gotos
  <2>1. /\ e = << Accessing(e[3]), e[2], e[3] >> /\ e[2] \in DOMAIN states
        /\ Leads(e[2], e[3]) /\ Accessing(e[3]) >= g.ntokens BY <1>5 DEF IsGoto
  <2>2. PICK n, q : n = e[2] /\ q = e[3] OBVIOUS
  <2>3. PICK k \in 1 .. Len(shift[n]) : shift[n][k] = q BY <2>1, <2>2 DEF Leads
  <2> HIDE DEF Late
  <2>4. k \in Late(n) /\ Shifts(n)[k] = Accessing(q) BY <1>3, <2>1, <2>2, <2>3
  <2>5. e = << Shifts(n)[k], n, shift[n][k] >> BY <2>1, <2>2, <2>3, <2>4
  <2>6. e \in Of(n) BY <2>4, <2>5
  <2> QED BY <1>1, <1>2, <2>1, <2>2, <2>6
<1> QED BY <1>4, <1>5

LEMMA GotosSorted ==
    ASSUME Built
    PROVE  Sorted(InOrder(Gotos, GotoOrder), Gotos, { p \in Gotos \X Gotos : GotoOrder(p[1], p[2]) })
<1> DEFINE s == InOrder(Gotos, GotoOrder)
<1>0. PICK S, L : S = Gotos /\ L = { p \in S \X S : GotoOrder(p[1], p[2]) } OBVIOUS
<1>1. \A x, y \in S : << x, y >> \in L <=> GotoOrder(x, y) BY <1>0
<1>2. g \in Grammars /\ GrammarOK(g) /\ DOMAIN shift = DOMAIN states /\ Numbered
  BY GrammarsAssumption DEF Built, LR0Inv, AutomatonOK, ProgressOK, Expanded, Numbered
<1>3. \A e \in S : IsGoto(e) /\ e[2] \in Nat /\ Accessing(e[3]) \in Nat
  <2> SUFFICES ASSUME NEW e \in S PROVE IsGoto(e) /\ e[2] \in Nat /\ Accessing(e[3]) \in Nat OBVIOUS
  <2>1. IsGoto(e) BY <1>0, GotoTriples
  <2>2. e[2] \in DOMAIN states /\ Leads(e[2], e[3]) BY <2>1 DEF IsGoto
  <2>3. Accessing(e[3]) \in 1 .. g.nsyms - 1 BY <2>2, Transitions
  <2>4. g.nsyms \in Nat BY <1>2 DEF GrammarOK
  <2> QED BY <1>2, <2>1, <2>2, <2>3, <2>4 DEF Numbered
<1>4. \A e \in S : e[1] \in Nat /\ e[1] = Accessing(e[3]) /\ e = << e[1], e[2], e[3] >>
  BY <1>3 DEF IsGoto
<1>5. IsStrictOrder(S, L)
  <2>1. \A x \in S : ~GotoOrder(x, x) BY <1>3, <1>4 DEF GotoOrder
  <2>2. ASSUME NEW x \in S, NEW y \in S, x # y PROVE GotoOrder(x, y) \/ GotoOrder(y, x)
    <3>1. CASE x[1] = y[1] /\ x[2] = y[2]
      <4>1. Leads(x[2], x[3]) /\ Leads(y[2], y[3]) /\ x[2] \in DOMAIN states BY <1>3 DEF IsGoto
      <4>2. Accessing(x[3]) = Accessing(y[3]) BY <1>4, <3>1
      <4>3. x[3] = y[3] BY <3>1, <4>1, <4>2, Transitions
      <4> QED BY <1>4, <2>2, <3>1, <4>3
    <3>2. CASE ~(x[1] = y[1] /\ x[2] = y[2])
      <4>1. x[1] \in Nat /\ y[1] \in Nat /\ x[2] \in Nat /\ y[2] \in Nat BY <1>3, <1>4
      <4> QED BY <3>2, <4>1 DEF GotoOrder
    <3> QED BY <3>1, <3>2
  <2>3. ASSUME NEW x \in S, NEW y \in S, NEW z \in S, GotoOrder(x, y), GotoOrder(y, z)
        PROVE  GotoOrder(x, z)
    <3>1. /\ x[1] \in Nat /\ y[1] \in Nat /\ z[1] \in Nat
          /\ x[2] \in Nat /\ y[2] \in Nat /\ z[2] \in Nat BY <1>3, <1>4
    <3> QED BY <2>3, <3>1 DEF GotoOrder
  <2> QED BY <1>1, <2>1, <2>2, <2>3 DEF IsStrictOrder
<1>6. IsFiniteSet(S)
  <2> DEFINE Of(n) == { << Shifts(n)[k], n, shift[n][k] >> :
                          k \in { j \in 1 .. Len(shift[n]) :
                                    \A l \in j .. Len(shift[n]) : ~ISTOKEN(Shifts(n)[l]) } }
             f == [n \in DOMAIN states |-> Of(n)]
             Sets == { f[n] : n \in DOMAIN states }
  <2>1. ASSUME NEW n \in DOMAIN states PROVE IsFiniteSet(Of(n))
    <3> DEFINE Ks == { j \in 1 .. Len(shift[n]) : \A l \in j .. Len(shift[n]) : ~ISTOKEN(Shifts(n)[l]) }
               h == [k \in Ks |-> << Shifts(n)[k], n, shift[n][k] >>]
    <3>1. Len(shift[n]) \in Nat BY Transitions
    <3>2. 1 \in Int /\ Len(shift[n]) \in Int BY <3>1
    <3>3. IsFiniteSet(1 .. Len(shift[n])) BY <3>2, FS_Interval
    <3>4. IsFiniteSet(Ks) BY <3>3, FS_Subset
    <3>5. DOMAIN h = Ks /\ Of(n) = { h[k] : k \in Ks } OBVIOUS
    <3> HIDE DEF h, Ks, Of
    <3> QED BY <3>4, <3>5, ImageFinite
  <2>2. Gotos = UNION { Of(n) : n \in DOMAIN states } BY <1>2 DEF Gotos
  <2>3. DOMAIN f = DOMAIN states /\ (\A n \in DOMAIN states : f[n] = Of(n)) OBVIOUS
  <2>4. IsFiniteSet(DOMAIN states)
    <3>1. nstates \in Nat /\ DOMAIN states = 0 .. nstates - 1 BY <1>2 DEF Numbered
    <3>2. 0 \in Int /\ nstates - 1 \in Int BY <3>1
    <3> QED BY <3>1, <3>2, FS_Interval
  <2> HIDE DEF f, Of
  <2>5. IsFiniteSet(Sets) BY <2>3, <2>4, ImageFinite
  <2>6. \A T \in Sets : IsFiniteSet(T) BY <2>1, <2>3
  <2>7. UNION { Of(n) : n \in DOMAIN states } = UNION Sets BY <2>3
  <2> HIDE DEF Sets
  <2> QED BY <1>0, <2>2, <2>5, <2>6, <2>7, FS_UNION
<1>7. \A x \in S : { y \in S : GotoOrder(y, x) } = Preceding(S, L, x) BY <1>1 DEF Preceding
<1>8. s = [k \in 1 .. Cardinality(S) |->
              CHOOSE x \in S : Cardinality({ y \in S : GotoOrder(y, x) }) = k - 1] BY <1>0 DEF InOrder
<1> HIDE DEF s
<1>9. ASSUME NEW k \in 1 .. Cardinality(S)
      PROVE  s[k] \in S /\ Cardinality(Preceding(S, L, s[k])) = k - 1
  <2>1. \E x \in S : Cardinality(Preceding(S, L, x)) = k - 1 BY <1>5, <1>6, RankFacts
  <2>2. \E x \in S : Cardinality({ y \in S : GotoOrder(y, x) }) = k - 1 BY <1>7, <2>1
  <2>3. s[k] \in S /\ Cardinality({ y \in S : GotoOrder(y, s[k]) }) = k - 1 BY <1>8, <2>2
  <2> QED BY <1>7, <2>3
<1>10. s \in [1 .. Cardinality(S) -> S] BY <1>8, <1>9
<1>11. Sorted(s, S, L) BY <1>5, <1>6, <1>9, <1>10, PlacesFacts
<1> QED BY <1>0, <1>11 DEF s

(* What the arrays from_state[] and to_state[] say. *)
LEMMA GotoArrays ==
    ASSUME Built, GotosListed
    PROVE  /\ Len(InOrder(Gotos, GotoOrder)) \in Nat
           /\ DOMAIN fromState = 0 .. Len(InOrder(Gotos, GotoOrder)) - 1
           /\ DOMAIN toState = 0 .. Len(InOrder(Gotos, GotoOrder)) - 1
           /\ \A k \in DOMAIN toState :
                 /\ fromState[k] \in DOMAIN states /\ Leads(fromState[k], toState[k])
                 /\ Accessing(toState[k]) >= g.ntokens
           /\ \A n \in DOMAIN states : \A q : Leads(n, q) /\ Accessing(q) >= g.ntokens =>
                 \E k \in DOMAIN toState : fromState[k] = n /\ toState[k] = q
           /\ \A k, l \in DOMAIN toState :
                 fromState[k] = fromState[l] /\ Accessing(toState[k]) = Accessing(toState[l]) => k = l
<1> PICK s : s = InOrder(Gotos, GotoOrder) OBVIOUS
<1>1. /\ fromState = [k \in 0 .. Len(s) - 1 |-> s[k + 1][2]]
      /\ toState = [k \in 0 .. Len(s) - 1 |-> s[k + 1][3]] BY DEF GotosListed
<1>2. /\ s \in Seq(Gotos) /\ Len(s) \in Nat
      /\ \A x \in Gotos : \E k \in 1 .. Len(s) : s[k] = x
      /\ \A k, l \in 1 .. Len(s) : s[k] = s[l] => k = l
  BY GotosSorted DEF Sorted
<1>3. \A k \in 0 .. Len(s) - 1 : k + 1 \in 1 .. Len(s) BY <1>2
<1>4. ASSUME NEW k \in DOMAIN toState
      PROVE  /\ fromState[k] \in DOMAIN states /\ Leads(fromState[k], toState[k])
             /\ Accessing(toState[k]) >= g.ntokens
             /\ s[k + 1] = << Accessing(toState[k]), fromState[k], toState[k] >>
             /\ k \in Nat /\ k + 1 \in 1 .. Len(s)
  <2>1. k \in 0 .. Len(s) - 1 /\ fromState[k] = s[k + 1][2] /\ toState[k] = s[k + 1][3] BY <1>1
  <2>2. s[k + 1] \in Gotos BY <1>2, <1>3, <2>1
  <2>3. IsGoto(s[k + 1]) BY <2>2, GotoTriples
  <2>4. PICK e : e = s[k + 1] OBVIOUS
  <2>5. /\ e = << Accessing(e[3]), e[2], e[3] >>
        /\ e[2] \in DOMAIN states /\ Leads(e[2], e[3]) /\ Accessing(e[3]) >= g.ntokens
    BY <2>3, <2>4 DEF IsGoto
  <2>6. e[2] = fromState[k] /\ e[3] = toState[k] BY <2>1, <2>4
  <2>7. k \in Nat /\ k + 1 \in 1 .. Len(s) BY <1>2, <1>3, <2>1
  <2> QED BY <2>4, <2>5, <2>6, <2>7
<1>5. ASSUME NEW n \in DOMAIN states, NEW q, Leads(n, q), Accessing(q) >= g.ntokens
      PROVE  \E k \in DOMAIN toState : fromState[k] = n /\ toState[k] = q
  <2> DEFINE e == << Accessing(q), n, q >>
  <2>0. e[1] = Accessing(q) /\ e[2] = n /\ e[3] = q OBVIOUS
  <2>1. IsGoto(e) BY <1>5, <2>0 DEF IsGoto
  <2> HIDE DEF e
  <2>2. e \in Gotos BY <2>1, GotoTriples
  <2>3. PICK k \in 1 .. Len(s) : s[k] = e BY <1>2, <2>2
  <2>4. k - 1 \in 0 .. Len(s) - 1 /\ k - 1 + 1 = k BY <1>2
  <2>5. fromState[k - 1] = n /\ toState[k - 1] = q BY <1>1, <2>0, <2>3, <2>4
  <2> QED BY <1>1, <2>4, <2>5
<1>6. ASSUME NEW k \in DOMAIN toState, NEW l \in DOMAIN toState,
             fromState[k] = fromState[l], Accessing(toState[k]) = Accessing(toState[l])
      PROVE  k = l
  <2>1. fromState[k] \in DOMAIN states /\ Leads(fromState[k], toState[k]) /\ Leads(fromState[k], toState[l])
    BY <1>4, <1>6
  <2>2. toState[k] = toState[l] BY <1>6, <2>1, Transitions
  <2>3. s[k + 1] = s[l + 1] BY <1>4, <1>6, <2>2
  <2>4. k + 1 = l + 1 BY <1>2, <1>4, <2>3
  <2> QED BY <1>4, <2>4
<1>7. DOMAIN fromState = 0 .. Len(s) - 1 /\ DOMAIN toState = 0 .. Len(s) - 1 BY <1>1
<1> QED BY <1>2, <1>4, <1>5, <1>6, <1>7

LEMMA SameGotos ==
    ASSUME UNCHANGED << g, states, shift >>
    PROVE  Gotos' = Gotos /\ InOrder(Gotos, GotoOrder)' = InOrder(Gotos, GotoOrder)
<1>1. Gotos' = Gotos BY DEF Gotos, Shifts, AccessingSymbol, ISTOKEN, start_symbol
<1> QED BY <1>1 DEF InOrder

LEMMA GotosStep == GotosInv /\ [Next]_vars => GotosInv'
<1> SUFFICES ASSUME GotosInv, [Next]_vars, phase' \notin {"lr0", "fatal", "expand", "shift"}
             PROVE  GotosListed'
    BY DEF GotosInv
<1>1. CASE LR0Next
  <2>1. phase' \in {"expand", "shift", "fatal"}
    BY <1>1 DEF LR0Next, InitializeStates, Expand, OldState, NewState, TooManyStates, NextStateOfList
  <2> QED BY <2>1
<1>2. ASSUME UNCHANGED << g, states, shift, fromState, toState >>, phase \notin {"lr0", "fatal", "expand", "shift"}
      PROVE  GotosListed'
  <2>1. GotosListed BY <1>2 DEF GotosInv
  <2>2. InOrder(Gotos, GotoOrder)' = InOrder(Gotos, GotoOrder) BY <1>2, SameGotos
  <2> QED BY <1>2, <2>1, <2>2 DEF GotosListed
<1>3. CASE LalrNext
  <2>1. CASE SetGotoMap
    <3>1. UNCHANGED << g, states, shift >> BY <2>1 DEF SetGotoMap
    <3>2. InOrder(Gotos, GotoOrder)' = InOrder(Gotos, GotoOrder) BY <3>1, SameGotos
    <3> QED BY <2>1, <3>2 DEF SetGotoMap, GotosListed
  <2>2. CASE TooManyGotos BY <2>2 DEF TooManyGotos
  <2>3. CASE ~SetGotoMap /\ ~TooManyGotos
    <3>1. UNCHANGED << g, states, shift, fromState, toState >>
          /\ phase \notin {"lr0", "fatal", "expand", "shift"}
      BY <1>3, <2>3 DEF LalrNext, InitializeF, BuildRelations, RunDigraph, ComputeLookaheads,
                       lr0Vars, gotoVars
    <3> QED BY <1>2, <3>1
  <2> QED BY <2>1, <2>2, <2>3
<1>4. CASE MkparNext
  <2>1. /\ UNCHANGED << g, states, shift, fromState, toState >>
        /\ phase \notin {"lr0", "fatal", "expand", "shift"}
    BY <1>4 DEF MkparNext, ListActions, RemoveConflicts, NextRow, Finish, LalrDone, lr0Vars,
                lalrVars, gotoVars
  <2> QED BY <1>2, <2>1
<1>5. CASE UNCHANGED vars
  <2>1. UNCHANGED << g, states, shift, fromState, toState, phase >>
    BY <1>5 DEF vars, lr0Vars, lalrVars, gotoVars
  <2> QED BY <1>2, <2>1
<1> QED BY <1>1, <1>3, <1>4, <1>5 DEF Next
=============================================================================
