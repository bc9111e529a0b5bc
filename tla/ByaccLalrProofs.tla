--------------------------- MODULE ByaccLalrProofs ---------------------------
(***************************************************************************)
(* The automaton that lr0.c and lalr.c build is the LALR(1) automaton, for *)
(* every grammar.                                                          *)
(*                                                                         *)
(* First the reference definitions: nullable symbols, FIRST, closures and  *)
(* the canonical collection are the least sets that are closed under the   *)
(* rules.  Then what the code computes: its closures are closures, its     *)
(* states the cores of the collection, its gotos the transitions by a      *)
(* variable, which map_goto() finds.  Last the equations of DeRemer and    *)
(* Pennello: digraph() finds their least solutions, and these are what can *)
(* be read after a goto and what can follow it.                            *)
(***************************************************************************)
EXTENDS ByaccMkparProofs

-----------------------------------------------------------------------------
(***************************************************************************)
(* Functions that call themselves last, as loops do: one that is what its  *)
(* definition says always exists, for whatever the loop does.  Its value   *)
(* at x is that of a place where the loop that begins with x stops.        *)
(***************************************************************************)
Loops(h, S, stop, val, next) == h = [x \in S |-> IF x \in stop THEN val[x] ELSE h[next[x]]]

Run(S, stop, next, x) ==
    { y \in S : \A C \in SUBSET S : x \in C /\ (\A z \in C \ stop : next[z] \in C) => y \in C }

LEMMA LoopExists ==
    ASSUME NEW S, NEW stop, NEW val, NEW next, next \in [S -> S]
    PROVE  \E h : Loops(h, S, stop, val, next)
<1> DEFINE End(x) == Run(S, stop, next, x) \cap stop
           h == [x \in S |-> val[CHOOSE y : y \in End(x)]]
<1>1. ASSUME NEW x \in S, x \in stop PROVE End(x) = {x}
  <2>1. x \in Run(S, stop, next, x) BY DEF Run
  <2>2. {x} \in SUBSET S /\ \A z \in {x} \ stop : next[z] \in {x} BY <1>1
  <2>3. \A y \in Run(S, stop, next, x) : y \in {x} BY <2>2 DEF Run
  <2> QED BY <1>1, <2>1, <2>3
<1>2. ASSUME NEW x \in S, x \notin stop PROVE End(x) = End(next[x])
  <2>0. PICK y : y = next[x] OBVIOUS
  <2>1. y \in S BY <2>0
  <2>2. ASSUME NEW z \in Run(S, stop, next, x), z \in stop PROVE z \in Run(S, stop, next, y)
    <3> SUFFICES ASSUME NEW C \in SUBSET S, y \in C, \A u \in C \ stop : next[u] \in C PROVE z \in C
      BY DEF Run
    <3>1. C \cup {x} \in SUBSET S /\ \A u \in (C \cup {x}) \ stop : next[u] \in C \cup {x} BY <2>0
    <3>2. z \in C \cup {x} BY <3>1 DEF Run
    <3> QED BY <1>2, <2>2, <3>2
  <2>3. ASSUME NEW z \in Run(S, stop, next, y) PROVE z \in Run(S, stop, next, x)
    <3> SUFFICES ASSUME NEW C \in SUBSET S, x \in C, \A u \in C \ stop : next[u] \in C PROVE z \in C
      BY DEF Run
    <3>1. y \in C BY <1>2, <2>0
    <3> QED BY <3>1 DEF Run
  <2> QED BY <2>0, <2>2, <2>3
<1>3. ASSUME NEW x \in S PROVE h[x] = IF x \in stop THEN val[x] ELSE h[next[x]]
  <2>1. CASE x \in stop BY <1>1, <2>1
  <2>2. CASE x \notin stop
    <3>1. End(x) = End(next[x]) /\ next[x] \in S BY <1>2, <2>2
    <3> HIDE DEF End
    <3> QED BY <2>2, <3>1
  <2> QED BY <2>1, <2>2
<1>4. h = [x \in S |-> IF x \in stop THEN val[x] ELSE h[next[x]]]
  <2>1. h = [x \in S |-> h[x]] OBVIOUS
  <2> HIDE DEF h
  <2> QED BY <1>3, <2>1
<1> QED BY <1>4 DEF Loops

-----------------------------------------------------------------------------
(***************************************************************************)
(* LeastFixpoint() is what its name says, for a finite set U.              *)
(***************************************************************************)
Closed(op, C) == op[C] \subseteq C
IsLeast(U, op, L) ==
    /\ L \in SUBSET U /\ Closed(op, L)
    /\ \A C \in SUBSET U : Closed(op, C) => L \subseteq C

LEMMA FixpointIsLeast ==
    ASSUME NEW U, IsFiniteSet(U), NEW op, Monotonic(U, op), NEW h, Grows(h, U, op)
    PROVE  IsLeast(U, op, h[{}])
<1>3. op \in [SUBSET U -> SUBSET U] BY DEF Monotonic
<1>4. h[{}] \in SUBSET U /\ op[h[{}]] \subseteq h[{}]
  <2>1. U \in SUBSET U /\ \A S \in SUBSET U : op[S] \subseteq U BY <1>3
  <2> QED BY <2>1, GrowsClosed
<1>5. ASSUME NEW C \in SUBSET U, op[C] \subseteq C PROVE h[{}] \subseteq C
  <2> DEFINE op2 == [S \in SUBSET C |-> op[S]]
             h2 == [S \in SUBSET C |-> h[S]]
  <2>1. \A S \in SUBSET C : S \in SUBSET U /\ op[S] \in SUBSET C
    <3>1. \A S \in SUBSET C : op[S] \subseteq op[C] BY DEF Monotonic
    <3> QED BY <1>5, <3>1
  <2>2. Monotonic(C, op2)
    <3>1. op2 \in [SUBSET C -> SUBSET C] BY <2>1
    <3>2. \A S, T2 \in SUBSET C : S \subseteq T2 => op2[S] \subseteq op2[T2] BY <2>1 DEF Monotonic
    <3> QED BY <3>1, <3>2 DEF Monotonic
  <2>3. Grows(h2, C, op2)
    <3>1. \A S \in SUBSET C : S \in SUBSET U /\ S \cup op2[S] \in SUBSET C /\ op2[S] = op[S] BY <2>1
    <3>2. \A S \in SUBSET C : h[S] = IF op[S] \subseteq S THEN S ELSE h[S \cup op[S]] BY <3>1 DEF Grows
    <3>3. \A S \in SUBSET C : h2[S] = IF op2[S] \subseteq S THEN S ELSE h2[S \cup op2[S]] BY <3>1, <3>2
    <3>4. h2 = [S \in SUBSET C |-> h2[S]] OBVIOUS
    <3> HIDE DEF h2, op2
    <3>5. h2 = [S \in SUBSET C |-> IF op2[S] \subseteq S THEN S ELSE h2[S \cup op2[S]]] BY <3>3, <3>4
    <3> QED BY <3>5 DEF Grows
  <2>4. IsFiniteSet(C) /\ C \in SUBSET C BY FS_Subset
  <2>5. \A S \in SUBSET C : op2[S] \subseteq C BY <2>1
  <2>6. h2[{}] = h[{}] OBVIOUS
  <2> HIDE DEF h2, op2
  <2>7. h2[{}] \in SUBSET C BY <2>2, <2>3, <2>4, <2>5, GrowsClosed
  <2> QED BY <2>6, <2>7
<1> QED BY <1>4, <1>5 DEF IsLeast, Closed

-----------------------------------------------------------------------------
(***************************************************************************)
(* Nullable and productive variables, and FIRST: the least sets that are   *)
(* closed under the rules.                                                 *)
(***************************************************************************)
IsTokenOf(gr, x) == x \in 0 .. gr.ntokens - 1

NullClosed(gr, C) ==
    \A r \in DOMAIN gr.rules :
        (\A k \in 1 .. Len(Rhs(gr, r)) : Rhs(gr, r)[k] \in C) => gr.rules[r].lhs \in C
ProductiveClosed(gr, C) ==
    \A r \in DOMAIN gr.rules :
        (\A k \in 1 .. Len(Rhs(gr, r)) : Rhs(gr, r)[k] \in C \/ IsToken(gr, Rhs(gr, r)[k])) =>
            gr.rules[r].lhs \in C

LEMMA SymbolKinds ==
    ASSUME NEW gr \in Grammars
    PROVE  /\ gr.ntokens \in Nat /\ gr.nsyms \in Nat /\ gr.ntokens > 1
           /\ IsFiniteSet(Vars(gr)) /\ IsFiniteSet(0 .. gr.ntokens - 1)
           /\ \A x \in Symbol(gr) : x \in Nat /\ (IsToken(gr, x) <=> x \notin Vars(gr))
           /\ \A x \in Symbol(gr) : IsToken(gr, x) <=> x \in 0 .. gr.ntokens - 1
           /\ \A r \in DOMAIN gr.rules :
                 /\ gr.rules[r].lhs \in Vars(gr) /\ r \in RulesOf(gr, gr.rules[r].lhs)
                 /\ Rhs(gr, r) \in Seq(Symbol(gr)) /\ Len(Rhs(gr, r)) \in Nat
                 /\ \A k \in 1 .. Len(Rhs(gr, r)) : Rhs(gr, r)[k] \in Symbol(gr)
<1>1. \A r \in DOMAIN gr.rules :
         /\ gr.rules[r].lhs \in Vars(gr) /\ r \in RulesOf(gr, gr.rules[r].lhs)
         /\ Rhs(gr, r) \in Seq(Symbol(gr)) /\ Len(Rhs(gr, r)) \in Nat
         /\ \A k \in 1 .. Len(Rhs(gr, r)) : Rhs(gr, r)[k] \in Symbol(gr)
  BY RuleFacts DEF RulesOf
<1>2. gr.ntokens \in Nat /\ gr.nsyms \in Nat /\ gr.ntokens > 1 BY GrammarsAssumption DEF GrammarOK
<1>3. IsFiniteSet(Vars(gr)) /\ IsFiniteSet(0 .. gr.ntokens - 1)
  <2>1. 0 \in Int /\ gr.ntokens \in Int /\ gr.nsyms - 1 \in Int /\ gr.ntokens - 1 \in Int BY <1>2
  <2> QED BY <2>1, FS_Interval DEF Vars
<1>4. \A x \in Symbol(gr) : x \in Nat /\ (IsToken(gr, x) <=> x \notin Vars(gr))
                                      /\ (IsToken(gr, x) <=> x \in 0 .. gr.ntokens - 1)
  BY <1>2 DEF Symbol, IsToken, Vars
<1> QED BY <1>1, <1>2, <1>3, <1>4

LEMMA NullableFacts ==
    ASSUME NEW gr \in Grammars
    PROVE  /\ NullableVars(gr) \in SUBSET Vars(gr) /\ NullClosed(gr, NullableVars(gr))
           /\ \A C \in SUBSET Vars(gr) : NullClosed(gr, C) => NullableVars(gr) \subseteq C
<1> DEFINE U == Vars(gr)
           Once(S) == { A \in Vars(gr) : \E r \in RulesOf(gr, A) :
                           \A k \in 1 .. Len(Rhs(gr, r)) : Rhs(gr, r)[k] \in S }
           op == [S \in SUBSET U |-> Once(S)]
           Is(h) == h = [S \in SUBSET U |-> IF Once(S) \subseteq S THEN S ELSE h[S \cup Once(S)]]
<1>1. Monotonic(U, op)
  <2>1. op \in [SUBSET U -> SUBSET U] OBVIOUS
  <2>2. \A A, C \in SUBSET U : A \subseteq C => op[A] \subseteq op[C] OBVIOUS
  <2> QED BY <2>1, <2>2 DEF Monotonic
<1>2. ASSUME NEW h PROVE Is(h) <=> Grows(h, U, op)
  <2>1. [S \in SUBSET U |-> IF Once(S) \subseteq S THEN S ELSE h[S \cup Once(S)]]
        = [S \in SUBSET U |-> IF op[S] \subseteq S THEN S ELSE h[S \cup op[S]]]
    OBVIOUS
  <2> QED BY <2>1 DEF Grows
<1>3. PICK f : f = CHOOSE h : Is(h) OBVIOUS
<1>4. Grows(f, U, op)
  <2> HIDE DEF U, op, Is
  <2>1. \E h : Is(h) BY <1>1, <1>2, GrowsExists
  <2> QED BY <1>2, <1>3, <2>1
<1>5. NullableVars(gr) = f[{}] BY <1>3 DEF NullableVars, LeastFixpoint
<1>6. IsLeast(U, op, f[{}])
  <2> HIDE DEF op
  <2> QED BY <1>1, <1>4, SymbolKinds, FixpointIsLeast
<1>7. ASSUME NEW C \in SUBSET U PROVE Closed(op, C) <=> NullClosed(gr, C)
  <2>1. Closed(op, C) <=> Once(C) \subseteq C BY DEF Closed
  <2>2. ASSUME Once(C) \subseteq C, NEW r \in DOMAIN gr.rules, \A k \in 1 .. Len(Rhs(gr, r)) : Rhs(gr, r)[k] \in C
        PROVE  gr.rules[r].lhs \in C
    <3>1. gr.rules[r].lhs \in Vars(gr) /\ r \in RulesOf(gr, gr.rules[r].lhs) BY SymbolKinds
    <3> QED BY <2>2, <3>1
  <2>3. ASSUME NullClosed(gr, C), NEW A \in Once(C) PROVE A \in C
    <3>1. PICK r \in RulesOf(gr, A) : \A k \in 1 .. Len(Rhs(gr, r)) : Rhs(gr, r)[k] \in C OBVIOUS
    <3>2. r \in DOMAIN gr.rules /\ gr.rules[r].lhs = A BY DEF RulesOf
    <3> QED BY <2>3, <3>1, <3>2 DEF NullClosed
  <2> HIDE DEF Once
  <2> QED BY <2>1, <2>2, <2>3 DEF NullClosed
<1> HIDE DEF op
<1> QED BY <1>5, <1>6, <1>7 DEF IsLeast

LEMMA ProductiveFacts ==
    ASSUME NEW gr \in Grammars
    PROVE  \A C \in SUBSET Vars(gr) : ProductiveClosed(gr, C) => ProductiveVars(gr) \subseteq C
<1> DEFINE U == Vars(gr)
           Once(S) == { A \in Vars(gr) : \E r \in RulesOf(gr, A) :
                           \A k \in 1 .. Len(Rhs(gr, r)) : Rhs(gr, r)[k] \in S \/ IsToken(gr, Rhs(gr, r)[k]) }
           op == [S \in SUBSET U |-> Once(S)]
           Is(h) == h = [S \in SUBSET U |-> IF Once(S) \subseteq S THEN S ELSE h[S \cup Once(S)]]
<1>1. Monotonic(U, op)
  <2>1. op \in [SUBSET U -> SUBSET U] OBVIOUS
  <2>2. \A A, C \in SUBSET U : A \subseteq C => op[A] \subseteq op[C] OBVIOUS
  <2> QED BY <2>1, <2>2 DEF Monotonic
<1>2. ASSUME NEW h PROVE Is(h) <=> Grows(h, U, op)
  <2>1. [S \in SUBSET U |-> IF Once(S) \subseteq S THEN S ELSE h[S \cup Once(S)]]
        = [S \in SUBSET U |-> IF op[S] \subseteq S THEN S ELSE h[S \cup op[S]]]
    OBVIOUS
  <2> QED BY <2>1 DEF Grows
<1>3. PICK f : f = CHOOSE h : Is(h) OBVIOUS
<1>4. Grows(f, U, op)
  <2> HIDE DEF U, op, Is
  <2>1. \E h : Is(h) BY <1>1, <1>2, GrowsExists
  <2> QED BY <1>2, <1>3, <2>1
<1>5. ProductiveVars(gr) = f[{}] BY <1>3 DEF ProductiveVars, LeastFixpoint
<1>6. IsLeast(U, op, f[{}])
  <2> HIDE DEF op
  <2> QED BY <1>1, <1>4, SymbolKinds, FixpointIsLeast
<1>7. ASSUME NEW C \in SUBSET U, ProductiveClosed(gr, C) PROVE Closed(op, C)
  <2>1. Closed(op, C) <=> Once(C) \subseteq C BY DEF Closed
  <2>3. ASSUME NEW A \in Once(C) PROVE A \in C
    <3>1. PICK r \in RulesOf(gr, A) :
             \A k \in 1 .. Len(Rhs(gr, r)) : Rhs(gr, r)[k] \in C \/ IsToken(gr, Rhs(gr, r)[k]) OBVIOUS
    <3>2. r \in DOMAIN gr.rules /\ gr.rules[r].lhs = A BY DEF RulesOf
    <3> QED BY <1>7, <3>1, <3>2 DEF ProductiveClosed
  <2> HIDE DEF Once
  <2> QED BY <2>1, <2>3
<1> HIDE DEF op
<1> QED BY <1>5, <1>6, <1>7 DEF IsLeast

(* What can come first in what follows the first d symbols of rule r, given
   the nullable variables ns and pairs ps; and whether nothing need come. *)
Begins(gr, ns, ps, r, d, t) ==
    \E k \in d + 1 .. Len(Rhs(gr, r)) :
        /\ \A j \in d + 1 .. k - 1 : Rhs(gr, r)[j] \in ns
        /\ Rhs(gr, r)[k] = t \/ << Rhs(gr, r)[k], t >> \in ps
Vanishes(gr, ns, r, d) == \A j \in d + 1 .. Len(Rhs(gr, r)) : Rhs(gr, r)[j] \in ns

FirstClosed(gr, ns, ps) ==
    \A r \in DOMAIN gr.rules : \A t \in 0 .. gr.ntokens - 1 :
        Begins(gr, ns, ps, r, 0, t) => << gr.rules[r].lhs, t >> \in ps

LEMMA FirstFacts ==
    ASSUME NEW gr \in Grammars, NEW ns
    PROVE  /\ FirstPairs(gr, ns) \in SUBSET (Vars(gr) \X (0 .. gr.ntokens - 1))
           /\ FirstClosed(gr, ns, FirstPairs(gr, ns))
           /\ \A C \in SUBSET (Vars(gr) \X (0 .. gr.ntokens - 1)) :
                 FirstClosed(gr, ns, C) => FirstPairs(gr, ns) \subseteq C
<1> DEFINE U == Vars(gr) \X (0 .. gr.ntokens - 1)
           Once(S) == { p \in U : \E r \in RulesOf(gr, p[1]) : p[2] \in FirstOf(gr, ns, S, Rhs(gr, r)) }
           op == [S \in SUBSET U |-> Once(S)]
           Is(h) == h = [S \in SUBSET U |-> IF Once(S) \subseteq S THEN S ELSE h[S \cup Once(S)]]
<1>0. \A S : \A r \in DOMAIN gr.rules : \A t \in 0 .. gr.ntokens - 1 :
         t \in FirstOf(gr, ns, S, Rhs(gr, r)) <=> Begins(gr, ns, S, r, 0, t)
  BY DEF FirstOf, Begins
<1>1. Monotonic(U, op)
  <2>1. op \in [SUBSET U -> SUBSET U] OBVIOUS
  <2>2. \A A, C \in SUBSET U : A \subseteq C => op[A] \subseteq op[C]
    <3>1. \A A, C \in SUBSET U : \A s : A \subseteq C => FirstOf(gr, ns, A, s) \subseteq FirstOf(gr, ns, C, s)
      BY DEF FirstOf
    <3> QED BY <3>1
  <2> QED BY <2>1, <2>2 DEF Monotonic
<1>2. ASSUME NEW h PROVE Is(h) <=> Grows(h, U, op)
  <2>1. [S \in SUBSET U |-> IF Once(S) \subseteq S THEN S ELSE h[S \cup Once(S)]]
        = [S \in SUBSET U |-> IF op[S] \subseteq S THEN S ELSE h[S \cup op[S]]]
    OBVIOUS
  <2> QED BY <2>1 DEF Grows
<1>3. PICK f : f = CHOOSE h : Is(h) OBVIOUS
<1>4. Grows(f, U, op)
  <2> HIDE DEF U, op, Is
  <2>1. \E h : Is(h) BY <1>1, <1>2, GrowsExists
  <2> QED BY <1>2, <1>3, <2>1
<1>5. FirstPairs(gr, ns) = f[{}] BY <1>3 DEF FirstPairs, LeastFixpoint
<1>6. IsLeast(U, op, f[{}])
  <2> HIDE DEF op
  <2>1. IsFiniteSet(U) BY SymbolKinds, FS_Product
  <2> QED BY <1>1, <1>4, <2>1, FixpointIsLeast
<1>7. ASSUME NEW C \in SUBSET U PROVE Closed(op, C) <=> FirstClosed(gr, ns, C)
  <2>1. Closed(op, C) <=> Once(C) \subseteq C BY DEF Closed
  <2>2. ASSUME Once(C) \subseteq C, NEW r \in DOMAIN gr.rules, NEW t \in 0 .. gr.ntokens - 1,
               Begins(gr, ns, C, r, 0, t)
        PROVE  << gr.rules[r].lhs, t >> \in C
    <3>1. gr.rules[r].lhs \in Vars(gr) /\ r \in RulesOf(gr, gr.rules[r].lhs) BY SymbolKinds
    <3>2. t \in FirstOf(gr, ns, C, Rhs(gr, r)) BY <1>0, <2>2
    <3>3. PICK p : p = << gr.rules[r].lhs, t >> OBVIOUS
    <3>4. p \in U /\ p[1] = gr.rules[r].lhs /\ p[2] = t BY <3>1, <3>3
    <3>5. p \in Once(C) BY <3>1, <3>2, <3>4
    <3> QED BY <2>2, <3>3, <3>5
  <2>3. ASSUME FirstClosed(gr, ns, C), NEW p \in Once(C) PROVE p \in C
    <3>1. p \in U /\ p = << p[1], p[2] >> OBVIOUS
    <3>2. PICK r \in RulesOf(gr, p[1]) : p[2] \in FirstOf(gr, ns, C, Rhs(gr, r)) OBVIOUS
    <3>3. r \in DOMAIN gr.rules /\ gr.rules[r].lhs = p[1] BY DEF RulesOf
    <3>4. p[2] \in 0 .. gr.ntokens - 1 BY <3>1
    <3>5. Begins(gr, ns, C, r, 0, p[2]) BY <1>0, <3>2, <3>3, <3>4
    <3> QED BY <2>3, <3>1, <3>3, <3>4, <3>5 DEF FirstClosed
  <2> HIDE DEF Once, U
  <2> QED BY <2>1, <2>2, <2>3 DEF FirstClosed
<1> HIDE DEF op
<1> QED BY <1>5, <1>6, <1>7 DEF IsLeast

-----------------------------------------------------------------------------
(* Nothing is in the way: what follows a dot begins with a token, or vanishes. *)
Ns(gr) == NullableVars(gr)
Ps(gr) == FirstPairs(gr, NullableVars(gr))
AllProductive(gr) == ProductiveVars(gr) = Vars(gr)

(* The first of the symbols after the dot that is not in ns, if there is one. *)
LEMMA FirstBeyond ==
    ASSUME NEW gr \in Grammars, NEW r \in DOMAIN gr.rules, NEW d \in Nat, NEW ns, ~Vanishes(gr, ns, r, d)
    PROVE  \E k \in d + 1 .. Len(Rhs(gr, r)) :
              Rhs(gr, r)[k] \notin ns /\ \A j \in d + 1 .. k - 1 : Rhs(gr, r)[j] \in ns
<1> DEFINE Bad == { k \in d + 1 .. Len(Rhs(gr, r)) : Rhs(gr, r)[k] \notin ns }
<1>1. Len(Rhs(gr, r)) \in Nat BY SymbolKinds
<1>2. Bad \in SUBSET Nat /\ Bad # {} BY <1>1 DEF Vanishes
<1> HIDE DEF Bad
<1>3. PICK k \in Bad : \A l \in Bad : k <= l BY <1>2, LeastExists
<1>4. k \in d + 1 .. Len(Rhs(gr, r)) /\ Rhs(gr, r)[k] \notin ns BY <1>3 DEF Bad
<1>5. ASSUME NEW j \in d + 1 .. k - 1 PROVE Rhs(gr, r)[j] \in ns
  <2>1. j \in d + 1 .. Len(Rhs(gr, r)) /\ ~(k <= j) BY <1>1, <1>4
  <2> QED BY <1>3, <2>1 DEF Bad
<1> QED BY <1>4, <1>5

LEMMA AllBegin ==
    ASSUME NEW gr \in Grammars, AllProductive(gr)
    PROVE  \A A \in Vars(gr) : A \in Ns(gr) \/ \E t \in 0 .. gr.ntokens - 1 : << A, t >> \in Ps(gr)
<1> DEFINE Ok(A) == A \in Ns(gr) \/ \E t \in 0 .. gr.ntokens - 1 : << A, t >> \in Ps(gr)
           C == { A \in Vars(gr) : Ok(A) }
<1>1. ASSUME NEW r \in DOMAIN gr.rules,
             \A k \in 1 .. Len(Rhs(gr, r)) : Rhs(gr, r)[k] \in C \/ IsToken(gr, Rhs(gr, r)[k])
      PROVE  gr.rules[r].lhs \in C
  <2>1. gr.rules[r].lhs \in Vars(gr) BY SymbolKinds
  <2>2. CASE Vanishes(gr, Ns(gr), r, 0)
    <3>1. \A k \in 1 .. Len(Rhs(gr, r)) : Rhs(gr, r)[k] \in NullableVars(gr) BY <2>2 DEF Vanishes, Ns
    <3>2. gr.rules[r].lhs \in NullableVars(gr) BY <3>1, NullableFacts DEF NullClosed
    <3> QED BY <2>1, <3>2 DEF Ns
  <2>3. CASE ~Vanishes(gr, Ns(gr), r, 0)
    <3>1. PICK k \in 0 + 1 .. Len(Rhs(gr, r)) :
             Rhs(gr, r)[k] \notin Ns(gr) /\ \A j \in 0 + 1 .. k - 1 : Rhs(gr, r)[j] \in Ns(gr)
      BY <2>3, FirstBeyond
    <3>2. k \in 1 .. Len(Rhs(gr, r)) /\ Rhs(gr, r)[k] \in Symbol(gr) BY <3>1, SymbolKinds
    <3>3. PICK x : x = Rhs(gr, r)[k] OBVIOUS
    <3>4. \E t \in 0 .. gr.ntokens - 1 : x = t \/ << x, t >> \in Ps(gr)
      <4>1. CASE IsToken(gr, x) BY <3>2, <3>3, <4>1, SymbolKinds
      <4>2. CASE x \in C BY <3>1, <3>3, <4>2
      <4> QED BY <1>1, <3>2, <3>3, <4>1, <4>2
    <3>5. PICK t \in 0 .. gr.ntokens - 1 : x = t \/ << x, t >> \in Ps(gr) BY <3>4
    <3>6. Begins(gr, Ns(gr), Ps(gr), r, 0, t) BY <3>1, <3>3, <3>5 DEF Begins
    <3>7. << gr.rules[r].lhs, t >> \in Ps(gr) BY <3>6, FirstFacts DEF FirstClosed, Ns, Ps
    <3> QED BY <2>1, <3>7
  <2> QED BY <2>2, <2>3
<1>2. C \in SUBSET Vars(gr) OBVIOUS
<1> HIDE DEF C
<1>3. ProductiveClosed(gr, C) BY <1>1 DEF ProductiveClosed
<1>4. Vars(gr) \subseteq C BY <1>2, <1>3, ProductiveFacts DEF AllProductive
<1> QED BY <1>4 DEF C

LEMMA SomethingFollows ==
    ASSUME NEW gr \in Grammars, AllProductive(gr), NEW r \in DOMAIN gr.rules, NEW d \in Nat
    PROVE  Vanishes(gr, Ns(gr), r, d) \/ \E t \in 0 .. gr.ntokens - 1 : Begins(gr, Ns(gr), Ps(gr), r, d, t)
<1> SUFFICES ASSUME ~Vanishes(gr, Ns(gr), r, d)
             PROVE  \E t \in 0 .. gr.ntokens - 1 : Begins(gr, Ns(gr), Ps(gr), r, d, t)
  OBVIOUS
<1>1. PICK k \in d + 1 .. Len(Rhs(gr, r)) :
         Rhs(gr, r)[k] \notin Ns(gr) /\ \A j \in d + 1 .. k - 1 : Rhs(gr, r)[j] \in Ns(gr)
  BY FirstBeyond
<1>2. Len(Rhs(gr, r)) \in Nat BY SymbolKinds
<1>3. k \in 1 .. Len(Rhs(gr, r)) BY <1>1, <1>2
<1>4. PICK x \in Symbol(gr) : x = Rhs(gr, r)[k] BY <1>3, SymbolKinds
<1>5. \E t \in 0 .. gr.ntokens - 1 : x = t \/ << x, t >> \in Ps(gr)
  <2>1. CASE IsToken(gr, x) BY <2>1, SymbolKinds
  <2>2. CASE ~IsToken(gr, x)
    <3>1. x \in Vars(gr) BY <2>2, SymbolKinds
    <3> QED BY <1>1, <1>4, <3>1, AllBegin
  <2> QED BY <2>1, <2>2
<1> QED BY <1>1, <1>4, <1>5 DEF Begins

-----------------------------------------------------------------------------
(* LR(1) items, and what can follow the symbol after a dot. *)
LEMMA Items1Facts ==
    ASSUME NEW gr \in Grammars
    PROVE  /\ \A it \in Items1(gr) :
                 /\ it = << it[1], it[2], it[3] >> /\ it[1] \in DOMAIN gr.rules
                 /\ it[2] \in 0 .. Len(Rhs(gr, it[1])) /\ it[3] \in 0 .. gr.ntokens - 1
           /\ \A r \in DOMAIN gr.rules : \A d \in 0 .. Len(Rhs(gr, r)) : \A t \in 0 .. gr.ntokens - 1 :
                 << r, d, t >> \in Items1(gr)
BY DEF Items1

LEMMA Items1Finite ==
    ASSUME NEW gr \in Grammars
    PROVE  IsFiniteSet(Items1(gr))
<1> DEFINE f == [r \in DOMAIN gr.rules |-> { << r, d, t >> : d \in 0 .. Len(Rhs(gr, r)), t \in 0 .. gr.ntokens - 1 }]
           Sets == { f[r] : r \in DOMAIN gr.rules }
<1>1. ASSUME NEW r \in DOMAIN gr.rules PROVE IsFiniteSet(f[r])
  <2> DEFINE W == (0 .. Len(Rhs(gr, r))) \X (0 .. gr.ntokens - 1)
             h == [p \in W |-> << r, p[1], p[2] >>]
  <2>1. Len(Rhs(gr, r)) \in Int /\ 0 \in Int BY SymbolKinds
  <2>2. IsFiniteSet(0 .. Len(Rhs(gr, r))) BY <2>1, FS_Interval
  <2>3. IsFiniteSet(W) BY <2>2, SymbolKinds, FS_Product
  <2>4. f[r] = { h[p] : p \in W }
    <3>1. f[r] = { << r, d, t >> : d \in 0 .. Len(Rhs(gr, r)), t \in 0 .. gr.ntokens - 1 } OBVIOUS
    <3>2. \A p \in W : h[p] = << r, p[1], p[2] >> /\ p[1] \in 0 .. Len(Rhs(gr, r)) /\ p[2] \in 0 .. gr.ntokens - 1 OBVIOUS
    <3>3. ASSUME NEW x \in f[r] PROVE x \in { h[p] : p \in W }
      <4>1. PICK d \in 0 .. Len(Rhs(gr, r)), t \in 0 .. gr.ntokens - 1 : x = << r, d, t >> BY <3>1
      <4>2. << d, t >> \in W /\ h[<< d, t >>] = x BY <4>1
      <4> HIDE DEF h, W
      <4> QED BY <4>2
    <3>4. ASSUME NEW x \in { h[p] : p \in W } PROVE x \in f[r]
      <4>1. PICK p \in W : x = h[p] OBVIOUS
      <4>2. PICK e, t : e = p[1] /\ t = p[2] OBVIOUS
      <4>3. e \in 0 .. Len(Rhs(gr, r)) /\ t \in 0 .. gr.ntokens - 1 /\ x = << r, e, t >> BY <3>2, <4>1, <4>2
      <4> HIDE DEF h, W, f
      <4> QED BY <3>1, <4>3
    <3> HIDE DEF f, h, W
    <3> QED BY <3>3, <3>4
  <2>5. DOMAIN h = W OBVIOUS
  <2> HIDE DEF h, W, f
  <2> QED BY <2>3, <2>4, <2>5, ImageFinite
<1>2. DOMAIN f = DOMAIN gr.rules /\ IsFiniteSet(DOMAIN gr.rules) BY ItemsFinite
<1>3. Items1(gr) = UNION Sets
  <2>1. \A r \in DOMAIN gr.rules :
           f[r] = { << r, d, t >> : d \in 0 .. Len(Rhs(gr, r)), t \in 0 .. gr.ntokens - 1 }
    OBVIOUS
  <2> HIDE DEF f
  <2> QED BY <2>1 DEF Items1
<1> HIDE DEF f
<1>4. IsFiniteSet(Sets) BY <1>2, ImageFinite
<1>5. \A S \in Sets : IsFiniteSet(S) BY <1>1
<1> HIDE DEF Sets
<1> QED BY <1>3, <1>4, <1>5, FS_UNION

(* The lookahead u of an item whose dot is after d symbols, and what can come
   after the dot. *)
Comes(gr, r, d, u, t) ==
    \/ Begins(gr, Ns(gr), Ps(gr), r, d, t)
    \/ Vanishes(gr, Ns(gr), r, d) /\ t = u

LEMMA AfterDot ==
    ASSUME NEW gr \in Grammars, NEW r \in DOMAIN gr.rules, NEW d \in Nat, d < Len(Rhs(gr, r)),
           NEW u \in 0 .. gr.ntokens - 1, NEW t \in 0 .. gr.ntokens - 1
    PROVE  t \in FirstOf(gr, Ns(gr), Ps(gr), Append(SubSeq(Rhs(gr, r), d + 2, Len(Rhs(gr, r))), u))
              <=> Comes(gr, r, d + 1, u, t)
<1>1. PICK s, n, part, w : s = Rhs(gr, r) /\ n = Len(s) /\ part = SubSeq(s, d + 2, n) /\ w = Append(part, u)
  OBVIOUS
<1>2. s \in Seq(Symbol(gr)) /\ n \in Nat BY <1>1, SymbolKinds
<1>3. d + 2 \in 1 .. n + 1 /\ n \in 0 .. n /\ d + 2 <= n + 1 BY <1>1, <1>2
<1>4. /\ part \in Seq(Symbol(gr)) /\ Len(part) = n - (d + 2) + 1
      /\ \A k \in 1 .. n - (d + 2) + 1 : part[k] = s[d + 2 + k - 1]
  BY <1>1, <1>2, <1>3, PartOf
<1>5. PICK m : m = n - (d + 1) OBVIOUS
<1>6. m \in Nat /\ Len(part) = m /\ \A k \in 1 .. m : part[k] = s[d + 1 + k] /\ d + 1 + k \in d + 1 + 1 .. n
  BY <1>1, <1>2, <1>4, <1>5
<1>7. u \in Symbol(gr) /\ u \notin Vars(gr) /\ IsToken(gr, u)
  <2>1. \A x \in 0 .. gr.ntokens - 1 : x < gr.ntokens /\ x \in Nat BY SymbolKinds
  <2>2. gr.ntokens \in Nat /\ gr.nsyms \in Nat /\ gr.ntokens < gr.nsyms
    <3>1. 2 \in DOMAIN gr.rules BY GrammarsAssumption DEF GrammarOK
    <3> QED BY <3>1, RuleFacts
  <2>3. u \in Symbol(gr) BY <2>1, <2>2 DEF Symbol
  <2> QED BY <2>1, <2>3, SymbolKinds DEF IsToken
<1>8. Len(w) = m + 1 /\ w[m + 1] = u /\ \A k \in 1 .. m : w[k] = s[d + 1 + k]
  BY <1>1, <1>4, <1>6, <1>7
<1>9. t \in FirstOf(gr, Ns(gr), Ps(gr), w) <=>
         \E k \in 1 .. m + 1 : (\A j \in 1 .. k - 1 : w[j] \in Ns(gr)) /\ (w[k] = t \/ << w[k], t >> \in Ps(gr))
  BY <1>8 DEF FirstOf
<1>10. << u, t >> \notin Ps(gr) BY <1>7, FirstFacts DEF Ps
<1>11. ASSUME NEW k \in 1 .. m + 1, \A j \in 1 .. k - 1 : w[j] \in Ns(gr), w[k] = t \/ << w[k], t >> \in Ps(gr)
       PROVE  Comes(gr, r, d + 1, u, t)
  <2>1. CASE k = m + 1
    <3>1. t = u BY <1>8, <1>10, <1>11, <2>1
    <3>2. ASSUME NEW j \in d + 1 + 1 .. n PROVE s[j] \in Ns(gr)
      <4>1. j - (d + 1) \in 1 .. m /\ d + 1 + (j - (d + 1)) = j BY <1>2, <1>5, <1>6
      <4>2. j - (d + 1) \in 1 .. k - 1 BY <2>1, <4>1, <1>6
      <4> QED BY <1>8, <1>11, <4>1, <4>2
    <3>3. Vanishes(gr, Ns(gr), r, d + 1) BY <1>1, <3>2 DEF Vanishes
    <3> QED BY <3>1, <3>3 DEF Comes
  <2>2. CASE k # m + 1
    <3>1. k \in 1 .. m BY <1>6, <2>2
    <3>2. w[k] = s[d + 1 + k] /\ d + 1 + k \in d + 1 + 1 .. n BY <1>6, <1>8, <3>1
    <3>3. ASSUME NEW j \in d + 1 + 1 .. d + 1 + k - 1 PROVE s[j] \in Ns(gr)
      <4>1. j - (d + 1) \in 1 .. m /\ d + 1 + (j - (d + 1)) = j /\ j - (d + 1) \in 1 .. k - 1
        BY <1>6, <3>1
      <4> QED BY <1>8, <1>11, <4>1
    <3>4. PICK e : e = d + 1 + k OBVIOUS
    <3>5. /\ e \in d + 1 + 1 .. n
          /\ s[e] = t \/ << s[e], t >> \in Ps(gr)
          /\ \A j \in d + 1 + 1 .. e - 1 : s[j] \in Ns(gr)
      BY <1>11, <3>2, <3>3, <3>4
    <3>6. Begins(gr, Ns(gr), Ps(gr), r, d + 1, t) BY <1>1, <3>5 DEF Begins
    <3> QED BY <3>6 DEF Comes
  <2> QED BY <2>1, <2>2
<1>12. ASSUME Comes(gr, r, d + 1, u, t)
       PROVE  \E k \in 1 .. m + 1 : (\A j \in 1 .. k - 1 : w[j] \in Ns(gr)) /\ (w[k] = t \/ << w[k], t >> \in Ps(gr))
  <2>1. CASE Begins(gr, Ns(gr), Ps(gr), r, d + 1, t)
    <3>1. PICK k \in d + 1 + 1 .. n : /\ \A j \in d + 1 + 1 .. k - 1 : s[j] \in Ns(gr)
                                      /\ s[k] = t \/ << s[k], t >> \in Ps(gr)
      BY <1>1, <2>1 DEF Begins
    <3>2. k - (d + 1) \in 1 .. m /\ d + 1 + (k - (d + 1)) = k BY <1>2, <1>5
    <3>3. \A j \in 1 .. k - (d + 1) - 1 : j \in 1 .. m /\ d + 1 + j \in d + 1 + 1 .. k - 1 BY <1>6, <3>2
    <3>4. PICK e : e = k - (d + 1) OBVIOUS
    <3>5. e \in 1 .. m + 1 /\ w[e] = s[k] /\ \A j \in 1 .. e - 1 : w[j] \in Ns(gr)
      <4>1. w[e] = s[k] BY <1>8, <3>2, <3>4
      <4>2. \A j \in 1 .. e - 1 : w[j] \in Ns(gr) BY <1>8, <3>1, <3>3, <3>4
      <4>3. e \in 1 .. m + 1 BY <1>6, <3>2, <3>4
      <4> QED BY <4>1, <4>2, <4>3
    <3> QED BY <3>1, <3>5
  <2>2. CASE Vanishes(gr, Ns(gr), r, d + 1) /\ t = u
    <3>1. \A j \in d + 1 + 1 .. n : s[j] \in Ns(gr) BY <1>1, <2>2 DEF Vanishes
    <3>2. \A j \in 1 .. m : w[j] \in Ns(gr) BY <1>6, <1>8, <3>1
    <3>3. m + 1 \in 1 .. m + 1 /\ m + 1 - 1 = m BY <1>6
    <3>4. PICK e : e = m + 1 OBVIOUS
    <3>5. e \in 1 .. m + 1 /\ w[e] = t /\ \A j \in 1 .. e - 1 : w[j] \in Ns(gr)
      BY <1>6, <1>8, <2>2, <3>2, <3>3, <3>4
    <3> QED BY <3>5
  <2> QED BY <1>12, <2>1, <2>2 DEF Comes
<1> QED BY <1>1, <1>9, <1>11, <1>12

-----------------------------------------------------------------------------
(* The closure of a set of LR(1) items. *)
SymbolAfter(gr, it) == Rhs(gr, it[1])[it[2] + 1]

Closed1(gr, S) ==
    \A it \in S : it[2] < Len(Rhs(gr, it[1])) =>
        \A r \in RulesOf(gr, SymbolAfter(gr, it)) : \A t \in 0 .. gr.ntokens - 1 :
            Comes(gr, it[1], it[2] + 1, it[3], t) => << r, 0, t >> \in S

Closure1Of(gr, J) == Closure1(gr, Ns(gr), Ps(gr), J)

LEMMA Next1Facts ==
    ASSUME NEW gr \in Grammars, NEW it \in Items1(gr)
    PROVE  /\ it[2] < Len(Rhs(gr, it[1])) =>
                 /\ it[2] + 1 \in 1 .. Len(Rhs(gr, it[1]))
                 /\ Next1(gr, it) = SymbolAfter(gr, it) /\ SymbolAfter(gr, it) \in Symbol(gr)
                 /\ IsToken(gr, SymbolAfter(gr, it)) => RulesOf(gr, SymbolAfter(gr, it)) = {}
           /\ ~(it[2] < Len(Rhs(gr, it[1]))) =>
                 it[2] = Len(Rhs(gr, it[1])) /\ Next1(gr, it) = -1 /\ IsToken(gr, -1)
<1>1. it[1] \in DOMAIN gr.rules /\ it[2] \in 0 .. Len(Rhs(gr, it[1])) BY Items1Facts
<1>2. Len(Rhs(gr, it[1])) \in Nat /\ gr.ntokens \in Nat BY <1>1, SymbolKinds
<1>3. CASE it[2] < Len(Rhs(gr, it[1]))
  <2>1. it[2] + 1 \in 1 .. Len(Rhs(gr, it[1])) BY <1>1, <1>2, <1>3
  <2>2. SymbolAfter(gr, it) \in Symbol(gr) BY <1>1, <2>1, SymbolKinds DEF SymbolAfter
  <2>3. ASSUME IsToken(gr, SymbolAfter(gr, it)) PROVE RulesOf(gr, SymbolAfter(gr, it)) = {}
    <3>1. SymbolAfter(gr, it) \notin Vars(gr) BY <2>2, <2>3, SymbolKinds
    <3> QED BY <3>1, SymbolKinds DEF RulesOf
  <2> QED BY <1>3, <2>1, <2>2, <2>3 DEF Next1, SymbolAfter
<1>4. CASE ~(it[2] < Len(Rhs(gr, it[1])))
  BY <1>1, <1>2, <1>4 DEF Next1, IsToken
<1> QED BY <1>3, <1>4

LEMMA Closure1Facts ==
    ASSUME NEW gr \in Grammars, NEW J \in SUBSET Items1(gr)
    PROVE  /\ Closure1Of(gr, J) \in SUBSET Items1(gr) /\ J \subseteq Closure1Of(gr, J)
           /\ Closed1(gr, Closure1Of(gr, J))
           /\ \A C \in SUBSET Items1(gr) : J \subseteq C /\ Closed1(gr, C) => Closure1Of(gr, J) \subseteq C
<1> DEFINE U == Items1(gr)
           After(it) == FirstOf(gr, Ns(gr), Ps(gr),
                           Append(SubSeq(Rhs(gr, it[1]), it[2] + 2, Len(Rhs(gr, it[1]))), it[3]))
           From(it) == { << r, 0, t >> : r \in RulesOf(gr, Next1(gr, it)), t \in After(it) }
           Once(S) == J \cup UNION { From(it) : it \in { x \in S : ~IsToken(gr, Next1(gr, x)) } }
           op == [S \in SUBSET U |-> Once(S)]
           Is(h) == h = [S \in SUBSET U |-> IF Once(S) \subseteq S THEN S ELSE h[S \cup Once(S)]]
<1>0. ASSUME NEW it \in U, ~IsToken(gr, Next1(gr, it)), NEW x \in From(it) PROVE x \in U
  <2>1. PICK r \in RulesOf(gr, Next1(gr, it)), t \in After(it) : x = << r, 0, t >> OBVIOUS
  <2>2. r \in DOMAIN gr.rules BY DEF RulesOf
  <2>3. t \in 0 .. gr.ntokens - 1 BY DEF FirstOf
  <2>4. 0 \in 0 .. Len(Rhs(gr, r)) BY <2>2, SymbolKinds
  <2> QED BY <2>1, <2>2, <2>3, <2>4, Items1Facts
<1>1. Monotonic(U, op)
  <2>1. op \in [SUBSET U -> SUBSET U]
    <3> SUFFICES ASSUME NEW S \in SUBSET U PROVE Once(S) \in SUBSET U OBVIOUS
    <3> HIDE DEF U, From
    <3> QED BY <1>0 DEF U
  <2>2. \A A, C \in SUBSET U : A \subseteq C => op[A] \subseteq op[C]
    <3> HIDE DEF U, From
    <3> QED OBVIOUS
  <2> HIDE DEF op, U
  <2> QED BY <2>1, <2>2 DEF Monotonic
<1>2. ASSUME NEW h PROVE Is(h) <=> Grows(h, U, op)
  <2> HIDE DEF From
  <2>1. [S \in SUBSET U |-> IF Once(S) \subseteq S THEN S ELSE h[S \cup Once(S)]]
        = [S \in SUBSET U |-> IF op[S] \subseteq S THEN S ELSE h[S \cup op[S]]]
    <3>1. \A S \in SUBSET U : op[S] = Once(S) OBVIOUS
    <3> HIDE DEF op, Once, U
    <3> QED BY <3>1
  <2> HIDE DEF Once, op
  <2> QED BY <2>1 DEF Grows
<1>3. PICK f : f = CHOOSE h : Is(h)
  <2> HIDE DEF Is
  <2> QED OBVIOUS
<1>4. Grows(f, U, op)
  <2> HIDE DEF U, op, Is
  <2>1. \E h : Is(h) BY <1>1, <1>2, GrowsExists
  <2> QED BY <1>2, <1>3, <2>1
<1>5. Closure1Of(gr, J) = f[{}] BY <1>3 DEF Closure1Of, Closure1, LeastFixpoint
<1>6. IsLeast(U, op, f[{}])
  <2> HIDE DEF op, U
  <2>1. IsFiniteSet(U) BY Items1Finite DEF U
  <2> QED BY <1>1, <1>4, <2>1, FixpointIsLeast
<1>7. ASSUME NEW it \in U, NEW r, NEW t
      PROVE  ~IsToken(gr, Next1(gr, it)) /\ << r, 0, t >> \in From(it) <=>
                /\ it[2] < Len(Rhs(gr, it[1])) /\ r \in RulesOf(gr, SymbolAfter(gr, it))
                /\ t \in 0 .. gr.ntokens - 1 /\ Comes(gr, it[1], it[2] + 1, it[3], t)
  <2>0. << r, 0, t >> \in From(it) <=> r \in RulesOf(gr, Next1(gr, it)) /\ t \in After(it)
    <3> HIDE DEF After
    <3> QED OBVIOUS
  <2>1. t \in After(it) => t \in 0 .. gr.ntokens - 1 BY DEF FirstOf
  <2>2. it[1] \in DOMAIN gr.rules /\ it[2] \in 0 .. Len(Rhs(gr, it[1])) /\ it[3] \in 0 .. gr.ntokens - 1
    BY Items1Facts
  <2>3. it[2] \in Nat BY <2>2, SymbolKinds
  <2>4. it[2] < Len(Rhs(gr, it[1])) /\ t \in 0 .. gr.ntokens - 1 =>
           (t \in After(it) <=> Comes(gr, it[1], it[2] + 1, it[3], t))
    BY <2>2, <2>3, AfterDot
  <2> HIDE DEF From, After
  <2>5. CASE it[2] < Len(Rhs(gr, it[1]))
    <3>1. Next1(gr, it) = SymbolAfter(gr, it)
          /\ (IsToken(gr, SymbolAfter(gr, it)) => RulesOf(gr, SymbolAfter(gr, it)) = {}) BY <2>5, Next1Facts
    <3> QED BY <2>0, <2>1, <2>4, <2>5, <3>1
  <2>6. CASE ~(it[2] < Len(Rhs(gr, it[1]))) BY <2>6, Next1Facts
  <2> QED BY <2>5, <2>6
<1>8. \A C \in SUBSET U : Closed(op, C) <=> Once(C) \subseteq C
  <2> HIDE DEF Once, U
  <2> QED BY DEF Closed
<1>9. ASSUME NEW C \in SUBSET U PROVE Closed(op, C) <=> J \subseteq C /\ Closed1(gr, C)
  <2>1. ASSUME Once(C) \subseteq C PROVE J \subseteq C /\ Closed1(gr, C)
    <3>1. ASSUME NEW it \in C, it[2] < Len(Rhs(gr, it[1])), NEW r \in RulesOf(gr, SymbolAfter(gr, it)),
                 NEW t \in 0 .. gr.ntokens - 1, Comes(gr, it[1], it[2] + 1, it[3], t)
          PROVE  << r, 0, t >> \in C
      <4>1. it \in U OBVIOUS
      <4> HIDE DEF From, U
      <4>2. ~IsToken(gr, Next1(gr, it)) /\ << r, 0, t >> \in From(it) BY <1>7, <3>1, <4>1
      <4> QED BY <2>1, <4>2
    <3> HIDE DEF From
    <3> QED BY <2>1, <3>1 DEF Closed1
  <2>2. ASSUME J \subseteq C, Closed1(gr, C), NEW x \in Once(C) PROVE x \in C
    <3>1. CASE x \in J BY <2>2, <3>1
    <3>2. CASE x \notin J
      <4>1. PICK it \in C : ~IsToken(gr, Next1(gr, it)) /\ x \in From(it)
        <5> HIDE DEF From, U
        <5> QED BY <2>2, <3>2
      <4>2. PICK r, t : x = << r, 0, t >>
        <5> HIDE DEF After
        <5> QED BY <4>1
      <4>3. it \in U OBVIOUS
      <4> HIDE DEF From, U
      <4>4. /\ it[2] < Len(Rhs(gr, it[1])) /\ r \in RulesOf(gr, SymbolAfter(gr, it))
            /\ t \in 0 .. gr.ntokens - 1 /\ Comes(gr, it[1], it[2] + 1, it[3], t)
        BY <1>7, <4>1, <4>2, <4>3
      <4> QED BY <2>2, <4>2, <4>4 DEF Closed1
    <3> QED BY <3>1, <3>2
  <2> HIDE DEF Once, U
  <2> QED BY <1>8, <2>1, <2>2
<1> HIDE DEF op
<1> QED BY <1>5, <1>6, <1>9 DEF IsLeast

-----------------------------------------------------------------------------
(* The canonical collection: the least set of item sets with the first one
   and the successors of all. *)
Start1(gr) == Closure1Of(gr, { << gr.top, 0, 0 >> })
Moved(gr, J, x) == { << it[1], it[2] + 1, it[3] >> : it \in { y \in J : Next1(gr, y) = x } }
Goto1Of(gr, J, x) == Closure1Of(gr, Moved(gr, J, x))
Nexts1(gr, J) == { Next1(gr, it) : it \in J } \ {-1, 0}
Successors1(gr, J) == { Goto1Of(gr, J, x) : x \in Nexts1(gr, J) }

CollectionClosed(gr, Q) ==
    Start1(gr) \in Q /\ \A J \in Q : \A x \in Nexts1(gr, J) : Goto1Of(gr, J, x) \in Q

LEMMA MovedFacts ==
    ASSUME NEW gr \in Grammars, NEW J \in SUBSET Items1(gr), NEW x \in Nexts1(gr, J)
    PROVE  Moved(gr, J, x) \in SUBSET Items1(gr)
<1> SUFFICES ASSUME NEW y \in J, Next1(gr, y) = x PROVE << y[1], y[2] + 1, y[3] >> \in Items1(gr)
  BY DEF Moved
<1>1. x # -1 BY DEF Nexts1
<1>2. y[2] < Len(Rhs(gr, y[1])) BY <1>1, Next1Facts
<1>3. y[2] + 1 \in 0 .. Len(Rhs(gr, y[1])) BY <1>2, Next1Facts
<1> QED BY <1>3, Items1Facts

LEMMA StartFacts ==
    ASSUME NEW gr \in Grammars
    PROVE  /\ { << gr.top, 0, 0 >> } \in SUBSET Items1(gr) /\ gr.top = 2 /\ 2 \in DOMAIN gr.rules
           /\ Rhs(gr, 2) = << gr.ntokens + 1, 0 >> /\ gr.rules[2].lhs = gr.ntokens
<1>1. GrammarOK(gr) BY GrammarsAssumption
<1>2. gr.top = 2 /\ 2 \in DOMAIN gr.rules /\ gr.rules[2] = [lhs |-> gr.ntokens, rhs |-> << gr.ntokens + 1, 0 >>]
  BY <1>1 DEF GrammarOK
<1>3. Rhs(gr, 2) = << gr.ntokens + 1, 0 >> /\ gr.rules[2].lhs = gr.ntokens BY <1>2 DEF Rhs
<1>4. gr.ntokens > 1 /\ gr.ntokens \in Nat BY SymbolKinds
<1>5. 0 \in 0 .. Len(Rhs(gr, 2)) /\ 0 \in 0 .. gr.ntokens - 1 BY <1>2, <1>4, SymbolKinds
<1> QED BY <1>2, <1>3, <1>5, Items1Facts

LEMMA CollectionFacts ==
    ASSUME NEW gr \in Grammars
    PROVE  /\ Collection1(gr) \in SUBSET SUBSET Items1(gr)
           /\ CollectionClosed(gr, Collection1(gr))
           /\ \A Q \in SUBSET SUBSET Items1(gr) : CollectionClosed(gr, Q) => Collection1(gr) \subseteq Q
<1> DEFINE U == SUBSET Items1(gr)
           Found == SUBSET U
           More(c) == UNION { Successors1(gr, J) : J \in c[2] }
           After(c) == More(c) \ (c[1] \cup c[2])
           stop == { c \in Found \X Found : c[2] = {} }
           val == [c \in Found \X Found |-> c[1]]
           next == [c \in Found \X Found |-> << c[1] \cup c[2], After(c) >>]
           Is(h) == h = [c \in Found \X Found |->
                           IF c[2] = {} THEN c[1]
                           ELSE h[<< c[1] \cup c[2], After(c) >>]]
<1>1. ASSUME NEW J \in U PROVE Successors1(gr, J) \in SUBSET U
  <2> SUFFICES ASSUME NEW x \in Nexts1(gr, J) PROVE Goto1Of(gr, J, x) \in U BY DEF Successors1
  <2>1. Moved(gr, J, x) \in SUBSET Items1(gr) BY MovedFacts
  <2> QED BY <2>1, Closure1Facts DEF Goto1Of
<1>2. ASSUME NEW c \in Found \X Found PROVE After(c) \in Found
  <2>1. c[2] \in SUBSET U OBVIOUS
  <2> HIDE DEF U
  <2> QED BY <1>1, <2>1
<1>3. next \in [Found \X Found -> Found \X Found]
  <2> HIDE DEF U, After
  <2> QED BY <1>2
<1>4. ASSUME NEW h PROVE Is(h) <=> Loops(h, Found \X Found, stop, val, next)
  <2>1. \A c \in Found \X Found :
           /\ c \in stop <=> c[2] = {}
           /\ val[c] = c[1]
           /\ next[c] = << c[1] \cup c[2], After(c) >>
    <3> HIDE DEF U, After
    <3> QED OBVIOUS
  <2> HIDE DEF stop, val, next, Found, After
  <2>3. [c \in Found \X Found |-> IF c[2] = {} THEN c[1] ELSE h[<< c[1] \cup c[2], After(c) >>]]
        = [c \in Found \X Found |-> IF c \in stop THEN val[c] ELSE h[next[c]]]
    BY <2>1
  <2> QED BY <2>3 DEF Loops
<1>5. PICK f : f = CHOOSE h : Is(h)
  <2> HIDE DEF Is
  <2> QED OBVIOUS
<1>6. Loops(f, Found \X Found, stop, val, next)
  <2> HIDE DEF Is, stop, val, next, Found
  <2>1. \E h : Loops(h, Found \X Found, stop, val, next) BY <1>3, LoopExists
  <2>2. \E h : Is(h) BY <1>4, <2>1
  <2>3. Is(f) BY <1>5, <2>2
  <2> QED BY <1>4, <2>3
<1>7. Collection1(gr) = f[<< {}, { Start1(gr) } >>]
  BY <1>5 DEF Collection1, Start1, Closure1Of, Successors1, Goto1Of, Goto1, Moved, Nexts1, Ns, Ps
<1>8. ASSUME NEW c \in Found \X Found
      PROVE  f[c] = IF c[2] = {} THEN c[1] ELSE f[<< c[1] \cup c[2], After(c) >>]
  <2>1. (c \in stop <=> c[2] = {}) /\ val[c] = c[1] /\ next[c] = << c[1] \cup c[2], After(c) >>
    <3> HIDE DEF U, After
    <3> QED OBVIOUS
  <2> HIDE DEF stop, val, next, Found, After
  <2> QED BY <1>6, <2>1 DEF Loops
<1> DEFINE Good(C) == /\ C \in Found /\ CollectionClosed(gr, C)
                      /\ \A Q \in Found : CollectionClosed(gr, Q) => C \subseteq Q
           Ready(c) == /\ c \in Found \X Found /\ c[1] \cap c[2] = {}
                       /\ Start1(gr) \in c[1] \cup c[2]
                       /\ \A J \in c[1] : Successors1(gr, J) \subseteq c[1] \cup c[2]
                       /\ \A Q \in Found : CollectionClosed(gr, Q) => c[1] \cup c[2] \subseteq Q
           Bad == { c \in Found \X Found : Ready(c) /\ ~Good(f[c]) }
           Left(c) == Cardinality(U \ c[1])
           Counts == { Left(c) : c \in Bad }
<1>9. ASSUME NEW Q PROVE CollectionClosed(gr, Q) <=>
                            Start1(gr) \in Q /\ \A J \in Q : Successors1(gr, J) \subseteq Q
  BY DEF CollectionClosed, Successors1
<1>10. IsFiniteSet(U) BY Items1Finite, FS_SUBSET
<1>11. \A c \in Found \X Found : Left(c) \in Nat /\ IsFiniteSet(U \ c[1])
  <2> HIDE DEF U
  <2>1. \A c \in Found \X Found : IsFiniteSet(U \ c[1]) BY <1>10, FS_Subset
  <2> QED BY <2>1, FS_CardinalityType
<1>12. ASSUME NEW c \in Bad PROVE \E e \in Bad : Left(e) < Left(c)
  <2>1. Ready(c) /\ ~Good(f[c]) /\ c \in Found \X Found OBVIOUS
  <2>2. PICK done, new : done = c[1] /\ new = c[2] OBVIOUS
  <2>3. done \in Found /\ new \in Found BY <2>1, <2>2
  <2>4. new # {}
    <3> SUFFICES ASSUME new = {} PROVE Good(f[c]) BY <2>1
    <3>1. f[c] = done BY <1>8, <2>1, <2>2
    <3>2. Start1(gr) \in done /\ \A J \in done : Successors1(gr, J) \subseteq done BY <2>1, <2>2
    <3>3. CollectionClosed(gr, done) BY <1>9, <3>2
    <3>4. \A Q \in Found : CollectionClosed(gr, Q) => done \subseteq Q BY <2>1, <2>2
    <3> HIDE DEF Found
    <3> QED BY <2>3, <3>1, <3>3, <3>4
  <2>5. PICK e : e = << c[1] \cup c[2], After(c) >> OBVIOUS
  <2>6. e \in Found \X Found
    <3>1. After(c) \in Found /\ done \cup new \in Found BY <1>2, <2>1, <2>3
    <3> HIDE DEF Found, After
    <3> QED BY <2>2, <2>5, <3>1
  <2>7. f[c] = f[e] BY <1>8, <2>1, <2>2, <2>4, <2>5
  <2>8. PICK more : more = More(c) OBVIOUS
  <2>12. e[1] = done \cup new /\ e[2] = more \ (done \cup new)
    <3>1. After(c) = more \ (c[1] \cup c[2])
      <4> HIDE DEF More
      <4> QED BY <2>8
    <3> HIDE DEF After, More
    <3> QED BY <2>2, <2>5, <3>1
  <2>13. \A J \in new : Successors1(gr, J) \subseteq more BY <2>2, <2>8
  <2>14. \A x \in more : \E J \in new : x \in Successors1(gr, J) BY <2>2, <2>8
  <2>9. Ready(e)
    <3>1. e[1] \cap e[2] = {} BY <2>12
    <3>2. Start1(gr) \in e[1] BY <2>1, <2>2, <2>12
    <3>3. ASSUME NEW J \in e[1] PROVE Successors1(gr, J) \subseteq e[1] \cup e[2]
      <4>1. CASE J \in done
        <5>1. Successors1(gr, J) \subseteq done \cup new BY <2>1, <2>2, <4>1
        <5> QED BY <2>12, <5>1
      <4>2. CASE J \in new BY <2>12, <2>13, <4>2
      <4> QED BY <2>12, <3>3, <4>1, <4>2
    <3>4. ASSUME NEW Q \in Found, CollectionClosed(gr, Q) PROVE e[1] \cup e[2] \subseteq Q
      <4>1. done \cup new \subseteq Q BY <2>1, <2>2, <3>4
      <4>2. \A J \in new : Successors1(gr, J) \subseteq Q BY <1>9, <3>4, <4>1
      <4> QED BY <2>12, <2>14, <4>1, <4>2
    <3> HIDE DEF Found
    <3> QED BY <2>6, <3>1, <3>2, <3>3, <3>4
  <2>10. e \in Bad
    <3> HIDE DEF Found, Ready, Good
    <3> QED BY <2>1, <2>6, <2>7, <2>9
  <2>11. Left(e) < Left(c)
    <3>1. PICK later, now : later = U \ e[1] /\ now = U \ c[1] OBVIOUS
    <3>2. PICK J \in new : TRUE BY <2>4
    <3>3. J \in U /\ J \notin done BY <2>1, <2>2, <2>3, <3>2
    <3>4. later \in SUBSET now /\ later # now /\ IsFiniteSet(now)
      <4> HIDE DEF U
      <4> QED BY <1>11, <2>1, <2>2, <2>12, <3>1, <3>2, <3>3
    <3>5. Cardinality(later) <= Cardinality(now) /\ IsFiniteSet(later) BY <3>4, FS_Subset
    <3>6. Cardinality(later) # Cardinality(now) BY <3>4, FS_Subset
    <3>7. Cardinality(later) \in Nat /\ Cardinality(now) \in Nat BY <3>4, <3>5, FS_CardinalityType
    <3>8. Cardinality(later) < Cardinality(now) BY <3>5, <3>6, <3>7
    <3> QED BY <3>1, <3>8
  <2> HIDE DEF Bad, Left
  <2> QED BY <2>10, <2>11
<1>13. Bad = {}
  <2> SUFFICES ASSUME Bad # {} PROVE FALSE OBVIOUS
  <2>1. \A c \in Bad : c \in Found \X Found OBVIOUS
  <2> HIDE DEF Bad, Left, Found
  <2>2. Counts \in SUBSET Nat /\ Counts # {} BY <1>11, <2>1
  <2>3. PICK m \in Counts : \A n \in Counts : m <= n
    <3> HIDE DEF Counts
    <3> QED BY <2>2, LeastExists
  <2>4. PICK c \in Bad : m = Left(c) BY <2>3
  <2>5. PICK e \in Bad : Left(e) < Left(c) BY <1>12, <2>4
  <2>6. Left(e) \in Counts BY <2>5
  <2>7. m <= Left(e) /\ Left(e) \in Nat /\ Left(c) \in Nat BY <1>11, <2>1, <2>3, <2>6
  <2> QED BY <2>4, <2>5, <2>7
<1>14. PICK c : c = << {}, { Start1(gr) } >> OBVIOUS
<1>15. c \in Found \X Found /\ c[1] = {} /\ c[2] = { Start1(gr) }
  <2>1. Start1(gr) \in U BY StartFacts, Closure1Facts DEF Start1
  <2>2. {} \in Found /\ { Start1(gr) } \in Found BY <2>1
  <2> HIDE DEF Found
  <2> QED BY <1>14, <2>2
<1>16. Ready(c)
  <2>1. \A Q \in Found : CollectionClosed(gr, Q) => { Start1(gr) } \subseteq Q BY <1>9
  <2> HIDE DEF Found
  <2> QED BY <1>15, <2>1
<1>17. Good(f[c])
  <2> HIDE DEF Ready, Good, Found
  <2> QED BY <1>13, <1>15, <1>16
<1> QED BY <1>7, <1>14, <1>17

-----------------------------------------------------------------------------
(* One pass of set_nullable(): nothing that is not nullable is added, and a
   pass that adds nothing has seen that every rule is kept. *)
LEMMA PassFacts ==
    ASSUME NEW gr \in Grammars, NEW ns \in SUBSET Vars(gr)
    PROVE  /\ ns \subseteq NullablePass(gr, ns)
           /\ \A C \in SUBSET Vars(gr) : ns \subseteq C /\ NullClosed(gr, C) => NullablePass(gr, ns) \subseteq C
           /\ NullablePass(gr, ns) = ns => NullClosed(gr, ns)
<1> DEFINE n == Cardinality(DOMAIN gr.rules)
           rs == InOrder(DOMAIN gr.rules, <)
           Adds(S, r) == IF \A k \in 1 .. Len(Rhs(gr, r)) : Rhs(gr, r)[k] \in S
                         THEN { gr.rules[r].lhs } ELSE {}
           LS == SUBSET Vars(gr)
           step == [p \in (1 .. n) \X LS |-> p[2] \cup Adds(p[2], rs[p[1]])]
           Is(h) == h = [e \in 0 .. n |-> IF e = 0 THEN ns
                                          ELSE LET r == rs[e] IN
                                               h[e - 1] \cup
                                                  (IF \A k \in 1 .. Len(Rhs(gr, r)) : Rhs(gr, r)[k] \in h[e - 1]
                                                   THEN { gr.rules[r].lhs } ELSE {})]
<1>1. IsFiniteSet(DOMAIN gr.rules) /\ n \in Nat BY ItemsFinite, FS_CardinalityType
<1>2. /\ Len(rs) = n /\ \A e \in 1 .. n : rs[e] \in DOMAIN gr.rules
      /\ \A r \in DOMAIN gr.rules : \E e \in 1 .. n : rs[e] = r
  <2>1. \A r \in DOMAIN gr.rules : r \in Int BY RuleFacts
  <2>2. Increasing(rs, DOMAIN gr.rules) BY <1>1, <2>1, NumbersInOrder
  <2>3. Len(rs) = n BY <1>1 DEF InOrder
  <2> HIDE DEF rs, n
  <2> QED BY <2>2, <2>3 DEF Increasing
<1> HIDE DEF rs
<1>3. ASSUME NEW h PROVE Is(h) <=> h = [e \in 0 .. n |-> IF e = 0 THEN ns
                                                         ELSE h[e - 1] \cup Adds(h[e - 1], rs[e])]
  OBVIOUS
<1>4. \A r \in DOMAIN gr.rules : gr.rules[r].lhs \in Vars(gr) BY SymbolKinds
<1>5. step \in [(1 .. n) \X LS -> LS]
  <2> SUFFICES ASSUME NEW p \in (1 .. n) \X LS PROVE p[2] \cup Adds(p[2], rs[p[1]]) \in LS OBVIOUS
  <2>1. PICK e, S : e = p[1] /\ S = p[2] OBVIOUS
  <2>2. e \in 1 .. n /\ S \in LS BY <2>1
  <2>3. rs[e] \in DOMAIN gr.rules BY <1>2, <2>2
  <2>4. Adds(S, rs[e]) \in LS BY <1>4, <2>3
  <2> HIDE DEF Adds
  <2> QED BY <2>1, <2>2, <2>4
<1>6. \E f : Is(f)
  <2>1. PICK f \in [0 .. n -> LS] : Computes(f, ns, n, step)
    <3>1. ns \in LS OBVIOUS
    <3> HIDE DEF step, LS, n
    <3> QED BY <1>1, <1>5, <3>1, RecursionExists
  <2>2. \A e \in 0 .. n : e # 0 => e \in 1 .. n /\ e - 1 \in 0 .. n BY <1>1
  <2>3. ASSUME NEW e \in 0 .. n, e # 0 PROVE f[e] = f[e - 1] \cup Adds(f[e - 1], rs[e])
    <3>1. f[e - 1] \in LS /\ e \in 1 .. n BY <2>2, <2>3
    <3>2. PICK S : S = f[e - 1] OBVIOUS
    <3>3. f[e] = step[<< e, S >>] BY <2>1, <3>1, <3>2 DEF Computes
    <3> HIDE DEF Adds, LS
    <3>4. << e, S >> \in (1 .. n) \X LS /\ << e, S >>[1] = e /\ << e, S >>[2] = S BY <3>1, <3>2
    <3>5. step[<< e, S >>] = S \cup Adds(S, rs[e]) BY <3>4
    <3> QED BY <3>2, <3>3, <3>5
  <2>4. f[0] = ns BY <2>1 DEF Computes
  <2>5. f = [e \in 0 .. n |-> f[e]] BY <2>1
  <2> HIDE DEF Is, step, Adds, n
  <2>6. f = [e \in 0 .. n |-> IF e = 0 THEN ns ELSE f[e - 1] \cup Adds(f[e - 1], rs[e])]
    BY <2>3, <2>4, <2>5
  <2> QED BY <1>3, <2>6
<1>7. PICK f : f = CHOOSE h : Is(h)
  <2> HIDE DEF Is
  <2> QED OBVIOUS
<1>8. NullablePass(gr, ns) = f[n] BY <1>7 DEF NullablePass, rs
<1>9. f = [e \in 0 .. n |-> IF e = 0 THEN ns ELSE f[e - 1] \cup Adds(f[e - 1], rs[e])]
  <2> HIDE DEF Is, Adds, n
  <2> QED BY <1>3, <1>6, <1>7
<1> HIDE DEF Is
<1>10. f[0] = ns /\ \A e \in 1 .. n : f[e] = f[e - 1] \cup Adds(f[e - 1], rs[e])
  <2>1. 0 \in 0 .. n /\ \A e \in 1 .. n : e \in 0 .. n /\ e # 0 BY <1>1
  <2> HIDE DEF Adds, n
  <2> QED BY <1>9, <2>1
(* By the least place where it would be otherwise. *)
<1>11. ASSUME NEW C \in SUBSET Vars(gr), ns \subseteq C, NullClosed(gr, C), NEW e \in 0 .. n PROVE f[e] \subseteq C
  <2> DEFINE Bad == { k \in 0 .. n : ~(f[k] \subseteq C) }
  <2> SUFFICES ASSUME Bad # {} PROVE FALSE OBVIOUS
  <2>1. Bad \in SUBSET Nat BY <1>1
  <2> HIDE DEF Bad
  <2>2. PICK k \in Bad : \A l \in Bad : k <= l BY <2>1, LeastExists
  <2>3. k \in 0 .. n /\ ~(f[k] \subseteq C) BY <2>2 DEF Bad
  <2>4. k # 0 BY <1>10, <1>11, <2>3
  <2>5. k \in 1 .. n /\ k - 1 \in 0 .. n /\ ~(k <= k - 1) BY <1>1, <2>3, <2>4
  <2>6. f[k - 1] \subseteq C BY <2>2, <2>5 DEF Bad
  <2>7. rs[k] \in DOMAIN gr.rules BY <1>2, <2>5
  <2>8. Adds(f[k - 1], rs[k]) \subseteq C BY <1>11, <2>6, <2>7 DEF NullClosed
  <2>9. f[k] = f[k - 1] \cup Adds(f[k - 1], rs[k]) BY <1>10, <2>5
  <2> HIDE DEF Adds
  <2> QED BY <2>3, <2>6, <2>8, <2>9
<1>12. ASSUME NEW l \in 0 .. n, NEW e \in 0 .. l PROVE f[e] \subseteq f[l]
  <2> DEFINE Bad == { k \in e .. n : ~(f[e] \subseteq f[k]) }
  <2>0. l \in e .. n /\ e \in 0 .. n BY <1>1, <1>12
  <2> SUFFICES ASSUME Bad # {} PROVE FALSE BY <2>0
  <2>1. Bad \in SUBSET Nat BY <1>1, <2>0
  <2> HIDE DEF Bad
  <2>2. PICK k \in Bad : \A m \in Bad : k <= m BY <2>1, LeastExists
  <2>3. k \in e .. n /\ ~(f[e] \subseteq f[k]) BY <2>2 DEF Bad
  <2>4. k # e BY <2>3
  <2>5. k \in 1 .. n /\ k - 1 \in e .. n /\ ~(k <= k - 1) BY <1>1, <2>0, <2>3, <2>4
  <2>6. f[e] \subseteq f[k - 1] BY <2>2, <2>5 DEF Bad
  <2>9. f[k] = f[k - 1] \cup Adds(f[k - 1], rs[k]) BY <1>10, <2>5
  <2> HIDE DEF Adds
  <2> QED BY <2>3, <2>6, <2>9
<1>13. n \in 0 .. n /\ 0 \in 0 .. n BY <1>1
<1>14. ASSUME f[n] = ns, NEW r \in DOMAIN gr.rules, \A k \in 1 .. Len(Rhs(gr, r)) : Rhs(gr, r)[k] \in ns
       PROVE  gr.rules[r].lhs \in ns
  <2>1. PICK e \in 1 .. n : rs[e] = r BY <1>2
  <2>2. e \in 0 .. n /\ e - 1 \in 0 .. n /\ e \in 0 .. n /\ 0 \in 0 .. e - 1 BY <1>1
  <2>3. f[e - 1] \subseteq f[n] /\ f[e] \subseteq f[n] /\ f[0] \subseteq f[e - 1]
    BY <1>12, <1>13, <2>2
  <2>4. f[e - 1] = ns
    <3>1. f[0] = ns BY <1>10
    <3> QED BY <1>14, <2>3, <3>1
  <2>5. gr.rules[r].lhs \in f[e] BY <1>10, <1>14, <2>1, <2>4
  <2> QED BY <1>14, <2>3, <2>5
<1>15. PICK last : last = f[n] OBVIOUS
<1>16. ns \subseteq last
  <2>1. f[0] = ns BY <1>10
  <2> QED BY <1>12, <1>13, <1>15, <2>1
<1>17. \A C \in SUBSET Vars(gr) : ns \subseteq C /\ NullClosed(gr, C) => last \subseteq C BY <1>11, <1>13, <1>15
<1>18. last = ns => NullClosed(gr, ns) BY <1>14, <1>15 DEF NullClosed
<1>19. NullablePass(gr, ns) = last BY <1>8, <1>15
<1> HIDE DEF n, Adds, LS, step
<1> QED BY <1>16, <1>17, <1>18, <1>19

LEMMA SetNullableIs ==
    ASSUME NEW gr \in Grammars
    PROVE  SetNullable(gr) = NullableVars(gr)
<1> DEFINE U == SUBSET Vars(gr)
           stop == { S \in U : NullablePass(gr, S) = S }
           val == [S \in U |-> S]
           next == [S \in U |-> NullablePass(gr, S)]
           Is(h) == h = [S \in U |-> IF NullablePass(gr, S) = S THEN S ELSE h[NullablePass(gr, S)]]
           N == NullableVars(gr)
<1>0. N \in U /\ NullClosed(gr, N) /\ \A C \in U : NullClosed(gr, C) => N \subseteq C BY NullableFacts
<1>1. \A S \in U : NullablePass(gr, S) \in U
  <2>1. NullClosed(gr, Vars(gr)) BY SymbolKinds DEF NullClosed
  <2> QED BY <2>1, PassFacts
<1>2. next \in [U -> U] BY <1>1
<1>3. ASSUME NEW h PROVE Is(h) <=> Loops(h, U, stop, val, next)
  <2>1. \A S \in U : (S \in stop <=> NullablePass(gr, S) = S) /\ val[S] = S /\ next[S] = NullablePass(gr, S)
    <3> HIDE DEF U
    <3> QED OBVIOUS
  <2> HIDE DEF stop, val, next, U
  <2>2. [S \in U |-> IF NullablePass(gr, S) = S THEN S ELSE h[NullablePass(gr, S)]]
        = [S \in U |-> IF S \in stop THEN val[S] ELSE h[next[S]]]
    BY <2>1
  <2> QED BY <2>2 DEF Loops
<1>4. PICK f : f = CHOOSE h : Is(h)
  <2> HIDE DEF Is
  <2> QED OBVIOUS
<1>5. Is(f)
  <2> HIDE DEF Is, stop, val, next, U
  <2>1. \E h : Loops(h, U, stop, val, next) BY <1>2, LoopExists
  <2> QED BY <1>3, <1>4, <2>1
<1>6. SetNullable(gr) = f[{}] BY <1>4 DEF SetNullable
<1>7. \A S \in U : f[S] = IF NullablePass(gr, S) = S THEN S ELSE f[NullablePass(gr, S)]
  <2> HIDE DEF U
  <2> QED BY <1>5
<1> HIDE DEF Is
<1> DEFINE Left(S) == Cardinality(Vars(gr) \ S)
           Bad == { S \in U : S \subseteq N /\ f[S] # N }
           Counts == { Left(S) : S \in Bad }
<1>8. \A S \in U : Left(S) \in Nat /\ IsFiniteSet(Vars(gr) \ S)
  <2>1. \A S \in U : IsFiniteSet(Vars(gr) \ S) BY SymbolKinds, FS_Subset
  <2> QED BY <2>1, FS_CardinalityType
<1>9. ASSUME NEW S \in Bad PROVE \E V \in Bad : Left(V) < Left(S)
  <2>1. S \in U /\ S \subseteq N /\ f[S] # N OBVIOUS
  <2>2. PICK V : V = NullablePass(gr, S) OBVIOUS
  <2>3. S \subseteq V /\ V \subseteq N /\ (V = S => NullClosed(gr, S)) BY <1>0, <2>1, <2>2, PassFacts
  <2>4. V # S
    <3> SUFFICES ASSUME V = S PROVE FALSE OBVIOUS
    <3>1. N \subseteq S BY <1>0, <2>1, <2>3
    <3>2. f[S] = S BY <1>7, <2>1, <2>2
    <3> QED BY <2>1, <3>1, <3>2
  <2>5. f[S] = f[V] /\ V \in U BY <1>1, <1>7, <2>1, <2>2, <2>4
  <2>6. V \in Bad BY <2>1, <2>3, <2>5
  <2>7. PICK later, now : later = Vars(gr) \ V /\ now = Vars(gr) \ S OBVIOUS
  <2>8. later \in SUBSET now /\ later # now /\ IsFiniteSet(now)
    <3>1. PICK x \in V : x \notin S BY <2>3, <2>4
    <3>2. x \in Vars(gr) BY <2>5
    <3>3. x \in now /\ x \notin later BY <2>7, <3>1, <3>2
    <3> QED BY <1>8, <2>1, <2>3, <2>7, <3>3
  <2>9. Cardinality(later) <= Cardinality(now) /\ IsFiniteSet(later) /\ Cardinality(later) # Cardinality(now)
    BY <2>8, FS_Subset
  <2>10. Cardinality(later) \in Nat /\ Cardinality(now) \in Nat BY <2>8, <2>9, FS_CardinalityType
  <2>11. Left(V) < Left(S) BY <2>7, <2>9, <2>10
  <2> HIDE DEF Bad, Left
  <2> QED BY <2>6, <2>11
<1>10. Bad = {}
  <2> SUFFICES ASSUME Bad # {} PROVE FALSE OBVIOUS
  <2>1. \A c \in Bad : c \in U OBVIOUS
  <2> HIDE DEF Bad, Left, U
  <2>2. Counts \in SUBSET Nat /\ Counts # {} BY <1>8, <2>1
  <2>3. PICK m \in Counts : \A n \in Counts : m <= n
    <3> HIDE DEF Counts
    <3> QED BY <2>2, LeastExists
  <2>4. PICK c \in Bad : m = Left(c) BY <2>3
  <2>5. PICK e \in Bad : Left(e) < Left(c) BY <1>9, <2>4
  <2>6. Left(e) \in Counts BY <2>5
  <2>7. m <= Left(e) /\ Left(e) \in Nat /\ Left(c) \in Nat BY <1>8, <2>1, <2>3, <2>6
  <2> QED BY <2>4, <2>5, <2>7
<1>11. f[{}] = N BY <1>10
<1> QED BY <1>6, <1>11

-----------------------------------------------------------------------------
(***************************************************************************)
(* Warshall's loop computes the closure: what it leads to is closed under  *)
(* the relation, and within every closed set.                              *)
(***************************************************************************)
Through1(W, V, z) == \A y \in V : z \in W[y] => W[z] \subseteq W[y]

LEMMA ThroughCloses ==
    ASSUME NEW V, NEW W \in [V -> SUBSET V], NEW x \in V
    PROVE  /\ Through1(Through(W, x, V), V, x)
           /\ \A z \in V : Through1(W, V, z) => Through1(Through(W, x, V), V, z)
           /\ \A y \in V : W[y] \subseteq Through(W, x, V)[y]
           /\ \A Z \in SUBSET V : (\A z \in Z : W[z] \subseteq Z) => \A z \in Z : Through(W, x, V)[z] \subseteq Z
<1> DEFINE U == Through(W, x, V)
<1>1. \A y \in V : U[y] = IF x \in W[y] THEN W[y] \cup W[x] ELSE W[y] BY DEF Through
<1> HIDE DEF U
<1>2. \A y \in V : W[y] \subseteq U[y] BY <1>1
<1>3. ASSUME NEW y \in V, x \in U[y] PROVE U[x] \subseteq U[y] BY <1>1, <1>3
<1>4. ASSUME NEW z \in V, Through1(W, V, z), NEW y \in V, z \in U[y] PROVE U[z] \subseteq U[y]
  <2>1. CASE z \in W[y]
    <3>1. W[z] \subseteq W[y] BY <1>4, <2>1 DEF Through1
    <3> QED BY <1>1, <1>4, <3>1
  <2>2. CASE z \notin W[y]
    <3>1. x \in W[y] /\ z \in W[x] BY <1>1, <1>4, <2>2
    <3>2. W[z] \subseteq W[x] BY <1>4, <3>1 DEF Through1
    <3> QED BY <1>1, <1>4, <3>1, <3>2
  <2> QED BY <2>1, <2>2
<1>5. ASSUME NEW Z \in SUBSET V, \A z \in Z : W[z] \subseteq Z, NEW z \in Z PROVE U[z] \subseteq Z
  BY <1>1, <1>5
<1> QED BY <1>2, <1>3, <1>4, <1>5 DEF Through1, U

LEMMA ClosureCloses ==
    ASSUME NEW V, IsFiniteSet(V), \A x \in V : x \in Int, NEW M \in [V -> SUBSET V]
    PROVE  /\ \A z \in V : Through1(TransitiveClosure(M, V), V, z)
           /\ \A y \in V : M[y] \subseteq TransitiveClosure(M, V)[y]
           /\ \A Z \in SUBSET V : (\A z \in Z : M[z] \subseteq Z) =>
                 \A z \in Z : TransitiveClosure(M, V)[z] \subseteq Z
<1>1. PICK upto, xs, n : Warshall(upto, M, V, xs, n) /\ TransitiveClosure(M, V) = upto[n] BY WarshallTurns
<1>2. n \in Nat /\ (\A k \in 1 .. n : xs[k] \in V) /\ \A x \in V : \E k \in 1 .. n : xs[k] = x
  BY <1>1 DEF Warshall
<1>3. upto[0] = M /\ \A k \in 1 .. n : upto[k] = Through(upto[k - 1], xs[k], V) BY <1>1 DEF Warshall
<1> DEFINE Keeps(k) == \A Z \in SUBSET V : (\A z \in Z : M[z] \subseteq Z) => \A z \in Z : upto[k][z] \subseteq Z
           Good(k) == /\ upto[k] \in [V -> SUBSET V]
                      /\ \A l \in 1 .. k : Through1(upto[k], V, xs[l])
                      /\ \A y \in V : M[y] \subseteq upto[k][y]
                      /\ Keeps(k)
           Bad == { k \in 0 .. n : ~Good(k) }
<1>4. Good(0) BY <1>3
<1>5. ASSUME NEW k \in 1 .. n, Good(k - 1) PROVE Good(k)
  <2>1. PICK W : W = upto[k - 1] OBVIOUS
  <2>2. PICK U : U = upto[k] OBVIOUS
  <2>3. W \in [V -> SUBSET V] /\ xs[k] \in V /\ U = Through(W, xs[k], V) BY <1>2, <1>3, <1>5, <2>1, <2>2
  <2>4. U \in [V -> SUBSET V] BY <2>3 DEF Through
  <2>5. ASSUME NEW l \in 1 .. k PROVE Through1(U, V, xs[l])
    <3>1. CASE l = k BY <2>3, <3>1, ThroughCloses
    <3>2. CASE l # k
      <4>1. l \in 1 .. k - 1 /\ l \in 1 .. n BY <1>2, <3>2
      <4>2. Through1(W, V, xs[l]) /\ xs[l] \in V BY <1>2, <1>5, <2>1, <4>1
      <4> QED BY <2>3, <4>2, ThroughCloses
    <3> QED BY <3>1, <3>2
  <2>6. \A y \in V : M[y] \subseteq U[y]
    <3>1. \A y \in V : W[y] \subseteq U[y] BY <2>3, ThroughCloses
    <3> QED BY <1>5, <2>1, <3>1
  <2>7. ASSUME NEW Z \in SUBSET V, \A z \in Z : M[z] \subseteq Z PROVE \A z \in Z : U[z] \subseteq Z
    <3>1. \A z \in Z : W[z] \subseteq Z BY <1>5, <2>1, <2>7
    <3> QED BY <2>3, <3>1, ThroughCloses
  <2> QED BY <2>2, <2>4, <2>5, <2>6, <2>7
<1> HIDE DEF Good
<1>6. Bad = {}
  <2> SUFFICES ASSUME Bad # {} PROVE FALSE OBVIOUS
  <2>1. Bad \in SUBSET Nat BY <1>2
  <2> HIDE DEF Bad
  <2>2. PICK k \in Bad : \A l \in Bad : k <= l BY <2>1, LeastExists
  <2>3. k \in 0 .. n /\ ~Good(k) BY <2>2 DEF Bad
  <2>4. k # 0 BY <1>4, <2>3
  <2>5. k \in 1 .. n /\ k - 1 \in 0 .. n /\ ~(k <= k - 1) BY <1>2, <2>3, <2>4
  <2>6. Good(k - 1) BY <2>2, <2>5 DEF Bad
  <2> QED BY <1>5, <2>3, <2>5, <2>6
<1>7. n \in 0 .. n BY <1>2
<1>8. Good(n) BY <1>6, <1>7
<1>9. PICK T1 : T1 = upto[n] OBVIOUS
<1>10. \A z \in V : Through1(T1, V, z)
  <2> SUFFICES ASSUME NEW z \in V PROVE Through1(T1, V, z) OBVIOUS
  <2>1. PICK k \in 1 .. n : xs[k] = z BY <1>2
  <2> QED BY <1>8, <1>9, <2>1 DEF Good
<1>11. \A y \in V : M[y] \subseteq T1[y] BY <1>8, <1>9 DEF Good
<1>12. \A Z \in SUBSET V : (\A z \in Z : M[z] \subseteq Z) => \A z \in Z : T1[z] \subseteq Z
  BY <1>8, <1>9 DEF Good
<1> QED BY <1>1, <1>9, <1>10, <1>11, <1>12

(* What set_first_derives() leaves. *)
LeadsOn(gr, Z) ==
    \A r \in DOMAIN gr.rules : gr.rules[r].lhs \in Z /\ Len(Rhs(gr, r)) > 0 /\ Rhs(gr, r)[1] \in Vars(gr) =>
        Rhs(gr, r)[1] \in Z

LEMMA FirstDerivesFacts ==
    ASSUME NEW gr \in Grammars, NEW A \in Vars(gr)
    PROVE  /\ RulesOf(gr, A) \subseteq FirstDerives(gr)[A]
           /\ FirstDerives(gr)[A] \subseteq DOMAIN gr.rules
           /\ \A r \in FirstDerives(gr)[A] : Len(Rhs(gr, r)) > 0 /\ Rhs(gr, r)[1] \in Vars(gr) =>
                 RulesOf(gr, Rhs(gr, r)[1]) \subseteq FirstDerives(gr)[A]
           /\ \A Z \in SUBSET Vars(gr) : A \in Z /\ LeadsOn(gr, Z) =>
                 \A r \in FirstDerives(gr)[A] : gr.rules[r].lhs \in Z
<1> DEFINE V == Vars(gr)
           M == EFF(gr)
           W == TransitiveClosure(M, V)
           FD == FirstDerives(gr)[A]
<1>1. IsFiniteSet(V) /\ \A x \in V : x \in Int BY SymbolKinds DEF Vars
<1>2. M \in [V -> SUBSET V] BY DEF EFF
<1>3. /\ W \in [V -> SUBSET V] /\ \A z \in V : Through1(W, V, z)
      /\ \A y \in V : M[y] \subseteq W[y]
      /\ \A Z \in SUBSET V : (\A z \in Z : M[z] \subseteq Z) => \A z \in Z : W[z] \subseteq Z
  <2> HIDE DEF V, M
  <2> QED BY <1>1, <1>2, ClosureCloses, ClosureLedTo
<1>4. FD = UNION { RulesOf(gr, B) : B \in W[A] \cup {A} } BY DEF FirstDerives, ReflexiveTransitiveClosure
<1> HIDE DEF W, FD
<1>5. ASSUME NEW c \in V, NEW x \in V PROVE x \in M[c] <=> \E r \in RulesOf(gr, c) : Len(Rhs(gr, r)) > 0 /\ Rhs(gr, r)[1] = x
  <2>1. \A r \in RulesOf(gr, c) : Rhs(gr, r) \in Seq(Symbol(gr)) BY SymbolKinds DEF RulesOf
  <2>2. \A r \in RulesOf(gr, c) : Rhs(gr, r) # << >> <=> Len(Rhs(gr, r)) > 0 BY <2>1
  <2>3. \A r \in RulesOf(gr, c) : Rhs(gr, r) # << >> => Head(Rhs(gr, r)) = Rhs(gr, r)[1] BY <2>1
  <2>4. x \in M[c] <=> \E r \in RulesOf(gr, c) : Rhs(gr, r) # << >> /\ Head(Rhs(gr, r)) = x BY DEF EFF
  <2> QED BY <2>2, <2>3, <2>4
<1>6. RulesOf(gr, A) \subseteq FD BY <1>4
<1>7. FD \subseteq DOMAIN gr.rules BY <1>4 DEF RulesOf
<1>8. \A r \in FD : r \in DOMAIN gr.rules /\ gr.rules[r].lhs \in W[A] \cup {A} BY <1>4 DEF RulesOf
<1>9. ASSUME NEW r \in FD, Len(Rhs(gr, r)) > 0, Rhs(gr, r)[1] \in V PROVE RulesOf(gr, Rhs(gr, r)[1]) \subseteq FD
  <2>1. PICK c : c = gr.rules[r].lhs OBVIOUS
  <2>2. PICK x : x = Rhs(gr, r)[1] OBVIOUS
  <2>3. r \in DOMAIN gr.rules /\ c \in W[A] \cup {A} BY <1>8, <2>1
  <2>4. c \in V /\ r \in RulesOf(gr, c) /\ x \in V BY <1>9, <2>1, <2>2, <2>3, SymbolKinds
  <2>5. x \in M[c] BY <1>5, <1>9, <2>2, <2>4
  <2>6. x \in W[c] BY <1>3, <2>4, <2>5
  <2>7. x \in W[A]
    <3>1. CASE c = A BY <2>6, <3>1
    <3>2. CASE c # A
      <4>1. c \in W[A] BY <2>3, <3>2
      <4>2. A \in V OBVIOUS
      <4>3. W[c] \subseteq W[A]
        <5> HIDE DEF V
        <5> QED BY <1>3, <2>4, <4>1, <4>2 DEF Through1
      <4> QED BY <2>6, <4>3
    <3> QED BY <3>1, <3>2
  <2> QED BY <1>4, <2>2, <2>7
<1>10. ASSUME NEW Z \in SUBSET V, A \in Z, LeadsOn(gr, Z), NEW r \in FD PROVE gr.rules[r].lhs \in Z
  <2>1. \A z \in Z : M[z] \subseteq Z
    <3> SUFFICES ASSUME NEW z \in Z, NEW x \in M[z] PROVE x \in Z OBVIOUS
    <3>1. z \in V /\ x \in V BY <1>2
    <3>2. PICK s \in RulesOf(gr, z) : Len(Rhs(gr, s)) > 0 /\ Rhs(gr, s)[1] = x BY <1>5, <3>1
    <3>3. s \in DOMAIN gr.rules /\ gr.rules[s].lhs = z BY <3>2 DEF RulesOf
    <3> QED BY <1>10, <3>1, <3>2, <3>3 DEF LeadsOn
  <2>2. W[A] \subseteq Z
    <3> HIDE DEF V, M
    <3> QED BY <1>3, <1>10, <2>1
  <2> QED BY <1>8, <1>10, <2>2
<1> QED BY <1>6, <1>7, <1>9, <1>10 DEF FD

-----------------------------------------------------------------------------
(* The closure of a set of LR(0) items: closure() computes it. *)
Closed0(gr, S) ==
    \A it \in S : it[2] < Len(Rhs(gr, it[1])) => \A r \in RulesOf(gr, SymbolAfter(gr, it)) : << r, 0 >> \in S

IsClosure0(gr, K, c) ==
    /\ c \in SUBSET ItemsOf(gr) /\ K \subseteq c /\ Closed0(gr, c)
    /\ \A C \in SUBSET ItemsOf(gr) : K \subseteq C /\ Closed0(gr, C) => c \subseteq C

LEMMA SameClosure ==
    ASSUME NEW gr, NEW K, NEW c, NEW e, IsClosure0(gr, K, c), IsClosure0(gr, K, e)
    PROVE  c = e
BY DEF IsClosure0

LEMMA ClosureIs ==
    ASSUME g \in Grammars, firstDerives = FirstDerives(g), NEW K \in SUBSET ItemsOf(g)
    PROVE  IsClosure0(g, K, closure(K))
<1> DEFINE Added(it, r) == it[2] < Len(Rhs(g, it[1])) /\ SymbolAfter(g, it) \in Vars(g) /\ r \in FirstDerives(g)[SymbolAfter(g, it)]
<1>1. \A it \in ItemsOf(g) : /\ it = << it[1], it[2] >> /\ it[1] \in DOMAIN g.rules /\ it[2] \in 0 .. Len(Rhs(g, it[1]))
                             /\ NextSymbol(it) >= start_symbol <=>
                                   it[2] < Len(Rhs(g, it[1])) /\ SymbolAfter(g, it) \in Vars(g)
                             /\ it[2] < Len(Rhs(g, it[1])) => NextSymbol(it) = SymbolAfter(g, it)
  <2> SUFFICES ASSUME NEW it \in ItemsOf(g)
               PROVE  /\ it = << it[1], it[2] >> /\ it[1] \in DOMAIN g.rules /\ it[2] \in 0 .. Len(Rhs(g, it[1]))
                      /\ NextSymbol(it) >= start_symbol <=>
                            it[2] < Len(Rhs(g, it[1])) /\ SymbolAfter(g, it) \in Vars(g)
                      /\ it[2] < Len(Rhs(g, it[1])) => NextSymbol(it) = SymbolAfter(g, it)
    OBVIOUS
  <2>1. it = << it[1], it[2] >> /\ it[1] \in DOMAIN g.rules /\ it[2] \in 0 .. Len(Rhs(g, it[1])) BY ItemFacts
  <2>2. g.ntokens \in Nat /\ g.nsyms \in Nat /\ it[1] \in Nat /\ it[1] > 1 BY <2>1, RuleFacts
  <2>3. it[2] < Len(Rhs(g, it[1])) => NextSymbol(it) = SymbolAfter(g, it) BY DEF NextSymbol, SymbolAfter
  <2>4. ~(it[2] < Len(Rhs(g, it[1]))) => NextSymbol(it) = -it[1] BY DEF NextSymbol
  <2>5. NextSymbol(it) \in Int /\ NextSymbol(it) < g.nsyms BY ItemFacts
  <2>6. NextSymbol(it) >= start_symbol <=> it[2] < Len(Rhs(g, it[1])) /\ SymbolAfter(g, it) \in Vars(g)
    BY <2>2, <2>3, <2>4, <2>5 DEF start_symbol, Vars
  <2> QED BY <2>1, <2>3, <2>6
<1>2. \A x : x \in closure(K) <=> x \in K \/ \E it \in K : \E r : Added(it, r) /\ x = << r, 0 >>
  <2>1. \A x : x \in closure(K) <=>
          x \in K \/ \E it \in K : NextSymbol(it) >= start_symbol /\ \E r \in firstDerives[NextSymbol(it)] : x = << r, 0 >>
    BY DEF closure
  <2>2. \A it \in K : NextSymbol(it) >= start_symbol <=>
                            it[2] < Len(Rhs(g, it[1])) /\ SymbolAfter(g, it) \in Vars(g)
    BY <1>1
  <2>3. \A it \in K : NextSymbol(it) >= start_symbol => NextSymbol(it) = SymbolAfter(g, it) BY <1>1, <2>2
  <2> QED BY <2>1, <2>2, <2>3
<1> HIDE DEF Added
<1>3. \A it \in K : \A r : Added(it, r) => << r, 0 >> \in ItemsOf(g) /\ r \in DOMAIN g.rules
  <2> SUFFICES ASSUME NEW it \in K, NEW r, Added(it, r) PROVE << r, 0 >> \in ItemsOf(g) /\ r \in DOMAIN g.rules OBVIOUS
  <2>1. r \in DOMAIN g.rules BY FirstDerivesFacts DEF Added
  <2>2. 0 \in 0 .. Len(Rhs(g, r)) BY <2>1, RuleFacts
  <2> QED BY <2>1, <2>2 DEF ItemsOf
<1>4. closure(K) \in SUBSET ItemsOf(g) BY <1>2, <1>3
<1>5. K \subseteq closure(K) BY <1>2
<1>6. Closed0(g, closure(K))
  <2> SUFFICES ASSUME NEW x \in closure(K), x[2] < Len(Rhs(g, x[1])), NEW s \in RulesOf(g, SymbolAfter(g, x))
               PROVE  << s, 0 >> \in closure(K)
    BY DEF Closed0
  <2>1. s \in DOMAIN g.rules /\ g.rules[s].lhs = SymbolAfter(g, x) BY DEF RulesOf
  <2>2. SymbolAfter(g, x) \in Vars(g) BY <2>1, SymbolKinds
  <2>3. CASE x \in K
    <3>1. s \in FirstDerives(g)[SymbolAfter(g, x)] BY <2>2, FirstDerivesFacts
    <3>2. Added(x, s) BY <2>2, <3>1 DEF Added
    <3> QED BY <1>2, <2>3, <3>2
  <2>4. CASE x \notin K
    <3>1. PICK it \in K : \E r : Added(it, r) /\ x = << r, 0 >> BY <1>2, <2>4
    <3>2. PICK r : Added(it, r) /\ x = << r, 0 >> BY <3>1
    <3>3. PICK A : A = SymbolAfter(g, it) OBVIOUS
    <3>4. A \in Vars(g) /\ r \in FirstDerives(g)[A] BY <3>2, <3>3 DEF Added
    <3>5. x[1] = r /\ x[2] = 0 BY <3>2
    <3>6. Len(Rhs(g, r)) > 0 /\ SymbolAfter(g, x) = Rhs(g, r)[1] BY <3>5 DEF SymbolAfter
    <3>7. s \in FirstDerives(g)[A] BY <2>2, <3>4, <3>6, FirstDerivesFacts
    <3>8. Added(it, s) BY <3>2, <3>3, <3>7 DEF Added
    <3> QED BY <1>2, <3>8
  <2> QED BY <2>3, <2>4
<1>7. ASSUME NEW C \in SUBSET ItemsOf(g), K \subseteq C, Closed0(g, C) PROVE closure(K) \subseteq C
  <2> SUFFICES ASSUME NEW it \in K, NEW r, Added(it, r) PROVE << r, 0 >> \in C BY <1>2, <1>7
  <2> DEFINE Z == { B \in Vars(g) : \A s \in RulesOf(g, B) : << s, 0 >> \in C }
  <2>1. PICK A : A = SymbolAfter(g, it) OBVIOUS
  <2>2. A \in Vars(g) /\ r \in FirstDerives(g)[A] BY <2>1 DEF Added
  <2>3. A \in Z BY <1>7, <2>1, <2>2 DEF Added, Closed0
  <2>4. LeadsOn(g, Z)
    <3> SUFFICES ASSUME NEW s \in DOMAIN g.rules, g.rules[s].lhs \in Z, Len(Rhs(g, s)) > 0, Rhs(g, s)[1] \in Vars(g)
                 PROVE  Rhs(g, s)[1] \in Z
      BY DEF LeadsOn
    <3>1. << s, 0 >> \in C BY DEF RulesOf
    <3>2. << s, 0 >>[2] < Len(Rhs(g, << s, 0 >>[1])) /\ SymbolAfter(g, << s, 0 >>) = Rhs(g, s)[1] BY DEF SymbolAfter
    <3>3. \A q \in RulesOf(g, Rhs(g, s)[1]) : << q, 0 >> \in C BY <1>7, <3>1, <3>2 DEF Closed0
    <3> QED BY <3>3
  <2>5. Z \in SUBSET Vars(g) OBVIOUS
  <2> HIDE DEF Z
  <2>6. r \in DOMAIN g.rules /\ g.rules[r].lhs \in Z BY <2>2, <2>3, <2>4, <2>5, FirstDerivesFacts
  <2> QED BY <2>6 DEF Z, RulesOf
<1> QED BY <1>4, <1>5, <1>6, <1>7 DEF IsClosure0

-----------------------------------------------------------------------------
(***************************************************************************)
(* More of lr0(): its tables are the sets they are named for, no two       *)
(* states have the same kernel, and each state has been reached from an    *)
(* earlier one.                                                            *)
(***************************************************************************)
TablesOK == nullable = Ns(g) /\ firstDerives = FirstDerives(g)
KernelsDiffer == \A m, n \in DOMAIN states : states[m].items = states[n].items => m = n
Reached(n) == \E m \in DOMAIN shift : m < n /\ Leads(m, n)
AllReached == \A n \in DOMAIN states \ {0} : Reached(n)
StatesMore == TablesOK /\ KernelsDiffer /\ AllReached
StatesInv == phase \notin {"lr0", "fatal"} => StatesMore

(* A transition stays. *)
LEMMA ReachedStays ==
    ASSUME NEW n, Reached(n), DOMAIN shift \subseteq DOMAIN shift',
           \A m \in DOMAIN shift : \A k \in 1 .. Len(shift[m]) : k \in 1 .. Len(shift'[m]) /\ shift'[m][k] = shift[m][k]
    PROVE  Reached(n)'
<1>1. PICK m \in DOMAIN shift : m < n /\ Leads(m, n) BY DEF Reached
<1>2. PICK k \in 1 .. Len(shift[m]) : shift[m][k] = n BY <1>1 DEF Leads
<1>3. k \in 1 .. Len(shift'[m]) /\ shift'[m][k] = n /\ m \in DOMAIN shift' BY <1>2
<1>4. Leads(m, n)' BY <1>3 DEF Leads
<1> QED BY <1>1, <1>3, <1>4 DEF Reached

LEMMA InitializeStatesMore ==
    ASSUME LR0Inv, InitializeStates
    PROVE  StatesMore'
<1>1. /\ g' = g /\ g \in Grammars /\ nullable' = SetNullable(g) /\ firstDerives' = FirstDerives(g)
      /\ DOMAIN states' = {0}
  BY DEF InitializeStates, LR0Inv
<1>2. TablesOK' BY <1>1, SetNullableIs DEF TablesOK, Ns
<1>3. KernelsDiffer' BY <1>1 DEF KernelsDiffer
<1>4. AllReached' BY <1>1 DEF AllReached
<1> QED BY <1>2, <1>3, <1>4 DEF StatesMore

LEMMA ExpandMore ==
    ASSUME LR0Inv, StatesMore, Expand
    PROVE  StatesMore'
<1>1. /\ UNCHANGED << g, nullable, firstDerives, states, this >> /\ phase = "expand"
      /\ shift' = Extend(shift, << >>) /\ AutomatonOK
  BY DEF LR0Inv, Expand
<1>2. this \in Nat /\ DOMAIN shift = 0 .. this - 1
  BY <1>1 DEF AutomatonOK, Numbered, ProgressOK, Expanded
<1>3. DOMAIN shift' = 0 .. this /\ \A m \in 0 .. this - 1 : shift'[m] = shift[m] BY <1>1, <1>2, ExtendFacts
<1>4. DOMAIN shift \subseteq DOMAIN shift' BY <1>2, <1>3
<1>5. TablesOK' /\ KernelsDiffer' BY <1>1 DEF StatesMore, TablesOK, KernelsDiffer
<1>6. AllReached'
  <2>1. \A n \in DOMAIN states \ {0} : Reached(n) BY DEF StatesMore, AllReached
  <2>2. \A n \in DOMAIN states \ {0} : Reached(n)' BY <1>2, <1>3, <1>4, <2>1, ReachedStays
  <2> QED BY <1>1, <2>2 DEF AllReached
<1> QED BY <1>5, <1>6 DEF StatesMore

(* A state is entered at the end of the shifts of this_state. *)
LEMMA AppendedShift ==
    ASSUME LR0Inv, phase = "shift", pending # << >>, UNCHANGED this, NEW q \in Nat, shift' = [shift EXCEPT ![this] = Append(@, q)]
    PROVE  /\ \A n : Reached(n) => Reached(n)'
           /\ this \in DOMAIN shift' /\ Leads(this, q)'
           /\ DOMAIN shift' = DOMAIN shift
<1>1. this \in DOMAIN shift /\ shift[this] \in Seq(DOMAIN states) /\ Len(shift[this]) \in Nat BY HeadIsNext
<1>2. AutomatonOK BY HeadIsNext
<1>3. DOMAIN states \subseteq Nat BY <1>2 DEF AutomatonOK, Numbered
<1>4. PICK s : s = shift[this] OBVIOUS
<1>5. s \in Seq(Nat) BY <1>1, <1>3, <1>4
<1>6. Len(Append(s, q)) = Len(s) + 1 /\ Append(s, q)[Len(s) + 1] = q
      /\ \A k \in 1 .. Len(s) : Append(s, q)[k] = s[k]
  BY <1>5
<1>7. shift'[this] = Append(s, q) /\ DOMAIN shift' = DOMAIN shift
      /\ \A m \in DOMAIN shift : m # this => shift'[m] = shift[m]
  BY <1>1, <1>4
<1>8. ASSUME NEW m \in DOMAIN shift, NEW k \in 1 .. Len(shift[m])
      PROVE  k \in 1 .. Len(shift'[m]) /\ shift'[m][k] = shift[m][k]
  <2>1. CASE m = this
    <3>1. k \in 1 .. Len(s) /\ Len(s) \in Nat BY <1>1, <1>4, <2>1
    <3>2. k \in 1 .. Len(s) + 1 BY <3>1
    <3> QED BY <1>4, <1>6, <1>7, <2>1, <3>1, <3>2
  <2>2. CASE m # this BY <1>7, <2>2
  <2> QED BY <2>1, <2>2
<1>9. \A n : Reached(n) => Reached(n)' BY <1>7, <1>8, ReachedStays
<1>10. Leads(this, q)'
  <2>1. Len(s) + 1 \in 1 .. Len(shift'[this]) /\ shift'[this][Len(s) + 1] = q BY <1>1, <1>4, <1>6, <1>7
  <2>2. PICK m : m = this OBVIOUS
  <2>3. \E k \in 1 .. Len(shift'[m]) : shift'[m][k] = q BY <2>1, <2>2
  <2>4. Leads(m, q)' BY <2>3 DEF Leads
  <2>5. this' = m BY <2>2
  <2> QED BY <2>2, <2>3, <2>5 DEF Leads
<1> QED BY <1>1, <1>7, <1>9, <1>10

LEMMA OldStateMore ==
    ASSUME LR0Inv, StatesMore, OldState
    PROVE  StatesMore'
<1>1. /\ phase = "shift" /\ pending # << >> /\ UNCHANGED << g, nullable, firstDerives, states, this >>
  BY DEF OldState
<1>2. PICK q \in 0 .. nstates - 1 : shift' = [shift EXCEPT ![this] = Append(@, q)] BY DEF OldState
<1>3. q \in Nat OBVIOUS
<1>4. \A n : Reached(n) => Reached(n)' BY <1>1, <1>2, <1>3, AppendedShift
<1> QED BY <1>1, <1>4 DEF StatesMore, TablesOK, KernelsDiffer, AllReached

LEMMA NewStateMore ==
    ASSUME LR0Inv, StatesMore, NewState
    PROVE  StatesMore'
<1>1. /\ phase = "shift" /\ pending # << >> /\ UNCHANGED << g, nullable, firstDerives, this >>
      /\ states' = Extend(states, [accessing_symbol |-> Head(pending), items |-> Kernel(Itemset(this), Head(pending))])
      /\ shift' = [shift EXCEPT ![this] = Append(@, nstates)]
      /\ \A n \in 0 .. nstates - 1 : states[n].items # Kernel(Itemset(this), Head(pending))
  BY DEF NewState, Itemset, SameKernel
<1>2. AutomatonOK BY <1>1, HeadIsNext
<1>3. nstates \in Nat /\ DOMAIN states = 0 .. nstates - 1 /\ this \in Nat /\ this < nstates
  BY <1>1, <1>2 DEF AutomatonOK, Numbered, ProgressOK
<1>4. PICK N, kernel, x : N = nstates /\ kernel = Kernel(Itemset(this), Head(pending))
                          /\ x = [accessing_symbol |-> Head(pending), items |-> kernel]
  OBVIOUS
<1>5. /\ DOMAIN states' = 0 .. N /\ states'[N].items = kernel
      /\ \A m \in 0 .. N - 1 : states'[m] = states[m]
  <2>1. states' = Extend(states, x) BY <1>1, <1>4
  <2>2. DOMAIN Extend(states, x) = 0 .. N /\ Extend(states, x)[N] = x
        /\ \A m \in 0 .. N - 1 : Extend(states, x)[m] = states[m]
    BY <1>3, <1>4, ExtendFacts
  <2>3. x.items = kernel BY <1>4
  <2> QED BY <2>1, <2>2, <2>3
<1>6. /\ \A n : Reached(n) => Reached(n)'
      /\ this \in DOMAIN shift' /\ Leads(this, N)'
  BY <1>1, <1>3, <1>4, AppendedShift
<1>7. \A n \in 0 .. N : n = N \/ n \in 0 .. N - 1 BY <1>3, <1>4
<1>8. KernelsDiffer'
  <2>1. \A n \in 0 .. N - 1 : states'[n].items # kernel BY <1>1, <1>4, <1>5
  <2>2. \A m, n \in 0 .. N - 1 : states'[m].items = states'[n].items => m = n
    BY <1>3, <1>4, <1>5 DEF StatesMore, KernelsDiffer
  <2>3. \A m, n \in 0 .. N : states'[m].items = states'[n].items => m = n BY <1>5, <1>7, <2>1, <2>2
  <2> QED BY <1>5, <2>3 DEF KernelsDiffer
<1>9. AllReached'
  <2>1. \A n \in 0 .. N - 1 : n # 0 => Reached(n)' BY <1>3, <1>4, <1>6 DEF StatesMore, AllReached
  <2>2. Reached(N)'
    <3>1. PICK m : m = this OBVIOUS
    <3>2. m \in DOMAIN shift' /\ m < N BY <1>3, <1>4, <1>6, <3>1
    <3>3. Leads(m, N)' BY <1>1, <1>6, <3>1 DEF Leads
    <3> QED BY <3>2, <3>3 DEF Reached
  <2> QED BY <1>5, <1>7, <2>1, <2>2 DEF AllReached
<1> QED BY <1>1, <1>8, <1>9 DEF StatesMore, TablesOK

LEMMA StatesStay ==
    ASSUME StatesMore, UNCHANGED << g, nullable, firstDerives, states, shift >>
    PROVE  StatesMore'
BY DEF StatesMore, TablesOK, KernelsDiffer, AllReached, Reached, Leads

LEMMA StatesStep == MkparInv /\ StatesInv /\ [Next]_vars => StatesInv'
<1> SUFFICES ASSUME MkparInv, StatesInv, [Next]_vars PROVE StatesInv' OBVIOUS
<1>1. LR0Inv BY DEF MkparInv
<1>2. ASSUME UNCHANGED << g, nullable, firstDerives, states, shift >>, phase \notin {"lr0", "fatal"} PROVE StatesInv'
  BY <1>2, StatesStay DEF StatesInv
<1>3. CASE LR0Next
  <2>1. CASE InitializeStates BY <1>1, <2>1, InitializeStatesMore DEF StatesInv
  <2>2. CASE Expand BY <1>1, <2>2, ExpandMore DEF StatesInv, Expand
  <2>3. CASE OldState BY <1>1, <2>3, OldStateMore DEF StatesInv, OldState
  <2>4. CASE NewState BY <1>1, <2>4, NewStateMore DEF StatesInv, NewState
  <2>5. CASE TooManyStates BY <2>5 DEF TooManyStates, StatesInv
  <2>6. CASE NextStateOfList BY <1>2, <2>6 DEF NextStateOfList
  <2> QED BY <1>3, <2>1, <2>2, <2>3, <2>4, <2>5, <2>6 DEF LR0Next
<1>4. CASE LalrNext
  <2>1. UNCHANGED << g, nullable, firstDerives, states, shift >> /\ phase \notin {"lr0", "fatal"}
    BY <1>4 DEF LalrNext, SetGotoMap, TooManyGotos, LR0Done, InitializeF, BuildRelations, RunDigraph, ComputeLookaheads,
                lr0Vars
  <2> QED BY <1>2, <2>1
<1>5. CASE MkparNext
  <2>1. UNCHANGED << g, nullable, firstDerives, states, shift >> /\ phase \notin {"lr0", "fatal"}
    BY <1>5 DEF MkparNext, ListActions, RemoveConflicts, NextRow, Finish, LalrDone, lr0Vars
  <2> QED BY <1>2, <2>1
<1>6. CASE UNCHANGED vars
  <2>1. UNCHANGED << g, nullable, firstDerives, states, shift, phase >> BY <1>6 DEF vars, lr0Vars
  <2> QED BY <1>2, <2>1 DEF StatesInv
<1> QED BY <1>3, <1>4, <1>5, <1>6 DEF Next

-----------------------------------------------------------------------------
(***************************************************************************)
(* The cores of the LR(1) item sets.                                       *)
(***************************************************************************)
LEMMA Items0Facts ==
    ASSUME NEW gr \in Grammars
    PROVE  /\ \A it \in ItemsOf(gr) :
                 it = << it[1], it[2] >> /\ it[1] \in DOMAIN gr.rules /\ it[2] \in 0 .. Len(Rhs(gr, it[1]))
           /\ \A r \in DOMAIN gr.rules : \A d \in 0 .. Len(Rhs(gr, r)) : << r, d >> \in ItemsOf(gr)
<1>1. ASSUME NEW it \in ItemsOf(gr)
      PROVE  it = << it[1], it[2] >> /\ it[1] \in DOMAIN gr.rules /\ it[2] \in 0 .. Len(Rhs(gr, it[1]))
  <2>1. PICK r \in DOMAIN gr.rules : it \in { << r, k >> : k \in 0 .. Len(Rhs(gr, r)) } BY DEF ItemsOf
  <2>2. PICK k \in 0 .. Len(Rhs(gr, r)) : it = << r, k >> BY <2>1
  <2> QED BY <2>2
<1>2. \A r \in DOMAIN gr.rules : \A d \in 0 .. Len(Rhs(gr, r)) : << r, d >> \in ItemsOf(gr) BY DEF ItemsOf
<1> QED BY <1>1, <1>2

LEMMA CoreItems ==
    ASSUME NEW gr \in Grammars, NEW J \in SUBSET Items1(gr)
    PROVE  /\ Core(J) \in SUBSET ItemsOf(gr)
           /\ \A r, d : << r, d >> \in Core(J) <=> \E t : << r, d, t >> \in J
<1>1. \A it \in J : it = << it[1], it[2], it[3] >> /\ it[1] \in DOMAIN gr.rules /\ it[2] \in 0 .. Len(Rhs(gr, it[1]))
  BY Items1Facts
<1>2. Core(J) \in SUBSET ItemsOf(gr)
  <2>1. \A it \in J : << it[1], it[2] >> \in ItemsOf(gr) BY <1>1, Items0Facts
  <2> QED BY <2>1 DEF Core
<1>3. ASSUME NEW r, NEW d, << r, d >> \in Core(J) PROVE \E t : << r, d, t >> \in J
  <2>1. PICK it \in J : << r, d >> = << it[1], it[2] >> BY <1>3 DEF Core
  <2>2. it = << r, d, it[3] >> BY <1>1, <2>1
  <2> QED BY <2>2
<1>4. ASSUME NEW r, NEW d, NEW t, << r, d, t >> \in J PROVE << r, d >> \in Core(J)
  <2>1. << r, d, t >>[1] = r /\ << r, d, t >>[2] = d OBVIOUS
  <2> QED BY <1>4, <2>1 DEF Core
<1> QED BY <1>2, <1>3, <1>4

LEMMA CoreOfClosure ==
    ASSUME NEW gr \in Grammars, AllProductive(gr), NEW J \in SUBSET Items1(gr)
    PROVE  IsClosure0(gr, Core(J), Core(Closure1Of(gr, J)))
<1>1. PICK cl : cl = Closure1Of(gr, J) OBVIOUS
<1>2. /\ cl \in SUBSET Items1(gr) /\ J \subseteq cl /\ Closed1(gr, cl)
      /\ \A C \in SUBSET Items1(gr) : J \subseteq C /\ Closed1(gr, C) => cl \subseteq C
  BY <1>1, Closure1Facts
<1>3. Core(cl) \in SUBSET ItemsOf(gr) BY <1>2, CoreItems
<1>4. Core(J) \subseteq Core(cl) BY <1>2 DEF Core
<1>5. Closed0(gr, Core(cl))
  <2> SUFFICES ASSUME NEW c \in Core(cl), c[2] < Len(Rhs(gr, c[1])), NEW r \in RulesOf(gr, SymbolAfter(gr, c))
               PROVE  << r, 0 >> \in Core(cl)
    BY DEF Closed0
  <2>1. PICK it \in cl : c = << it[1], it[2] >> BY DEF Core
  <2>2. /\ it = << it[1], it[2], it[3] >> /\ it[1] \in DOMAIN gr.rules
        /\ it[2] \in 0 .. Len(Rhs(gr, it[1])) /\ it[3] \in 0 .. gr.ntokens - 1
    BY <1>2, Items1Facts
  <2>3. c[1] = it[1] /\ c[2] = it[2] BY <2>1
  <2>4. it[2] < Len(Rhs(gr, it[1])) /\ r \in RulesOf(gr, SymbolAfter(gr, it)) BY <2>3 DEF SymbolAfter
  <2>5. it[2] + 1 \in Nat BY <2>2
  <2>6. \E t \in 0 .. gr.ntokens - 1 : Comes(gr, it[1], it[2] + 1, it[3], t)
    <3>1. CASE Vanishes(gr, Ns(gr), it[1], it[2] + 1) BY <2>2, <3>1 DEF Comes
    <3>2. CASE ~Vanishes(gr, Ns(gr), it[1], it[2] + 1)
      <4>1. \E t \in 0 .. gr.ntokens - 1 : Begins(gr, Ns(gr), Ps(gr), it[1], it[2] + 1, t)
        BY <2>2, <2>5, <3>2, SomethingFollows
      <4> QED BY <4>1 DEF Comes
    <3> QED BY <3>1, <3>2
  <2>7. PICK t \in 0 .. gr.ntokens - 1 : Comes(gr, it[1], it[2] + 1, it[3], t) BY <2>6
  <2>8. << r, 0, t >> \in cl BY <1>2, <2>4, <2>7 DEF Closed1
  <2> QED BY <1>2, <2>8, CoreItems
<1>6. ASSUME NEW C \in SUBSET ItemsOf(gr), Core(J) \subseteq C, Closed0(gr, C) PROVE Core(cl) \subseteq C
  <2> DEFINE U == { it \in Items1(gr) : << it[1], it[2] >> \in C }
  <2>1. J \subseteq U BY <1>6 DEF Core
  <2>2. Closed1(gr, U)
    <3> SUFFICES ASSUME NEW it \in U, it[2] < Len(Rhs(gr, it[1])), NEW r \in RulesOf(gr, SymbolAfter(gr, it)),
                        NEW t \in 0 .. gr.ntokens - 1
                 PROVE  << r, 0, t >> \in U
      BY DEF Closed1
    <3>1. PICK c : c = << it[1], it[2] >> OBVIOUS
    <3>2. c \in C /\ c[1] = it[1] /\ c[2] = it[2] BY <3>1
    <3>3. << r, 0 >> \in C BY <1>6, <3>2 DEF Closed0, SymbolAfter
    <3>4. r \in DOMAIN gr.rules BY DEF RulesOf
    <3>5. 0 \in 0 .. Len(Rhs(gr, r)) BY <3>4, SymbolKinds
    <3>6. << r, 0, t >> \in Items1(gr) BY <3>4, <3>5, Items1Facts
    <3>7. << r, 0, t >>[1] = r /\ << r, 0, t >>[2] = 0 OBVIOUS
    <3> QED BY <3>3, <3>6, <3>7
  <2>3. cl \subseteq U BY <1>2, <2>1, <2>2
  <2> QED BY <2>3 DEF Core
<1> QED BY <1>1, <1>3, <1>4, <1>5, <1>6 DEF IsClosure0

LEMMA CoreMoved ==
    ASSUME g \in Grammars, NEW J \in SUBSET Items1(g)
    PROVE  /\ Nexts1(g, J) = Nexts(Core(J))
           /\ \A x \in Nexts(Core(J)) : Core(Moved(g, J, x)) = Kernel(Core(J), x)
<1>1. ASSUME NEW it \in J
      PROVE  /\ NextSymbol(<< it[1], it[2] >>) \in Int /\ Next1(g, it) \in Int
             /\ NextSymbol(<< it[1], it[2] >>) > 0 <=> Next1(g, it) \notin {-1, 0}
             /\ NextSymbol(<< it[1], it[2] >>) > 0 => NextSymbol(<< it[1], it[2] >>) = Next1(g, it)
             /\ Next1(g, it) \notin {-1, 0} => NextSymbol(<< it[1], it[2] >>) = Next1(g, it)
  <2>1. PICK r, d, c : r = it[1] /\ d = it[2] /\ c = << r, d >> OBVIOUS
  <2>2. r \in DOMAIN g.rules /\ d \in 0 .. Len(Rhs(g, r)) /\ it \in Items1(g) BY <2>1, Items1Facts
  <2>3. c[1] = r /\ c[2] = d BY <2>1
  <2>4. NextSymbol(c) = IF d < Len(Rhs(g, r)) THEN Rhs(g, r)[d + 1] ELSE -r BY <2>3 DEF NextSymbol
  <2>5. Next1(g, it) = IF d < Len(Rhs(g, r)) THEN Rhs(g, r)[d + 1] ELSE -1 BY <2>1 DEF Next1
  <2>6. r \in Nat /\ r > 1 BY <2>2, RuleFacts
  <2>7. d < Len(Rhs(g, r)) => Rhs(g, r)[d + 1] \in Nat
    <3> SUFFICES ASSUME d < Len(Rhs(g, r)) PROVE Rhs(g, r)[d + 1] \in Nat OBVIOUS
    <3>1. Len(Rhs(g, r)) \in Nat BY <2>2, SymbolKinds
    <3>2. d + 1 \in 1 .. Len(Rhs(g, r)) BY <2>2, <3>1
    <3>3. Rhs(g, r)[d + 1] \in Symbol(g) BY <2>2, <3>2, SymbolKinds
    <3> QED BY <3>3, SymbolKinds
  <2>8. /\ NextSymbol(c) \in Int /\ Next1(g, it) \in Int
        /\ NextSymbol(c) > 0 <=> Next1(g, it) \notin {-1, 0}
        /\ NextSymbol(c) > 0 => NextSymbol(c) = Next1(g, it)
        /\ Next1(g, it) \notin {-1, 0} => NextSymbol(c) = Next1(g, it)
    <3>1. CASE d < Len(Rhs(g, r)) BY <2>4, <2>5, <2>7, <3>1
    <3>2. CASE ~(d < Len(Rhs(g, r))) BY <2>4, <2>5, <2>6, <3>2
    <3> QED BY <3>1, <3>2
  <2> QED BY <2>1, <2>8
<1>2. Nexts1(g, J) = Nexts(Core(J))
  <2>1. \A x : x \in Nexts1(g, J) <=> \E it \in J : x = Next1(g, it) /\ Next1(g, it) \notin {-1, 0} BY DEF Nexts1
  <2>2. \A x : x \in Nexts(Core(J)) <=>
          \E it \in J : x = NextSymbol(<< it[1], it[2] >>) /\ NextSymbol(<< it[1], it[2] >>) > 0
    BY DEF Nexts, Core
  <2> QED BY <1>1, <2>1, <2>2
<1>3. ASSUME NEW x \in Nexts(Core(J)) PROVE Core(Moved(g, J, x)) = Kernel(Core(J), x)
  <2>1. x \in Int /\ x > 0 /\ x \notin {-1, 0} BY <1>1 DEF Nexts, Core
  <2>2. \A it \in J : Next1(g, it) = x <=> NextSymbol(<< it[1], it[2] >>) = x BY <1>1, <2>1
  <2>3. ASSUME NEW e, e \in Core(Moved(g, J, x)) PROVE e \in Kernel(Core(J), x)
    <3>1. PICK m \in Moved(g, J, x) : e = << m[1], m[2] >> BY <2>3 DEF Core
    <3>2. PICK it \in J : Next1(g, it) = x /\ m = << it[1], it[2] + 1, it[3] >> BY DEF Moved
    <3>3. e = << it[1], it[2] + 1 >> BY <3>1, <3>2
    <3>4. PICK c : c = << it[1], it[2] >> OBVIOUS
    <3>5. c \in Core(J) /\ NextSymbol(c) = x BY <2>2, <3>2, <3>4 DEF Core
    <3>6. e = << c[1], c[2] + 1 >> BY <3>3, <3>4
    <3> QED BY <3>5, <3>6 DEF Kernel
  <2>4. ASSUME NEW e, e \in Kernel(Core(J), x) PROVE e \in Core(Moved(g, J, x))
    <3>1. PICK c \in Core(J) : NextSymbol(c) = x /\ e = << c[1], c[2] + 1 >> BY <2>4 DEF Kernel
    <3>2. PICK it \in J : c = << it[1], it[2] >> BY DEF Core
    <3>3. PICK m : m = << it[1], it[2] + 1, it[3] >> OBVIOUS
    <3>4. m \in Moved(g, J, x) BY <2>2, <3>1, <3>2, <3>3 DEF Moved
    <3>5. e = << m[1], m[2] >> BY <3>1, <3>2, <3>3
    <3> QED BY <3>4, <3>5 DEF Core
  <2> QED BY <2>3, <2>4
<1> QED BY <1>2, <1>3

-----------------------------------------------------------------------------
(***************************************************************************)
(* The states: the item sets that get_state() finds are the cores of the   *)
(* canonical collection, whose item sets are followed transition by        *)
(* transition.                                                             *)
(***************************************************************************)
LRBuilt == Built /\ StatesMore

LEMMA ItemsetIs ==
    ASSUME LRBuilt, NEW n \in DOMAIN states
    PROVE  /\ IsClosure0(g, states[n].items, Itemset(n)) /\ Itemset(n) \in SUBSET ItemsOf(g)
           /\ states[n].items \in SUBSET ItemsOf(g) /\ g \in Grammars
<1>1. g \in Grammars /\ AutomatonOK /\ firstDerives = FirstDerives(g)
  BY DEF LRBuilt, Built, LR0Inv, StatesMore, TablesOK
<1>2. states[n].items \in SUBSET ItemsOf(g) BY <1>1 DEF AutomatonOK, StatesOK
<1>3. IsClosure0(g, states[n].items, Itemset(n)) BY <1>1, <1>2, ClosureIs DEF Itemset
<1> QED BY <1>1, <1>2, <1>3 DEF IsClosure0

LEMMA StateZero ==
    ASSUME LRBuilt
    PROVE  0 \in DOMAIN states /\ states[0].items = { << 2, 0 >> } /\ g \in Grammars
           /\ DOMAIN shift = DOMAIN states /\ DOMAIN states \subseteq Nat
<1>1. g \in Grammars /\ AutomatonOK BY DEF LRBuilt, Built, LR0Inv
<1>2. phase \notin {"lr0", "fatal", "expand", "shift"} BY DEF LRBuilt, Built
<1>3. 0 \in DOMAIN states /\ DOMAIN states \subseteq Nat BY <1>1 DEF AutomatonOK, Numbered
<1>4. DOMAIN shift = DOMAIN states BY <1>1, <1>2 DEF AutomatonOK, Numbered, ProgressOK, Expanded
<1>5. RulesOf(g, g.ntokens) = { 2 }
  <2>1. 2 \in DOMAIN g.rules BY <1>1, StartFacts
  <2> QED BY <1>1, <2>1, RuleFacts DEF RulesOf
<1>6. states[0].items = { << r, 0 >> : r \in {2} } BY <1>1, <1>5 DEF AutomatonOK, StatesOK, start_symbol
<1> QED BY <1>1, <1>3, <1>4, <1>6

LEMMA StartCore ==
    ASSUME LRBuilt, AllProductive(g)
    PROVE  Core(Start1(g)) = Itemset(0)
<1>1. 0 \in DOMAIN states /\ states[0].items = { << 2, 0 >> } /\ g \in Grammars BY StateZero
<1>2. IsClosure0(g, states[0].items, Itemset(0)) BY <1>1, ItemsetIs
<1>3. { << 2, 0, 0 >> } \in SUBSET Items1(g) /\ g.top = 2 BY <1>1, StartFacts
<1>4. Core({ << 2, 0, 0 >> }) = { << 2, 0 >> }
  <2>1. << 2, 0, 0 >>[1] = 2 /\ << 2, 0, 0 >>[2] = 0 OBVIOUS
  <2> QED BY <2>1 DEF Core
<1>5. IsClosure0(g, { << 2, 0 >> }, Core(Start1(g))) BY <1>1, <1>3, <1>4, CoreOfClosure DEF Start1
<1> QED BY <1>1, <1>2, <1>5, SameClosure

LEMMA GotoCore ==
    ASSUME LRBuilt, AllProductive(g), NEW J \in SUBSET Items1(g), NEW n \in DOMAIN states, Core(J) = Itemset(n)
    PROVE  /\ \A q : Leads(n, q) => Accessing(q) \in Nexts1(g, J) /\ Core(Goto1Of(g, J, Accessing(q))) = Itemset(q)
           /\ \A x \in Nexts1(g, J) : \E q : Leads(n, q) /\ Accessing(q) = x
<1>1. g \in Grammars /\ Built BY StateZero DEF LRBuilt
<1>2. Nexts1(g, J) = Nexts(Itemset(n)) BY <1>1, CoreMoved
<1>3. \A x \in Nexts1(g, J) : \E q : Leads(n, q) /\ Accessing(q) = x BY <1>1, <1>2, Transitions
<1>4. ASSUME NEW q, Leads(n, q)
      PROVE  Accessing(q) \in Nexts1(g, J) /\ Core(Goto1Of(g, J, Accessing(q))) = Itemset(q)
  <2>1. /\ q \in DOMAIN states /\ Accessing(q) \in Nexts(Itemset(n))
        /\ states[q].items = Kernel(Itemset(n), Accessing(q))
    BY <1>1, <1>4, Transitions
  <2>2. Core(Moved(g, J, Accessing(q))) = states[q].items BY <1>1, <2>1, CoreMoved
  <2>3. Moved(g, J, Accessing(q)) \in SUBSET Items1(g) BY <1>1, <1>2, <2>1, MovedFacts
  <2>4. IsClosure0(g, states[q].items, Core(Goto1Of(g, J, Accessing(q))))
    BY <1>1, <2>2, <2>3, CoreOfClosure DEF Goto1Of
  <2>5. IsClosure0(g, states[q].items, Itemset(q)) BY <2>1, ItemsetIs
  <2> QED BY <1>2, <2>1, <2>4, <2>5, SameClosure
<1> QED BY <1>3, <1>4

(* Each state has an LR(1) item set, and each LR(1) item set its state. *)
LEMMA StatesAre ==
    ASSUME LRBuilt, AllProductive(g)
    PROVE  /\ \A n \in DOMAIN states : \E J \in Collection1(g) : Core(J) = Itemset(n)
           /\ \A J \in Collection1(g) : J \in SUBSET Items1(g) /\ \E n \in DOMAIN states : Core(J) = Itemset(n)
<1>1. /\ g \in Grammars /\ 0 \in DOMAIN states /\ DOMAIN shift = DOMAIN states /\ DOMAIN states \subseteq Nat
      /\ \A n \in DOMAIN states \ {0} : Reached(n)
  BY StateZero DEF LRBuilt, StatesMore, AllReached
<1>2. PICK C : C = Collection1(g) OBVIOUS
<1>3. /\ C \in SUBSET SUBSET Items1(g) /\ Start1(g) \in C
      /\ \A J \in C : \A x \in Nexts1(g, J) : Goto1Of(g, J, x) \in C
      /\ \A Q \in SUBSET SUBSET Items1(g) : CollectionClosed(g, Q) => C \subseteq Q
  BY <1>1, <1>2, CollectionFacts DEF CollectionClosed
<1> DEFINE Bad == { n \in DOMAIN states : ~\E J \in C : Core(J) = Itemset(n) }
<1>4. Bad = {}
  <2> SUFFICES ASSUME Bad # {} PROVE FALSE OBVIOUS
  <2>1. Bad \in SUBSET Nat BY <1>1
  <2> HIDE DEF Bad
  <2>2. PICK n \in Bad : \A l \in Bad : n <= l BY <2>1, LeastExists
  <2>3. n \in DOMAIN states /\ ~\E J \in C : Core(J) = Itemset(n) BY <2>2 DEF Bad
  <2>4. n # 0 BY <1>3, <2>3, StartCore
  <2>5. PICK m \in DOMAIN states : m < n /\ Leads(m, n) BY <1>1, <2>3, <2>4 DEF Reached
  <2>6. m \in Nat /\ n \in Nat BY <1>1, <2>3
  <2>7. m \notin Bad BY <2>2, <2>5, <2>6
  <2>8. PICK J \in C : Core(J) = Itemset(m) BY <2>5, <2>7 DEF Bad
  <2>9. J \in SUBSET Items1(g) BY <1>3
  <2>10. Accessing(n) \in Nexts1(g, J) /\ Core(Goto1Of(g, J, Accessing(n))) = Itemset(n)
    BY <2>5, <2>8, <2>9, GotoCore
  <2> QED BY <1>3, <2>3, <2>10
<1> DEFINE Q == { J \in SUBSET Items1(g) : \E n \in DOMAIN states : Core(J) = Itemset(n) }
<1>5. CollectionClosed(g, Q)
  <2>1. Start1(g) \in Q
    <3>1. Start1(g) \in SUBSET Items1(g) BY <1>3
    <3> QED BY <1>1, <3>1, StartCore
  <2>2. ASSUME NEW J \in Q, NEW x \in Nexts1(g, J) PROVE Goto1Of(g, J, x) \in Q
    <3>1. J \in SUBSET Items1(g) OBVIOUS
    <3>2. PICK n \in DOMAIN states : Core(J) = Itemset(n) OBVIOUS
    <3>3. PICK q : Leads(n, q) /\ Accessing(q) = x BY <2>2, <3>1, <3>2, GotoCore
    <3>4. Core(Goto1Of(g, J, x)) = Itemset(q) BY <3>1, <3>2, <3>3, GotoCore
    <3>5. q \in DOMAIN states BY <3>3, Transitions DEF LRBuilt
    <3>6. Goto1Of(g, J, x) \in SUBSET Items1(g)
      <4>1. Moved(g, J, x) \in SUBSET Items1(g) BY <1>1, <2>2, <3>1, MovedFacts
      <4> QED BY <1>1, <4>1, Closure1Facts DEF Goto1Of
    <3> QED BY <3>4, <3>5, <3>6
  <2> HIDE DEF Q
  <2> QED BY <2>1, <2>2 DEF CollectionClosed
<1>6. C \subseteq Q
  <2>1. Q \in SUBSET SUBSET Items1(g) OBVIOUS
  <2> HIDE DEF Q
  <2> QED BY <1>3, <1>5, <2>1
<1> QED BY <1>2, <1>4, <1>6

LEMMA StatesAreCores ==
    ASSUME LRBuilt, AllProductive(g)
    PROVE  { Itemset(n) : n \in DOMAIN states } = StatesLALR(g, Collection1(g))
BY StatesAre DEF StatesLALR

-----------------------------------------------------------------------------
(***************************************************************************)
(* Transitions and items: the dot moves over the accessing symbol.         *)
(***************************************************************************)
LEMMA ItemShifted ==
    ASSUME LRBuilt, NEW n \in DOMAIN states, NEW r, NEW d, << r, d >> \in Itemset(n)
    PROVE  /\ r \in DOMAIN g.rules /\ d \in 0 .. Len(Rhs(g, r)) /\ Len(Rhs(g, r)) \in Nat
           /\ d < Len(Rhs(g, r)) /\ Rhs(g, r)[d + 1] # 0 => Rhs(g, r)[d + 1] \in Nexts(Itemset(n))
           /\ d < Len(Rhs(g, r)) => Rhs(g, r)[d + 1] \in Symbol(g)
           /\ \A q : Leads(n, q) /\ d < Len(Rhs(g, r)) /\ Rhs(g, r)[d + 1] = Accessing(q) =>
                 << r, d + 1 >> \in states[q].items /\ << r, d + 1 >> \in Itemset(q)
<1>1. Itemset(n) \in SUBSET ItemsOf(g) /\ g \in Grammars BY ItemsetIs
<1>2. PICK c : c = << r, d >> OBVIOUS
<1>3. c \in Itemset(n) /\ c[1] = r /\ c[2] = d BY <1>2
<1>4. r \in DOMAIN g.rules /\ d \in 0 .. Len(Rhs(g, r)) BY <1>1, <1>3, Items0Facts
<1>5. Len(Rhs(g, r)) \in Nat BY <1>1, <1>4, SymbolKinds
<1>6. d < Len(Rhs(g, r)) => NextSymbol(c) = Rhs(g, r)[d + 1] BY <1>3 DEF NextSymbol
<1>7. d < Len(Rhs(g, r)) => d + 1 \in 1 .. Len(Rhs(g, r)) BY <1>4, <1>5
<1>8. d < Len(Rhs(g, r)) => Rhs(g, r)[d + 1] \in Symbol(g) /\ Rhs(g, r)[d + 1] \in Nat BY <1>1, <1>4, <1>7, SymbolKinds
<1>9. ASSUME d < Len(Rhs(g, r)), Rhs(g, r)[d + 1] # 0 PROVE Rhs(g, r)[d + 1] \in Nexts(Itemset(n))
  <2>1. NextSymbol(c) = Rhs(g, r)[d + 1] /\ NextSymbol(c) > 0 BY <1>6, <1>8, <1>9
  <2> QED BY <1>3, <2>1 DEF Nexts
<1>10. ASSUME NEW q, Leads(n, q), d < Len(Rhs(g, r)), Rhs(g, r)[d + 1] = Accessing(q)
       PROVE  << r, d + 1 >> \in states[q].items /\ << r, d + 1 >> \in Itemset(q)
  <2>1. q \in DOMAIN states /\ states[q].items = Kernel(Itemset(n), Accessing(q))
    BY <1>10, Transitions DEF LRBuilt
  <2>2. NextSymbol(c) = Accessing(q) BY <1>6, <1>10
  <2>3. << r, d + 1 >> = << c[1], c[2] + 1 >> BY <1>3
  <2>4. << r, d + 1 >> \in Kernel(Itemset(n), Accessing(q)) BY <1>3, <2>2, <2>3 DEF Kernel
  <2> QED BY <2>1, <2>4, ItemsetIs DEF IsClosure0
<1> QED BY <1>4, <1>5, <1>8, <1>9, <1>10

LEMMA KernelFrom ==
    ASSUME LRBuilt, NEW n \in DOMAIN states, NEW q, Leads(n, q), NEW c \in states[q].items
    PROVE  /\ c = << c[1], c[2] >> /\ c[2] \in 1 .. Len(Rhs(g, c[1])) /\ c[1] \in DOMAIN g.rules
           /\ << c[1], c[2] - 1 >> \in Itemset(n) /\ Rhs(g, c[1])[c[2]] = Accessing(q)
<1>1. /\ q \in DOMAIN states /\ states[q].items = Kernel(Itemset(n), Accessing(q))
      /\ Accessing(q) \in Nexts(Itemset(n)) /\ Accessing(q) \in 1 .. g.nsyms - 1
  BY Transitions DEF LRBuilt
<1>2. PICK it \in Itemset(n) : NextSymbol(it) = Accessing(q) /\ c = << it[1], it[2] + 1 >> BY <1>1 DEF Kernel
<1>3. g \in Grammars /\ it \in ItemsOf(g) BY ItemsetIs
<1>4. it = << it[1], it[2] >> /\ it[1] \in DOMAIN g.rules /\ it[2] \in 0 .. Len(Rhs(g, it[1])) BY <1>3, Items0Facts
<1>5. NextSymbol(it) >= 0 BY <1>1, <1>2
<1>6. it[2] < Len(Rhs(g, it[1])) /\ NextSymbol(it) = Rhs(g, it[1])[it[2] + 1] BY <1>3, <1>5, ItemFacts
<1>7. Len(Rhs(g, it[1])) \in Nat BY <1>3, <1>4, SymbolKinds
<1>8. c[1] = it[1] /\ c[2] = it[2] + 1 /\ c = << c[1], c[2] >> BY <1>2
<1>9. c[2] \in 1 .. Len(Rhs(g, c[1])) /\ c[2] - 1 = it[2] BY <1>4, <1>6, <1>7, <1>8
<1> QED BY <1>2, <1>4, <1>6, <1>8, <1>9

-----------------------------------------------------------------------------
(***************************************************************************)
(* Paths along the right-hand side of a rule.                              *)
(***************************************************************************)
Along(n, r, k, at) ==
    /\ at \in [0 .. k -> DOMAIN states] /\ at[0] = n
    /\ \A e \in 1 .. k : Leads(at[e - 1], at[e]) /\ Accessing(at[e]) = Rhs(g, r)[e]

LEMMA AlongSame ==
    ASSUME LRBuilt, NEW n, NEW r, NEW k \in Nat, NEW l \in Nat, k <= l,
           NEW at, Along(n, r, k, at), NEW bt, Along(n, r, l, bt)
    PROVE  at[k] = bt[k]
<1> DEFINE Bad == { e \in 0 .. k : at[e] # bt[e] }
<1> SUFFICES ASSUME Bad # {} PROVE FALSE
  <2>1. k \in 0 .. k OBVIOUS
  <2> QED BY <2>1
<1>1. Bad \in SUBSET Nat OBVIOUS
<1> HIDE DEF Bad
<1>2. PICK e \in Bad : \A x \in Bad : e <= x BY <1>1, LeastExists
<1>3. e \in 0 .. k /\ at[e] # bt[e] BY <1>2 DEF Bad
<1>4. e # 0 BY <1>3 DEF Along
<1>5. e \in 1 .. k /\ e \in 1 .. l /\ e - 1 \in 0 .. k /\ ~(e <= e - 1) BY <1>3, <1>4
<1>6. at[e - 1] = bt[e - 1] BY <1>2, <1>5 DEF Bad
<1>7. Leads(at[e - 1], at[e]) /\ Leads(at[e - 1], bt[e]) /\ Accessing(at[e]) = Accessing(bt[e])
      /\ at[e - 1] \in DOMAIN states
  BY <1>5, <1>6 DEF Along
<1> QED BY <1>3, <1>7, Transitions DEF LRBuilt

LEMMA PathExists ==
    ASSUME LRBuilt, NEW n \in DOMAIN states, NEW r, r # 2, << r, 0 >> \in Itemset(n), NEW k \in 0 .. Len(Rhs(g, r))
    PROVE  \E at : Along(n, r, k, at) /\ at[k] = Path(n, r, k) /\ \A e \in 0 .. k : << r, e >> \in Itemset(at[e])
<1> DEFINE S == DOMAIN states
           Next0(e, m) == CHOOSE q \in ToSet(shift[m]) : AccessingSymbol(q) = Rhs(g, r)[e]
           step == [p \in (1 .. k) \X S |-> IF Next0(p[1], p[2]) \in S THEN Next0(p[1], p[2]) ELSE n]
           Is(h) == h = [e \in 0 .. k |-> IF e = 0 THEN n ELSE Next0(e, h[e - 1])]
<1>1. /\ r \in DOMAIN g.rules /\ Len(Rhs(g, r)) \in Nat /\ g \in Grammars /\ k \in Nat
  <2>1. r \in DOMAIN g.rules /\ Len(Rhs(g, r)) \in Nat BY ItemShifted
  <2>2. g \in Grammars BY ItemsetIs
  <2> QED BY <2>1, <2>2
<1>2. \A e \in 1 .. k : e \in 1 .. Len(Rhs(g, r)) /\ e - 1 \in 0 .. k /\ e - 1 \in Nat /\ e - 1 < Len(Rhs(g, r))
                        /\ (e - 1) + 1 = e
  BY <1>1
<1>3. \A e \in 1 .. k : Rhs(g, r)[e] # 0 BY <1>1, <1>2, RuleFacts
(* Where the item is, the next state is found, and the item there. *)
<1>4. ASSUME NEW e \in 1 .. k, NEW m \in S, << r, e - 1 >> \in Itemset(m)
      PROVE  /\ Next0(e, m) \in S /\ Leads(m, Next0(e, m)) /\ Accessing(Next0(e, m)) = Rhs(g, r)[e]
             /\ << r, e >> \in Itemset(Next0(e, m))
  <2>1. PICK d : d = e - 1 OBVIOUS
  <2>2. d < Len(Rhs(g, r)) /\ d + 1 = e BY <1>2, <2>1
  <2>3. Rhs(g, r)[e] \in Nexts(Itemset(m)) BY <1>3, <1>4, <2>1, <2>2, ItemShifted
  <2>4. PICK q : Leads(m, q) /\ Accessing(q) = Rhs(g, r)[e] BY <2>3, Transitions DEF LRBuilt
  <2>5. q \in ToSet(shift[m])
    <3>1. shift[m] \in Seq(S) BY Transitions DEF LRBuilt
    <3>2. DOMAIN shift[m] = 1 .. Len(shift[m]) BY <3>1
    <3> QED BY <2>4, <3>2 DEF Leads, ToSet
  <2>6. PICK p : p = Next0(e, m) OBVIOUS
  <2>7. p \in ToSet(shift[m]) /\ AccessingSymbol(p) = Rhs(g, r)[e] BY <2>4, <2>5, <2>6 DEF AccessingSymbol, Accessing
  <2>8. Leads(m, p)
    <3>1. shift[m] \in Seq(S) BY Transitions DEF LRBuilt
    <3>2. DOMAIN shift[m] = 1 .. Len(shift[m]) BY <3>1
    <3> QED BY <2>7, <3>2 DEF Leads, ToSet
  <2>9. p \in S BY <2>8, Transitions DEF LRBuilt
  <2>10. Accessing(p) = Rhs(g, r)[e] BY <2>7 DEF AccessingSymbol, Accessing
  <2>11. << r, d + 1 >> \in Itemset(p) BY <1>4, <2>1, <2>2, <2>8, <2>10, ItemShifted
  <2> QED BY <2>2, <2>6, <2>8, <2>9, <2>10, <2>11
<1> HIDE DEF Next0
<1>5. PICK f \in [0 .. k -> S] : Computes(f, n, k, step)
  <2>1. step \in [(1 .. k) \X S -> S] OBVIOUS
  <2>2. n \in S OBVIOUS
  <2> HIDE DEF step, S
  <2> QED BY <1>1, <2>1, <2>2, RecursionExists
<1>6. f[0] = n /\ \A e \in 1 .. k : f[e] = IF Next0(e, f[e - 1]) \in S THEN Next0(e, f[e - 1]) ELSE n
  <2> SUFFICES ASSUME NEW e \in 1 .. k PROVE f[e] = IF Next0(e, f[e - 1]) \in S THEN Next0(e, f[e - 1]) ELSE n
    BY <1>5 DEF Computes
  <2>1. PICK m : m = f[e - 1] OBVIOUS
  <2>2. m \in S BY <1>2, <2>1
  <2>3. f[e] = step[<< e, m >>] BY <1>5, <2>1 DEF Computes
  <2>4. << e, m >> \in (1 .. k) \X S /\ << e, m >>[1] = e /\ << e, m >>[2] = m BY <2>2
  <2> HIDE DEF S
  <2>5. step[<< e, m >>] = IF Next0(e, m) \in S THEN Next0(e, m) ELSE n BY <2>4
  <2> QED BY <2>1, <2>3, <2>5
(* By the least place where it would be otherwise. *)
<1>7. ASSUME NEW h, h[0] = n,
             \A e \in 1 .. k : << r, e - 1 >> \in Itemset(h[e - 1]) /\ h[e - 1] \in S => h[e] = Next0(e, h[e - 1])
      PROVE  \A e \in 0 .. k : h[e] \in S /\ << r, e >> \in Itemset(h[e])
  <2> DEFINE Bad == { e \in 0 .. k : ~(h[e] \in S /\ << r, e >> \in Itemset(h[e])) }
  <2> SUFFICES ASSUME Bad # {} PROVE FALSE OBVIOUS
  <2>1. Bad \in SUBSET Nat OBVIOUS
  <2> HIDE DEF Bad
  <2>2. PICK e \in Bad : \A x \in Bad : e <= x BY <2>1, LeastExists
  <2>3. e \in 0 .. k /\ ~(h[e] \in S /\ << r, e >> \in Itemset(h[e])) BY <2>2 DEF Bad
  <2>4. e # 0 BY <1>7, <2>3
  <2>5. e \in 1 .. k /\ e - 1 \in 0 .. k /\ ~(e <= e - 1) BY <1>1, <2>3, <2>4
  <2>6. h[e - 1] \in S /\ << r, e - 1 >> \in Itemset(h[e - 1]) BY <2>2, <2>5 DEF Bad
  <2>7. h[e] = Next0(e, h[e - 1]) BY <1>7, <2>5, <2>6
  <2> QED BY <1>4, <2>3, <2>5, <2>6, <2>7
<1>8. \A e \in 0 .. k : f[e] \in S /\ << r, e >> \in Itemset(f[e])
  <2>1. \A e \in 1 .. k : << r, e - 1 >> \in Itemset(f[e - 1]) /\ f[e - 1] \in S => f[e] = Next0(e, f[e - 1])
    BY <1>4, <1>6
  <2> QED BY <1>6, <1>7, <2>1
<1>9. Is(f)
  <2>1. \A e \in 0 .. k : e # 0 => e \in 1 .. k BY <1>1
  <2>2. \A e \in 1 .. k : f[e] = Next0(e, f[e - 1]) BY <1>2, <1>4, <1>6, <1>8
  <2>3. \A e \in 0 .. k : f[e] = IF e = 0 THEN n ELSE Next0(e, f[e - 1]) BY <1>6, <2>1, <2>2
  <2>4. f = [e \in 0 .. k |-> f[e]] OBVIOUS
  <2> QED BY <2>3, <2>4
<1>10. PICK h : h = CHOOSE x : Is(x)
  <2> HIDE DEF Is
  <2> QED OBVIOUS
<1>11. Path(n, r, k) = h[k] BY <1>10 DEF Path, Next0
<1>12. Is(h)
  <2> HIDE DEF Is
  <2> QED BY <1>9, <1>10
<1>13. h[0] = n /\ \A e \in 1 .. k : h[e] = Next0(e, h[e - 1])
  <2>1. 0 \in 0 .. k /\ \A e \in 1 .. k : e \in 0 .. k /\ e # 0 BY <1>1
  <2> QED BY <1>12, <2>1
<1>14. \A e \in 0 .. k : h[e] \in S /\ << r, e >> \in Itemset(h[e]) BY <1>7, <1>13
<1>15. h \in [0 .. k -> S] BY <1>12, <1>14
<1>16. Along(n, r, k, h)
  <2>1. ASSUME NEW e \in 1 .. k PROVE Leads(h[e - 1], h[e]) /\ Accessing(h[e]) = Rhs(g, r)[e]
    <3>1. h[e - 1] \in S /\ << r, e - 1 >> \in Itemset(h[e - 1]) BY <1>2, <1>14
    <3>2. h[e] = Next0(e, h[e - 1]) BY <1>13
    <3> QED BY <1>4, <3>1, <3>2
  <2> QED BY <1>13, <1>15, <2>1 DEF Along
<1> QED BY <1>11, <1>14, <1>16

LEMMA PathIs ==
    ASSUME LRBuilt, NEW n \in DOMAIN states, NEW r, r # 2, << r, 0 >> \in Itemset(n)
    PROVE  /\ Path(n, r, 0) = n
           /\ \A k \in 0 .. Len(Rhs(g, r)) : Path(n, r, k) \in DOMAIN states /\ << r, k >> \in Itemset(Path(n, r, k))
           /\ \A k \in 0 .. Len(Rhs(g, r)) : k < Len(Rhs(g, r)) =>
                 Leads(Path(n, r, k), Path(n, r, k + 1)) /\ Accessing(Path(n, r, k + 1)) = Rhs(g, r)[k + 1]
<1>1. Len(Rhs(g, r)) \in Nat BY ItemShifted
<1>2. ASSUME NEW k \in 0 .. Len(Rhs(g, r)) PROVE Path(n, r, k) \in DOMAIN states /\ << r, k >> \in Itemset(Path(n, r, k))
  <2>1. k \in 0 .. k BY <1>1
  <2> QED BY <1>2, <2>1, PathExists DEF Along
<1>3. Path(n, r, 0) = n
  <2>1. 0 \in 0 .. Len(Rhs(g, r)) BY <1>1
  <2> QED BY <2>1, PathExists DEF Along
<1>4. ASSUME NEW k \in 0 .. Len(Rhs(g, r)), k < Len(Rhs(g, r))
      PROVE  Leads(Path(n, r, k), Path(n, r, k + 1)) /\ Accessing(Path(n, r, k + 1)) = Rhs(g, r)[k + 1]
  <2>1. k \in Nat /\ k + 1 \in Nat /\ k <= k + 1 /\ k + 1 \in 0 .. Len(Rhs(g, r)) /\ k + 1 \in 1 .. k + 1 /\ (k + 1) - 1 = k
    BY <1>1, <1>4
  <2>2. PICK at : Along(n, r, k, at) /\ at[k] = Path(n, r, k) BY PathExists
  <2>3. PICK bt : Along(n, r, k + 1, bt) /\ bt[k + 1] = Path(n, r, k + 1) BY <2>1, PathExists
  <2>4. at[k] = bt[k] BY <2>1, <2>2, <2>3, AlongSame
  <2>5. Leads(bt[k], bt[k + 1]) /\ Accessing(bt[k + 1]) = Rhs(g, r)[k + 1] BY <2>1, <2>3 DEF Along
  <2> QED BY <2>2, <2>3, <2>4, <2>5
<1> QED BY <1>2, <1>3, <1>4

-----------------------------------------------------------------------------
(***************************************************************************)
(* The gotos: each transition by a variable has its number, map_goto()     *)
(* finds it, and number 0 is that of state 0 by the goal.                  *)
(***************************************************************************)
GotosKnown == GotosListed /\ ngotos = Len(InOrder(Gotos, GotoOrder))
LalrBuilt == LRBuilt /\ GotosKnown
GotoNumber == 0 .. ngotos - 1
SymbolOf(k) == Accessing(toState[k])

LEMMA GotoTable ==
    ASSUME LalrBuilt
    PROVE  /\ ngotos \in Nat /\ DOMAIN fromState = GotoNumber /\ DOMAIN toState = GotoNumber
           /\ \A k \in GotoNumber :
                 /\ fromState[k] \in DOMAIN states /\ toState[k] \in DOMAIN states /\ fromState[k] \in Nat
                 /\ Leads(fromState[k], toState[k])
                 /\ SymbolOf(k) \in Vars(g) /\ SymbolOf(k) \in Nat /\ SymbolOf(k) \in Nexts(Itemset(fromState[k]))
           /\ \A k, l \in GotoNumber : fromState[k] = fromState[l] /\ SymbolOf(k) = SymbolOf(l) => k = l
           /\ \A k, l \in GotoNumber :
                 k < l <=> SymbolOf(k) < SymbolOf(l) \/ (SymbolOf(k) = SymbolOf(l) /\ fromState[k] < fromState[l])
<1> PICK s : s = InOrder(Gotos, GotoOrder) OBVIOUS
<1>1. Built /\ GotosListed /\ ngotos = Len(s) /\ g \in Grammars BY StateZero DEF LalrBuilt, LRBuilt, GotosKnown
<1>2. ngotos \in Nat /\ DOMAIN fromState = GotoNumber /\ DOMAIN toState = GotoNumber BY <1>1, GotoArrays DEF GotoNumber
<1>3. ASSUME NEW k \in GotoNumber
      PROVE  /\ fromState[k] \in DOMAIN states /\ toState[k] \in DOMAIN states /\ fromState[k] \in Nat
             /\ Leads(fromState[k], toState[k])
             /\ SymbolOf(k) \in Vars(g) /\ SymbolOf(k) \in Nat /\ SymbolOf(k) \in Nexts(Itemset(fromState[k]))
  <2>1. fromState[k] \in DOMAIN states /\ Leads(fromState[k], toState[k]) /\ SymbolOf(k) >= g.ntokens
    BY <1>1, <1>2, GotoArrays DEF SymbolOf
  <2>2. fromState[k] \in Nat BY <2>1, StateZero DEF LalrBuilt
  <2>3. /\ toState[k] \in DOMAIN states /\ SymbolOf(k) \in Nexts(Itemset(fromState[k]))
        /\ SymbolOf(k) \in 1 .. g.nsyms - 1
    BY <1>1, <2>1, Transitions DEF SymbolOf
  <2>4. g.ntokens \in Nat /\ g.nsyms \in Nat BY <1>1, SymbolKinds
  <2>5. SymbolOf(k) \in Vars(g) /\ SymbolOf(k) \in Nat BY <2>1, <2>3, <2>4 DEF Vars
  <2> QED BY <2>1, <2>2, <2>3, <2>5
<1>4. \A k, l \in GotoNumber : fromState[k] = fromState[l] /\ SymbolOf(k) = SymbolOf(l) => k = l
  BY <1>1, <1>2, GotoArrays DEF SymbolOf
<1>5. \A k, l \in 1 .. Len(s) : k < l <=> GotoOrder(s[k], s[l])
  <2> PICK L : L = { p \in Gotos \X Gotos : GotoOrder(p[1], p[2]) } OBVIOUS
  <2>1. Sorted(s, Gotos, L) BY <1>1, GotosSorted
  <2>2. \A k \in 1 .. Len(s) : s[k] \in Gotos BY <2>1 DEF Sorted
  <2>3. \A x, y \in Gotos : << x, y >> \in L <=> GotoOrder(x, y) OBVIOUS
  <2> QED BY <2>1, <2>2, <2>3 DEF Sorted
<1>6. ASSUME NEW k \in GotoNumber
      PROVE  k + 1 \in 1 .. Len(s) /\ k \in Nat /\ s[k + 1][1] = SymbolOf(k) /\ s[k + 1][2] = fromState[k]
  <2>1. k + 1 \in 1 .. Len(s) /\ k \in Nat BY <1>1, <1>2 DEF GotoNumber
  <2>2. fromState[k] = s[k + 1][2] /\ toState[k] = s[k + 1][3]
    BY <1>1 DEF GotosListed, GotoNumber
  <2>3. s \in Seq(Gotos) BY <1>1, GotosSorted DEF Sorted
  <2>4. PICK e : e = s[k + 1] OBVIOUS
  <2>5. e \in Gotos BY <2>1, <2>3, <2>4
  <2>6. e = << Accessing(e[3]), e[2], e[3] >> BY <1>1, <2>5, GotoTriples DEF IsGoto
  <2>7. e[1] = Accessing(e[3]) BY <2>6
  <2> QED BY <2>1, <2>2, <2>4, <2>7 DEF SymbolOf
<1>7. ASSUME NEW k \in GotoNumber, NEW l \in GotoNumber
      PROVE  k < l <=> SymbolOf(k) < SymbolOf(l) \/ (SymbolOf(k) = SymbolOf(l) /\ fromState[k] < fromState[l])
  <2>1. k < l <=> k + 1 < l + 1 BY <1>6
  <2>2. k + 1 < l + 1 <=> GotoOrder(s[k + 1], s[l + 1]) BY <1>5, <1>6
  <2> QED BY <1>6, <2>1, <2>2 DEF GotoOrder
<1> QED BY <1>2, <1>3, <1>4, <1>7

(* The goto of the variable after a dot. *)
LEMMA GotoOfItem ==
    ASSUME LalrBuilt, NEW n \in DOMAIN states, NEW r, NEW d, << r, d >> \in Itemset(n), d < Len(Rhs(g, r)),
           Rhs(g, r)[d + 1] \in Vars(g)
    PROVE  \E k \in GotoNumber : fromState[k] = n /\ SymbolOf(k) = Rhs(g, r)[d + 1]
<1>1. Built /\ GotosListed /\ g \in Grammars /\ DOMAIN toState = GotoNumber
  BY StateZero, GotoTable DEF LalrBuilt, LRBuilt, GotosKnown
<1>2. g.ntokens \in Nat /\ g.nsyms \in Nat /\ g.ntokens > 1 BY <1>1, SymbolKinds
<1>3. Rhs(g, r)[d + 1] # 0 /\ Rhs(g, r)[d + 1] >= g.ntokens BY <1>2 DEF Vars
<1>4. Rhs(g, r)[d + 1] \in Nexts(Itemset(n)) BY <1>3, ItemShifted DEF LalrBuilt
<1>5. PICK q : Leads(n, q) /\ Accessing(q) = Rhs(g, r)[d + 1] BY <1>1, <1>4, Transitions
<1>6. PICK k \in DOMAIN toState : fromState[k] = n /\ toState[k] = q BY <1>1, <1>3, <1>5, GotoArrays
<1> QED BY <1>1, <1>5, <1>6 DEF SymbolOf

(* Conversely, the variable is after the dot of an item of the kernel or of
   the closure, and its rules are in the closure. *)
LEMMA ItemOfGoto ==
    ASSUME LalrBuilt, NEW k \in GotoNumber
    PROVE  /\ \E c \in Itemset(fromState[k]) :
                 c = << c[1], c[2] >> /\ c[2] < Len(Rhs(g, c[1])) /\ Rhs(g, c[1])[c[2] + 1] = SymbolOf(k)
           /\ \A r \in RulesOf(g, SymbolOf(k)) : << r, 0 >> \in Itemset(fromState[k])
           /\ SymbolOf(k) # g.ntokens
<1>1. SymbolOf(k) \in Nexts(Itemset(fromState[k])) /\ fromState[k] \in DOMAIN states /\ SymbolOf(k) \in Nat BY GotoTable
<1>2. Itemset(fromState[k]) \in SUBSET ItemsOf(g) /\ g \in Grammars /\ Closed0(g, Itemset(fromState[k]))
  BY <1>1, ItemsetIs DEF LalrBuilt, IsClosure0
<1>3. PICK c \in Itemset(fromState[k]) : NextSymbol(c) = SymbolOf(k) BY <1>1 DEF Nexts
<1>4. c \in ItemsOf(g) /\ NextSymbol(c) >= 0 BY <1>1, <1>2, <1>3
<1>5. c = << c[1], c[2] >> /\ c[1] \in DOMAIN g.rules /\ c[2] \in 0 .. Len(Rhs(g, c[1])) BY <1>2, <1>4, Items0Facts
<1>6. c[2] < Len(Rhs(g, c[1])) /\ Rhs(g, c[1])[c[2] + 1] = SymbolOf(k) BY <1>2, <1>3, <1>4, ItemFacts
<1>7. \A r \in RulesOf(g, SymbolOf(k)) : << r, 0 >> \in Itemset(fromState[k]) BY <1>2, <1>3, <1>6 DEF Closed0, SymbolAfter
<1>8. SymbolOf(k) # g.ntokens
  <2>1. Len(Rhs(g, c[1])) \in Nat BY <1>2, <1>5, SymbolKinds
  <2>2. c[2] + 1 \in 1 .. Len(Rhs(g, c[1])) BY <1>5, <1>6, <2>1
  <2> QED BY <1>2, <1>5, <1>6, <2>2, RuleFacts
<1> QED BY <1>3, <1>5, <1>6, <1>7, <1>8

LEMMA GotoZero ==
    ASSUME LalrBuilt
    PROVE  0 \in GotoNumber /\ fromState[0] = 0 /\ SymbolOf(0) = g.ntokens + 1
<1>1. /\ 0 \in DOMAIN states /\ g \in Grammars /\ states[0].items = { << 2, 0 >> } BY StateZero DEF LalrBuilt
<1>2. << 2, 0 >> \in Itemset(0) BY <1>1, ItemsetIs DEF LalrBuilt, IsClosure0
<1>3. Rhs(g, 2) = << g.ntokens + 1, 0 >> /\ g.rules[2].lhs = g.ntokens /\ 2 \in DOMAIN g.rules BY <1>1, StartFacts
<1>4. Len(Rhs(g, 2)) = 2 /\ Rhs(g, 2)[0 + 1] = g.ntokens + 1 BY <1>3
<1>5. g.ntokens \in Nat /\ g.nsyms \in Nat /\ g.ntokens + 1 < g.nsyms BY <1>1, <1>3, RuleFacts
<1>6. g.ntokens + 1 \in Vars(g) BY <1>5 DEF Vars
<1>7. 0 < Len(Rhs(g, 2)) /\ Rhs(g, 2)[0 + 1] \in Vars(g) BY <1>4, <1>6
<1>8. PICK k \in GotoNumber : fromState[k] = 0 /\ SymbolOf(k) = Rhs(g, 2)[0 + 1] BY <1>1, <1>2, <1>7, GotoOfItem
<1>9. 0 \in GotoNumber /\ k \in Nat BY GotoTable DEF GotoNumber
<1>10. k = 0
  <2> SUFFICES ASSUME 0 < k PROVE FALSE BY <1>9
  <2>1. SymbolOf(0) < SymbolOf(k) \/ (SymbolOf(0) = SymbolOf(k) /\ fromState[0] < fromState[k]) BY <1>9, GotoTable
  <2>2. fromState[0] \in Nat /\ SymbolOf(0) \in Vars(g) BY <1>9, GotoTable
  <2>3. SymbolOf(0) < g.ntokens + 1 BY <1>4, <1>8, <2>1, <2>2
  <2>4. SymbolOf(0) = g.ntokens BY <1>5, <2>2, <2>3 DEF Vars
  <2> QED BY <1>9, <2>4, ItemOfGoto
<1> QED BY <1>4, <1>8, <1>9, <1>10

-----------------------------------------------------------------------------
(* A set of numbers that has no gap is counted by its end. *)
LEMMA NoGap ==
    ASSUME NEW n \in Nat, NEW S \in SUBSET (0 .. n - 1), \A k \in S : \A l \in 0 .. n - 1 : l < k => l \in S
    PROVE  Cardinality(S) \in 0 .. n /\ S = 0 .. Cardinality(S) - 1
<1> DEFINE Out == (0 .. n) \ S
<1>1. Out \in SUBSET Nat /\ n \in Out OBVIOUS
<1> HIDE DEF Out
<1>2. PICK m \in Out : \A x \in Out : m <= x BY <1>1, LeastExists
<1>3. m \in 0 .. n /\ m \notin S BY <1>2 DEF Out
<1>4. \A l \in 0 .. m - 1 : l \in S
  <2> SUFFICES ASSUME NEW l \in 0 .. m - 1, l \notin S PROVE FALSE OBVIOUS
  <2>1. l \in Out BY <1>3 DEF Out
  <2>2. m <= l BY <1>2, <2>1
  <2> QED BY <1>3, <2>2
<1>5. \A k \in S : k \in 0 .. m - 1
  <2> SUFFICES ASSUME NEW k \in S, ~(k < m) PROVE FALSE BY <1>3
  <2>1. m \in 0 .. n - 1 /\ m # k /\ m < k BY <1>3
  <2> QED BY <1>3, <2>1
<1>6. S = 0 .. m - 1 BY <1>4, <1>5
<1>7. Cardinality(S) = m
  <2>1. m - 1 \in Int BY <1>3
  <2> QED BY <1>3, <1>6, <2>1, FS_Interval
<1> QED BY <1>3, <1>6, <1>7

LEMMA GotoMapIs ==
    ASSUME LalrBuilt, NEW x \in Int
    PROVE  gotoMap(x) \in 0 .. ngotos /\ \A k \in GotoNumber : SymbolOf(k) < x <=> k < gotoMap(x)
<1> DEFINE S == { k \in GotoNumber : SymbolOf(k) < x }
<1>1. ngotos \in Nat BY GotoTable
<1>2. S \in SUBSET (0 .. ngotos - 1) BY DEF GotoNumber
<1>3. ASSUME NEW k \in S, NEW l \in 0 .. ngotos - 1, l < k PROVE l \in S
  <2>1. k \in GotoNumber /\ l \in GotoNumber /\ SymbolOf(k) < x BY <1>3 DEF GotoNumber
  <2>2. SymbolOf(l) \in Nat /\ SymbolOf(k) \in Nat BY <2>1, GotoTable
  <2>3. SymbolOf(l) < SymbolOf(k) \/ (SymbolOf(l) = SymbolOf(k) /\ fromState[l] < fromState[k])
    BY <1>3, <2>1, GotoTable
  <2> QED BY <2>1, <2>2, <2>3
<1>4. gotoMap(x) = Cardinality(S) BY DEF gotoMap, SymbolOf, Accessing, AccessingSymbol, GotoNumber
<1>5. \A k \in GotoNumber : SymbolOf(k) < x <=> k \in S OBVIOUS
<1> HIDE DEF S
<1>6. Cardinality(S) \in 0 .. ngotos /\ S = 0 .. Cardinality(S) - 1 BY <1>1, <1>2, <1>3, NoGap
<1>7. \A k \in GotoNumber : k \in S <=> k < Cardinality(S) BY <1>1, <1>6 DEF GotoNumber
<1> QED BY <1>4, <1>5, <1>6, <1>7

-----------------------------------------------------------------------------
(* map_goto(): the search ends at the goto that is looked for. *)
Middle(c) == (c[1] + c[2]) \div 2

LEMMA MiddleFacts ==
    ASSUME NEW c \in Int \X Int, c[1] <= c[2]
    PROVE  /\ Middle(c) \in Int /\ c[1] <= Middle(c) /\ Middle(c) <= c[2]
           /\ c[1] < c[2] => Middle(c) < c[2]
<1>1. PICK a \in Int, b \in Int : a = c[1] /\ b = c[2] OBVIOUS
<1>2. PICK m : m = (a + b) \div 2 OBVIOUS
<1>3. m \in Int /\ 2 * m <= a + b /\ a + b < 2 * m + 2 BY <1>1, <1>2
<1>4. a <= m /\ m <= b /\ (a < b => m < b) BY <1>1, <1>3
<1> QED BY <1>1, <1>2, <1>3, <1>4 DEF Middle

Searches(f, state) ==
    \A c \in Int \X Int :
        f[c] = IF c[1] > c[2] THEN -1
               ELSE IF fromState[Middle(c)] = state THEN Middle(c)
               ELSE IF fromState[Middle(c)] < state THEN f[<< Middle(c) + 1, c[2] >>]
               ELSE f[<< c[1], Middle(c) - 1 >>]

LEMMA SearchExists ==
    ASSUME NEW state, NEW x
    PROVE  \E f : Searches(f, state) /\ MapGoto(state, x) = f[<< gotoMap(x), gotoMap(x + 1) >>]
<1> DEFINE U == Int \X Int
           stop == { c \in U : c[1] > c[2] \/ fromState[Middle(c)] = state }
           val == [c \in U |-> IF c[1] > c[2] THEN -1 ELSE Middle(c)]
           next == [c \in U |-> IF fromState[Middle(c)] < state THEN << Middle(c) + 1, c[2] >>
                                ELSE << c[1], Middle(c) - 1 >>]
           Is(h) == h = [c \in Int \X Int |->
                            IF c[1] > c[2] THEN -1
                            ELSE IF fromState[(c[1] + c[2]) \div 2] = state THEN (c[1] + c[2]) \div 2
                            ELSE IF fromState[(c[1] + c[2]) \div 2] < state
                                 THEN h[<< (c[1] + c[2]) \div 2 + 1, c[2] >>]
                            ELSE h[<< c[1], (c[1] + c[2]) \div 2 - 1 >>]]
<1>1. \A c \in U : Middle(c) \in Int /\ c[1] \in Int /\ c[2] \in Int BY DEF Middle
<1>2. next \in [U -> U]
  <2>1. ASSUME NEW c \in U PROVE << Middle(c) + 1, c[2] >> \in U /\ << c[1], Middle(c) - 1 >> \in U
    BY <1>1
  <2> HIDE DEF U
  <2> QED BY <2>1
<1>3. ASSUME NEW h PROVE Is(h) <=> Loops(h, U, stop, val, next)
  <2>1. \A c \in U : /\ c \in stop <=> c[1] > c[2] \/ fromState[Middle(c)] = state
                     /\ val[c] = IF c[1] > c[2] THEN -1 ELSE Middle(c)
                     /\ next[c] = IF fromState[Middle(c)] < state THEN << Middle(c) + 1, c[2] >>
                                  ELSE << c[1], Middle(c) - 1 >>
    <3> HIDE DEF U
    <3> QED OBVIOUS
  <2>2. Is(h) <=> h = [c \in U |->
                            IF c[1] > c[2] THEN -1
                            ELSE IF fromState[Middle(c)] = state THEN Middle(c)
                            ELSE IF fromState[Middle(c)] < state THEN h[<< Middle(c) + 1, c[2] >>]
                            ELSE h[<< c[1], Middle(c) - 1 >>]]
    BY DEF Middle
  <2> HIDE DEF stop, val, next, U, Is
  <2>3. [c \in U |-> IF c[1] > c[2] THEN -1
                     ELSE IF fromState[Middle(c)] = state THEN Middle(c)
                     ELSE IF fromState[Middle(c)] < state THEN h[<< Middle(c) + 1, c[2] >>]
                     ELSE h[<< c[1], Middle(c) - 1 >>]]
        = [c \in U |-> IF c \in stop THEN val[c] ELSE h[next[c]]]
    BY <2>1
  <2> QED BY <2>2, <2>3 DEF Loops
<1>4. PICK f : f = CHOOSE h : Is(h)
  <2> HIDE DEF Is
  <2> QED OBVIOUS
<1>5. Is(f)
  <2> HIDE DEF Is, stop, val, next, U
  <2>1. \E h : Loops(h, U, stop, val, next) BY <1>2, LoopExists
  <2> QED BY <1>3, <1>4, <2>1
<1>6. MapGoto(state, x) = f[<< gotoMap(x), gotoMap(x + 1) >>] BY <1>4 DEF MapGoto
<1>7. Searches(f, state)
  <2>1. f = [c \in U |-> IF c[1] > c[2] THEN -1
                     ELSE IF fromState[Middle(c)] = state THEN Middle(c)
                     ELSE IF fromState[Middle(c)] < state THEN f[<< Middle(c) + 1, c[2] >>]
                     ELSE f[<< c[1], Middle(c) - 1 >>]]
    BY <1>5 DEF Middle
  <2> HIDE DEF Is
  <2>2. \A c \in U : f[c] = IF c[1] > c[2] THEN -1
                     ELSE IF fromState[Middle(c)] = state THEN Middle(c)
                     ELSE IF fromState[Middle(c)] < state THEN f[<< Middle(c) + 1, c[2] >>]
                     ELSE f[<< c[1], Middle(c) - 1 >>]
    <3> HIDE DEF U
    <3> QED BY <2>1
  <2> QED BY <2>2 DEF Searches
<1> QED BY <1>6, <1>7

LEMMA MapGotoIs ==
    ASSUME LalrBuilt, NEW k \in GotoNumber
    PROVE  MapGoto(fromState[k], SymbolOf(k)) = k
<1>1. PICK state, x, a, b : state = fromState[k] /\ x = SymbolOf(k) /\ a = gotoMap(x) /\ b = gotoMap(x + 1) OBVIOUS
<1>2. PICK f : Searches(f, state) /\ MapGoto(state, x) = f[<< a, b >>] BY <1>1, SearchExists
<1>3. x \in Nat /\ state \in Nat /\ ngotos \in Nat /\ k \in Nat BY <1>1, GotoTable DEF GotoNumber
<1>4. /\ a \in Nat /\ b \in 0 .. ngotos
      /\ \A l \in GotoNumber : (SymbolOf(l) < x <=> l < a) /\ (SymbolOf(l) < x + 1 <=> l < b)
  BY <1>1, <1>3, GotoMapIs
<1>5. a <= k /\ k < b
  <2>1. ~(SymbolOf(k) < x) /\ SymbolOf(k) < x + 1 BY <1>1, <1>3
  <2> QED BY <1>3, <1>4, <2>1
<1>6. ASSUME NEW m \in Int, a <= m, m < b
      PROVE  /\ fromState[m] = state => m = k
             /\ fromState[m] < state <=> m < k
             /\ fromState[m] \in Nat
  <2>1. m \in GotoNumber BY <1>3, <1>4, <1>6 DEF GotoNumber
  <2>2. ~(SymbolOf(m) < x) /\ SymbolOf(m) < x + 1 /\ SymbolOf(m) \in Nat /\ fromState[m] \in Nat BY <1>4, <1>6, <2>1, GotoTable
  <2>3. SymbolOf(m) = x BY <1>3, <2>2
  <2>4. fromState[m] = state => m = k BY <1>1, <2>1, <2>3, GotoTable
  <2>5. m < k <=> SymbolOf(m) < SymbolOf(k) \/ (SymbolOf(m) = SymbolOf(k) /\ fromState[m] < fromState[k])
    BY <2>1, GotoTable
  <2> QED BY <1>1, <1>3, <2>2, <2>3, <2>4, <2>5
<1> DEFINE In(c) == c \in Int \X Int /\ a <= c[1] /\ c[1] <= k /\ k <= c[2] /\ c[2] <= b
           Bad == { c \in Int \X Int : In(c) /\ f[c] # k }
           Widths == { c[2] - c[1] : c \in Bad }
<1>7. ASSUME NEW c \in Bad PROVE \E e \in Bad : e[2] - e[1] < c[2] - c[1]
  <2>1. c \in Int \X Int /\ In(c) /\ f[c] # k OBVIOUS
  <2>2. PICK m, low, high : m = Middle(c) /\ low = c[1] /\ high = c[2] OBVIOUS
  <2>3. low \in Int /\ high \in Int /\ a <= low /\ low <= k /\ k <= high /\ high <= b BY <2>1, <2>2
  <2>4. m \in Int /\ low <= m /\ m <= high /\ (low < high => m < high) BY <1>3, <2>1, <2>2, <2>3, MiddleFacts
  <2>5. m < b /\ a <= m BY <1>3, <1>4, <1>5, <2>3, <2>4
  <2>6. f[c] = IF fromState[m] = state THEN m
               ELSE IF fromState[m] < state THEN f[<< m + 1, high >>] ELSE f[<< low, m - 1 >>]
    <3>1. ~(c[1] > c[2]) BY <1>3, <2>2, <2>3
    <3> HIDE DEF In, Bad, Widths
    <3> QED BY <1>2, <2>1, <2>2, <3>1 DEF Searches
  <2>7. fromState[m] # state BY <1>6, <2>1, <2>4, <2>5, <2>6
  <2>8. m # k BY <1>1, <2>7
  <2>9. CASE m < k
    <3>1. f[c] = f[<< m + 1, high >>] BY <1>6, <2>4, <2>5, <2>6, <2>7, <2>9
    <3>2. PICK e : e = << m + 1, high >> OBVIOUS
    <3>3. e \in Int \X Int /\ e[1] = m + 1 /\ e[2] = high BY <2>3, <2>4, <3>2
    <3>4. In(e) BY <1>3, <1>4, <2>3, <2>4, <2>9, <3>3
    <3>5. e \in Bad BY <2>1, <3>1, <3>2, <3>3, <3>4
    <3>6. e[2] - e[1] < c[2] - c[1] BY <2>2, <2>3, <2>4, <3>3
    <3> QED BY <3>5, <3>6
  <2>10. CASE k < m
    <3>1. f[c] = f[<< low, m - 1 >>] BY <1>3, <1>6, <2>4, <2>5, <2>6, <2>7, <2>10
    <3>2. PICK e : e = << low, m - 1 >> OBVIOUS
    <3>3. e \in Int \X Int /\ e[1] = low /\ e[2] = m - 1 BY <2>3, <2>4, <3>2
    <3>4. In(e) BY <1>3, <1>4, <2>3, <2>4, <2>10, <3>3
    <3>5. e \in Bad BY <2>1, <3>1, <3>2, <3>3, <3>4
    <3>6. e[2] - e[1] < c[2] - c[1] BY <2>2, <2>3, <2>4, <3>3
    <3> QED BY <3>5, <3>6
  <2> QED BY <1>3, <2>4, <2>8, <2>9, <2>10
<1>8. Bad = {}
  <2> SUFFICES ASSUME Bad # {} PROVE FALSE OBVIOUS
  <2>1. \A c \in Bad : c[1] \in Int /\ c[2] \in Int /\ c[2] - c[1] \in Nat
    <3> SUFFICES ASSUME NEW c \in Bad PROVE c[1] \in Int /\ c[2] \in Int /\ c[2] - c[1] \in Nat OBVIOUS
    <3>1. c \in Int \X Int /\ c[1] <= k /\ k <= c[2] OBVIOUS
    <3> QED BY <1>3, <3>1
  <2> HIDE DEF Bad, In
  <2>2. Widths \in SUBSET Nat /\ Widths # {} BY <2>1
  <2>3. PICK m \in Widths : \A n \in Widths : m <= n
    <3> HIDE DEF Widths
    <3> QED BY <2>2, LeastExists
  <2>4. PICK c \in Bad : m = c[2] - c[1] BY <2>3
  <2>5. PICK e \in Bad : e[2] - e[1] < c[2] - c[1] BY <1>7, <2>4
  <2>6. e[2] - e[1] \in Widths BY <2>5
  <2>7. m <= e[2] - e[1] /\ e[2] - e[1] \in Nat /\ c[2] - c[1] \in Nat BY <2>1, <2>3, <2>6
  <2> QED BY <2>4, <2>5, <2>7
<1>9. In(<< a, b >>) BY <1>3, <1>4, <1>5
<1>10. f[<< a, b >>] = k
  <2>1. << a, b >> \in Int \X Int BY <1>4
  <2> QED BY <1>8, <1>9, <2>1
<1> QED BY <1>1, <1>2, <1>10

-----------------------------------------------------------------------------
(* The members of a sequence of sequences. *)
LEMMA FlattenFacts ==
    ASSUME NEW S, NEW ss \in Seq(Seq(S))
    PROVE  /\ FlattenSeq(ss) \in Seq(S) /\ Len(FlattenSeq(ss)) \in Nat
           /\ \A v : (\E e \in 1 .. Len(FlattenSeq(ss)) : FlattenSeq(ss)[e] = v)
                        <=> \E d \in 1 .. Len(ss) : \E e \in 1 .. Len(ss[d]) : ss[d][e] = v
<1> PICK m : m = Len(ss) OBVIOUS
<1>0. m \in Nat /\ \A d \in 1 .. m : ss[d] \in Seq(S) /\ Len(ss[d]) \in Nat OBVIOUS
<1>a. CASE m = 0
  <2>1. ss = << >> /\ Len(ss) = 0 BY <1>a, EmptySeq
  <2>2. FlattenSeq(ss) = << >> BY <2>1 DEF FlattenSeq
  <2>3. << >> \in Seq(S) /\ Len(<< >>) = 0 OBVIOUS
  <2>4. 1 .. Len(FlattenSeq(ss)) = {} /\ 1 .. Len(ss) = {} BY <2>1, <2>2, <2>3
  <2> QED BY <2>2, <2>3, <2>4
<1>b. CASE m # 0
  <2>0. m \in 1 .. m /\ m - 1 \in Nat BY <1>0, <1>b
  <2> DEFINE step == [x \in (1 .. m - 1) \X Seq(S) |-> x[2] \o ss[x[1] + 1]]
             Is(f) == f = [k \in 1 .. m |-> IF k = 1 THEN ss[k] ELSE f[k - 1] \o ss[k]]
  <2>1. step \in [(1 .. m - 1) \X Seq(S) -> Seq(S)]
    <3> SUFFICES ASSUME NEW x \in (1 .. m - 1) \X Seq(S) PROVE x[2] \o ss[x[1] + 1] \in Seq(S) OBVIOUS
    <3>1. x[1] + 1 \in 1 .. m /\ x[2] \in Seq(S) BY <1>0
    <3> QED BY <1>0, <3>1, JoinFacts
  <2>2. PICK e \in [0 .. m - 1 -> Seq(S)] : Computes(e, ss[1], m - 1, step)
    <3>1. ss[1] \in Seq(S) BY <1>0, <2>0
    <3> HIDE DEF step
    <3> QED BY <2>0, <2>1, <3>1, RecursionExists
  <2>3. \E f : Is(f)
    <3> PICK h : h = [k \in 1 .. m |-> e[k - 1]] OBVIOUS
    <3>1. ASSUME NEW k \in 1 .. m PROVE h[k] = IF k = 1 THEN ss[k] ELSE h[k - 1] \o ss[k]
      <4>1. CASE k = 1
        <5>1. e[0] = ss[1] BY <2>2 DEF Computes
        <5> QED BY <4>1, <5>1
      <4>2. CASE k # 1
        <5>1. k - 1 \in 1 .. m - 1 /\ k - 1 \in 1 .. m /\ k - 1 - 1 = k - 2 /\ k - 1 + 1 = k /\ k - 2 \in 0 .. m - 1
          BY <1>0, <4>2
        <5>2. e[k - 1] = step[<< k - 1, e[k - 2] >>] /\ e[k - 2] \in Seq(S) BY <2>2, <5>1 DEF Computes
        <5>3. e[k - 1] = e[k - 2] \o ss[k] BY <5>1, <5>2
        <5> HIDE DEF step
        <5> QED BY <4>2, <5>1, <5>3
      <4> QED BY <4>1, <4>2
    <3>2. h = [k \in 1 .. m |-> h[k]] OBVIOUS
    <3>3. [k \in 1 .. m |-> h[k]] = [k \in 1 .. m |-> IF k = 1 THEN ss[k] ELSE h[k - 1] \o ss[k]] BY <3>1
    <3>4. Is(h) BY <3>2, <3>3
    <3> HIDE DEF Is
    <3> QED BY <3>4
  <2>4. PICK f : f = CHOOSE x : Is(x)
    <3> HIDE DEF Is
    <3> QED OBVIOUS
  <2>5. Is(f)
    <3> HIDE DEF Is
    <3> QED BY <2>3, <2>4
  <2>6. FlattenSeq(ss) = f[m]
    <3>1. ~(Len(ss) = 0) BY <1>b
    <3> QED BY <2>4, <3>1 DEF FlattenSeq
  <2>7. f[1] = ss[1] /\ \A k \in 1 .. m : k # 1 => f[k] = f[k - 1] \o ss[k]
    <3>1. \A k \in 1 .. m : f[k] = IF k = 1 THEN ss[k] ELSE f[k - 1] \o ss[k]
      <4>1. f = [k \in 1 .. m |-> IF k = 1 THEN ss[k] ELSE f[k - 1] \o ss[k]] BY <2>5
      <4> HIDE DEF Is
      <4> QED BY <4>1
    <3> HIDE DEF Is
    <3>2. 1 \in 1 .. m BY <1>0, <1>b
    <3> QED BY <3>1, <3>2
  <2> HIDE DEF Is
  <2> DEFINE Holds(k) == /\ f[k] \in Seq(S)
                         /\ \A v : (\E d \in 1 .. Len(f[k]) : f[k][d] = v)
                               <=> \E c \in 1 .. k : \E d \in 1 .. Len(ss[c]) : ss[c][d] = v
             Bad == { k \in 1 .. m : ~Holds(k) }
  <2>8. Bad = {}
    <3> SUFFICES ASSUME Bad # {} PROVE FALSE OBVIOUS
    <3>1. Bad \in SUBSET Nat OBVIOUS
    <3>2. PICK k \in Bad : \A x \in Bad : k <= x
      <4> HIDE DEF Bad
      <4> QED BY <3>1, LeastExists
    <3>3. k \in 1 .. m /\ ~Holds(k) OBVIOUS
    <3>4. k # 1
      <4> SUFFICES ASSUME k = 1 PROVE FALSE OBVIOUS
      <4>1. f[1] = ss[1] /\ ss[1] \in Seq(S) /\ \A c \in 1 .. 1 : c = 1 BY <1>0, <2>0, <2>7
      <4>2. 1 \in 1 .. 1 OBVIOUS
      <4>3. Holds(1)
        <5> HIDE DEF Bad
        <5> QED BY <4>1, <4>2
      <4> QED BY <3>3, <4>3
    <3>5. PICK l : l = k - 1 OBVIOUS
    <3>6. l \in 1 .. m /\ l \in Nat /\ k = l + 1 /\ ~(k <= l) BY <3>3, <3>4, <3>5
    <3>7. Holds(l)
      <4>1. l \notin Bad
        <5> HIDE DEF Bad
        <5> QED BY <3>2, <3>6
      <4>2. ~Holds(l) => l \in Bad
        <5> HIDE DEF Holds
        <5> QED BY <3>6
      <4> QED BY <4>1, <4>2
    <3>8. PICK u, w : u = f[l] /\ w = ss[k] OBVIOUS
    <3>9. u \in Seq(S) /\ w \in Seq(S) /\ f[k] = u \o w BY <1>0, <2>7, <3>3, <3>4, <3>5, <3>7, <3>8
    <3>10. /\ u \o w \in Seq(S) /\ Len(u \o w) = Len(u) + Len(w) /\ Len(u) \in Nat /\ Len(w) \in Nat
           /\ \A q \in 1 .. Len(u) : (u \o w)[q] = u[q]
           /\ \A q \in 1 .. Len(w) : (u \o w)[Len(u) + q] = w[q]
      BY <3>9, JoinFacts
    <3> PICK z : z = u \o w OBVIOUS
    <3>11. ASSUME NEW v, NEW d \in 1 .. Len(z), z[d] = v
           PROVE  \E c \in 1 .. k : \E x \in 1 .. Len(ss[c]) : ss[c][x] = v
      <4>1. CASE d <= Len(u)
        <5>1. d \in 1 .. Len(f[l]) /\ f[l][d] = v BY <3>8, <3>10, <3>11, <4>1
        <5>2. PICK c \in 1 .. l : \E x \in 1 .. Len(ss[c]) : ss[c][x] = v BY <3>7, <5>1
        <5>3. c \in 1 .. k BY <3>6
        <5> HIDE DEF Holds, Bad
        <5> QED BY <5>2, <5>3
      <4>2. CASE d > Len(u)
        <5>1. d - Len(u) \in 1 .. Len(w) /\ Len(u) + (d - Len(u)) = d BY <3>10, <4>2
        <5>2. w[d - Len(u)] = v BY <3>10, <3>11, <5>1
        <5>3. k \in 1 .. k BY <3>3
        <5> HIDE DEF Holds, Bad
        <5> QED BY <3>8, <5>1, <5>2, <5>3
      <4> QED BY <3>10, <4>1, <4>2
    <3>12. ASSUME NEW v, NEW c \in 1 .. k, NEW x \in 1 .. Len(ss[c]), ss[c][x] = v
           PROVE  \E d \in 1 .. Len(z) : z[d] = v
      <4>1. CASE c = k
        <5>1. x \in 1 .. Len(w) /\ w[x] = v BY <3>8, <3>12, <4>1
        <5>2. Len(u) + x \in 1 .. Len(z) /\ z[Len(u) + x] = v BY <3>10, <5>1
        <5> HIDE DEF Holds, Bad
        <5> QED BY <5>2
      <4>2. CASE c # k
        <5>1. c \in 1 .. l BY <3>6, <4>2
        <5>2. PICK d \in 1 .. Len(f[l]) : f[l][d] = v BY <3>7, <3>12, <5>1
        <5>3. d \in 1 .. Len(u) /\ u[d] = v BY <3>8, <5>2
        <5>4. d \in 1 .. Len(z) /\ z[d] = v BY <3>10, <5>3
        <5> HIDE DEF Holds, Bad
        <5> QED BY <5>4
      <4> QED BY <4>1, <4>2
    <3>13. Holds(k)
      <4> HIDE DEF Bad
      <4>1. f[k] = z /\ z \in Seq(S) BY <3>9, <3>10
      <4>2. \A v : (\E d \in 1 .. Len(z) : z[d] = v)
                     <=> \E c \in 1 .. k : \E d \in 1 .. Len(ss[c]) : ss[c][d] = v
        <5> HIDE DEF Holds
        <5> QED BY <3>11, <3>12
      <4> QED BY <4>1, <4>2
    <3> QED BY <3>3, <3>13
  <2>9. Holds(m)
    <3>1. m \notin Bad BY <2>8
    <3> HIDE DEF Holds
    <3> QED BY <2>0, <3>1
  <2>10. PICK z : z = FlattenSeq(ss) OBVIOUS
  <2>11. z = f[m] BY <2>6, <2>10
  <2>12. z \in Seq(S) BY <2>9, <2>11
  <2>13. Len(z) \in Nat BY <2>12
  <2>14. \A v : (\E d \in 1 .. Len(z) : z[d] = v) <=> \E c \in 1 .. m : \E d \in 1 .. Len(ss[c]) : ss[c][d] = v
    BY <2>9, <2>11
  <2> HIDE DEF Holds, Bad
  <2> QED BY <2>10, <2>12, <2>13, <2>14
<1> QED BY <1>0, <1>a, <1>b

-----------------------------------------------------------------------------
(* What is shifted from a state, in order. *)
LEMMA ShiftsAre ==
    ASSUME LRBuilt, NEW n \in DOMAIN states
    PROVE  /\ Len(shift[n]) \in Nat /\ DOMAIN Shifts(n) = 1 .. Len(shift[n])
           /\ \A k \in 1 .. Len(shift[n]) :
                 /\ Shifts(n)[k] = Accessing(shift[n][k]) /\ Leads(n, shift[n][k])
                 /\ Shifts(n)[k] \in Nexts(Itemset(n)) /\ Shifts(n)[k] \in 1 .. g.nsyms - 1
           /\ \A k, l \in 1 .. Len(shift[n]) : k < l <=> Shifts(n)[k] < Shifts(n)[l]
           /\ \A x \in Nexts(Itemset(n)) : \E k \in 1 .. Len(shift[n]) : Shifts(n)[k] = x
<1>1. DOMAIN Shifts(n) = 1 .. Len(shift[n]) /\ \A k \in 1 .. Len(shift[n]) : Shifts(n)[k] = Accessing(shift[n][k])
  BY DEF Shifts, AccessingSymbol, Accessing
<1>2. /\ Len(shift[n]) \in Nat
      /\ \A k \in 1 .. Len(shift[n]) : Leads(n, shift[n][k])
      /\ \A q : Leads(n, q) => Accessing(q) \in Nexts(Itemset(n)) /\ Accessing(q) \in 1 .. g.nsyms - 1
      /\ \A k, l \in 1 .. Len(shift[n]) : k < l <=> Accessing(shift[n][k]) < Accessing(shift[n][l])
      /\ \A x \in Nexts(Itemset(n)) : \E q : Leads(n, q) /\ Accessing(q) = x
  BY Transitions DEF LRBuilt
<1>3. \A x \in Nexts(Itemset(n)) : \E k \in 1 .. Len(shift[n]) : Shifts(n)[k] = x
  BY <1>1, <1>2 DEF Leads
<1> QED BY <1>1, <1>2, <1>3

LEMMA DirectReadsIs ==
    ASSUME LRBuilt, NEW n \in DOMAIN states
    PROVE  DirectReads(n) = { x \in Nexts(Itemset(n)) : x < g.ntokens }
<1>0. g.ntokens \in Nat BY StateZero, SymbolKinds
<1> PICK s, m : s = Shifts(n) /\ m = Len(shift[n]) OBVIOUS
<1>1. /\ m \in Nat /\ \A k \in 1 .. m : s[k] \in Nexts(Itemset(n)) /\ s[k] \in Nat
      /\ \A k, l \in 1 .. m : k < l <=> s[k] < s[l]
      /\ \A x \in Nexts(Itemset(n)) : \E k \in 1 .. m : s[k] = x
  BY ShiftsAre
<1>2. DirectReads(n) = { s[k] : k \in { j \in 1 .. m : \A l \in 1 .. j : s[l] < g.ntokens } }
  BY DEF DirectReads, ISTOKEN, start_symbol
<1>3. ASSUME NEW x \in DirectReads(n) PROVE x \in Nexts(Itemset(n)) /\ x < g.ntokens
  <2>1. PICK k \in 1 .. m : x = s[k] /\ \A l \in 1 .. k : s[l] < g.ntokens BY <1>2
  <2>2. k \in 1 .. k BY <1>1
  <2> QED BY <1>1, <2>1, <2>2
<1>4. ASSUME NEW x \in Nexts(Itemset(n)), x < g.ntokens PROVE x \in DirectReads(n)
  <2>1. PICK k \in 1 .. m : s[k] = x BY <1>1
  <2>2. ASSUME NEW l \in 1 .. k PROVE s[l] < g.ntokens
    <3>1. l \in 1 .. m /\ (l < k \/ l = k) BY <1>1
    <3>2. s[l] < s[k] \/ s[l] = s[k] BY <1>1, <3>1
    <3>3. s[l] \in Nat /\ s[k] \in Nat BY <1>1, <3>1
    <3> QED BY <1>0, <1>4, <2>1, <3>2, <3>3
  <2> QED BY <1>2, <2>1, <2>2
<1> QED BY <1>3, <1>4

LEMMA NullableShiftsIs ==
    ASSUME LRBuilt, NEW n \in DOMAIN states
    PROVE  /\ Len(NullableShifts(n)) \in Nat /\ DOMAIN NullableShifts(n) = 1 .. Len(NullableShifts(n))
           /\ \A e \in 1 .. Len(NullableShifts(n)) :
                 NullableShifts(n)[e] \in Nexts(Itemset(n)) /\ NullableShifts(n)[e] \in Ns(g)
           /\ \A x \in Nexts(Itemset(n)) : x \in Ns(g) =>
                 \E e \in 1 .. Len(NullableShifts(n)) : NullableShifts(n)[e] = x
<1>0. g.ntokens \in Nat /\ nullable = Ns(g) /\ Ns(g) \in SUBSET Vars(g)
  BY StateZero, SymbolKinds, NullableFacts DEF LRBuilt, StatesMore, TablesOK, Ns
<1> PICK s, m : s = Shifts(n) /\ m = Len(shift[n]) OBVIOUS
<1>1. /\ m \in Nat /\ \A k \in 1 .. m : s[k] \in Nexts(Itemset(n)) /\ s[k] \in Nat
      /\ \A x \in Nexts(Itemset(n)) : \E k \in 1 .. m : s[k] = x
  BY ShiftsAre
<1> DEFINE Kept == { k \in 1 .. m : ~ISTOKEN(s[k]) /\ s[k] \in nullable }
<1>2. PICK kept : kept = InOrder(Kept, <) OBVIOUS
<1>3. Increasing(kept, Kept)
  <2>1. IsFiniteSet(1 .. m) BY <1>1, FS_Interval
  <2>2. IsFiniteSet(Kept) BY <2>1, FS_Subset
  <2>3. \A x \in Kept : x \in Int OBVIOUS
  <2> HIDE DEF Kept
  <2> QED BY <1>2, <2>2, <2>3, NumbersInOrder
<1>4. Len(kept) \in Nat /\ DOMAIN kept = 1 .. Len(kept) BY <1>3 DEF Increasing
<1>5. NullableShifts(n) = [e \in 1 .. Len(kept) |-> s[kept[e]]] BY <1>2, <1>4 DEF NullableShifts
<1>6. Len(NullableShifts(n)) = Len(kept) /\ DOMAIN NullableShifts(n) = 1 .. Len(kept) BY <1>4, <1>5
<1>7. ASSUME NEW e \in 1 .. Len(kept) PROVE NullableShifts(n)[e] \in Nexts(Itemset(n)) /\ NullableShifts(n)[e] \in Ns(g)
  <2>1. kept[e] \in Kept BY <1>3 DEF Increasing
  <2>2. NullableShifts(n)[e] = s[kept[e]] BY <1>5
  <2> QED BY <1>0, <1>1, <2>1, <2>2
<1>8. ASSUME NEW x \in Nexts(Itemset(n)), x \in Ns(g) PROVE \E e \in 1 .. Len(kept) : NullableShifts(n)[e] = x
  <2>1. PICK k \in 1 .. m : s[k] = x BY <1>1
  <2>2. x >= g.ntokens BY <1>0, <1>8 DEF Vars
  <2>3. ~ISTOKEN(s[k]) BY <1>0, <1>1, <2>1, <2>2 DEF ISTOKEN, start_symbol
  <2>4. k \in Kept BY <1>0, <1>8, <2>1, <2>3
  <2>5. PICK e \in 1 .. Len(kept) : kept[e] = k
    <3> HIDE DEF Kept
    <3> QED BY <1>3, <2>4 DEF Increasing
  <2> QED BY <1>5, <2>1, <2>5
<1> QED BY <1>4, <1>6, <1>7, <1>8

-----------------------------------------------------------------------------
(***************************************************************************)
(* The relations that digraph() is called with.                            *)
(***************************************************************************)
Listed(s, v) == \E e \in 1 .. Len(s) : s[e] = v

ReadsOf(k) ==
    [e \in DOMAIN NullableShifts(toState[k]) |-> MapGoto(toState[k], NullableShifts(toState[k])[e])]

(* Goto l reads what is read after goto k and l: l leaves where k ends. *)
Reads(k, l) == fromState[l] = toState[k] /\ SymbolOf(l) \in Ns(g)

LEMMA ReadsIs ==
    ASSUME LalrBuilt, NEW k \in GotoNumber
    PROVE  /\ ReadsOf(k) \in Seq(GotoNumber)
           /\ \A l \in GotoNumber : Listed(ReadsOf(k), l) <=> Reads(k, l)
<1> PICK n, s, m : n = toState[k] /\ s = NullableShifts(n) /\ m = Len(s) OBVIOUS
<1>1. n \in DOMAIN states BY GotoTable
<1>2. /\ m \in Nat /\ DOMAIN s = 1 .. m
      /\ \A e \in 1 .. m : s[e] \in Nexts(Itemset(n)) /\ s[e] \in Ns(g)
      /\ \A x \in Nexts(Itemset(n)) : x \in Ns(g) => \E e \in 1 .. m : s[e] = x
  BY <1>1, NullableShiftsIs DEF LalrBuilt
<1>3. ReadsOf(k) = [e \in 1 .. m |-> MapGoto(n, s[e])] BY <1>2 DEF ReadsOf
<1>4. ASSUME NEW e \in 1 .. m
      PROVE  \E l \in GotoNumber : MapGoto(n, s[e]) = l /\ fromState[l] = n /\ SymbolOf(l) = s[e]
  <2>1. s[e] \in Nexts(Itemset(n)) /\ s[e] \in Vars(g) /\ g.ntokens \in Nat
    BY <1>2, StateZero, SymbolKinds, NullableFacts DEF LalrBuilt, Ns
  <2>2. Built /\ GotosListed /\ DOMAIN toState = GotoNumber BY GotoTable DEF LalrBuilt, LRBuilt, GotosKnown
  <2>3. PICK q : Leads(n, q) /\ Accessing(q) = s[e] BY <1>1, <2>1, <2>2, Transitions
  <2>4. Accessing(q) >= g.ntokens BY <2>1, <2>3 DEF Vars
  <2>5. PICK l \in GotoNumber : fromState[l] = n /\ toState[l] = q BY <1>1, <2>2, <2>3, <2>4, GotoArrays
  <2>6. SymbolOf(l) = s[e] BY <2>3, <2>5 DEF SymbolOf
  <2>7. MapGoto(fromState[l], SymbolOf(l)) = l BY MapGotoIs
  <2> QED BY <2>5, <2>6, <2>7
<1>5. ReadsOf(k) \in Seq(GotoNumber) /\ Len(ReadsOf(k)) = m
  <2>1. \A e \in 1 .. m : MapGoto(n, s[e]) \in GotoNumber BY <1>4
  <2> QED BY <1>2, <1>3, <2>1
<1>6. ASSUME NEW l \in GotoNumber, Listed(ReadsOf(k), l) PROVE Reads(k, l)
  <2>1. PICK e \in 1 .. m : MapGoto(n, s[e]) = l BY <1>3, <1>5, <1>6 DEF Listed
  <2>2. fromState[l] = n /\ SymbolOf(l) = s[e] BY <1>4, <2>1
  <2> QED BY <1>2, <2>2 DEF Reads
<1>7. ASSUME NEW l \in GotoNumber, Reads(k, l) PROVE Listed(ReadsOf(k), l)
  <2>1. fromState[l] = n /\ SymbolOf(l) \in Ns(g) BY <1>7 DEF Reads
  <2>2. SymbolOf(l) \in Nexts(Itemset(n)) BY <2>1, GotoTable
  <2>3. PICK e \in 1 .. m : s[e] = SymbolOf(l) BY <1>2, <2>1, <2>2
  <2>4. MapGoto(n, s[e]) = l BY <2>1, <2>3, MapGotoIs
  <2> QED BY <1>3, <1>5, <2>4 DEF Listed
<1> QED BY <1>5, <1>6, <1>7

-----------------------------------------------------------------------------
(* The rules of a goto, and the gotos along them. *)
LEMMA RulesOfGotoFacts ==
    ASSUME LalrBuilt, NEW k \in GotoNumber
    PROVE  /\ IsFiniteSet(RulesOfGoto(k)) /\ fromState[k] \in DOMAIN states
           /\ \A r \in RulesOfGoto(k) :
                 /\ r \in DOMAIN g.rules /\ r # 2 /\ r \in Nat /\ << r, 0 >> \in Itemset(fromState[k])
                 /\ g.rules[r].lhs = SymbolOf(k) /\ Len(Rhs(g, r)) \in Nat
           /\ \A r \in DOMAIN g.rules : g.rules[r].lhs = SymbolOf(k) => r \in RulesOfGoto(k)
<1>1. g \in Grammars /\ RulesOfGoto(k) = RulesOf(g, SymbolOf(k))
  BY StateZero DEF LalrBuilt, RulesOfGoto, SymbolOf, Accessing, AccessingSymbol
<1>2. IsFiniteSet(DOMAIN g.rules) BY <1>1, ItemsFinite
<1>3. RulesOfGoto(k) \in SUBSET DOMAIN g.rules BY <1>1 DEF RulesOf
<1>4. IsFiniteSet(RulesOfGoto(k)) BY <1>2, <1>3, FS_Subset
<1>5. fromState[k] \in DOMAIN states BY GotoTable
<1>6. ASSUME NEW r \in RulesOfGoto(k)
      PROVE  /\ r \in DOMAIN g.rules /\ r # 2 /\ r \in Nat /\ << r, 0 >> \in Itemset(fromState[k])
             /\ g.rules[r].lhs = SymbolOf(k) /\ Len(Rhs(g, r)) \in Nat
  <2>1. r \in DOMAIN g.rules /\ g.rules[r].lhs = SymbolOf(k) /\ r \in RulesOf(g, SymbolOf(k)) BY <1>1 DEF RulesOf
  <2>2. << r, 0 >> \in Itemset(fromState[k]) /\ SymbolOf(k) # g.ntokens BY <2>1, ItemOfGoto
  <2> QED BY <1>1, <2>1, <2>2, RuleFacts
<1>7. \A r \in DOMAIN g.rules : g.rules[r].lhs = SymbolOf(k) => r \in RulesOfGoto(k) BY <1>1 DEF RulesOf
<1> QED BY <1>4, <1>5, <1>6, <1>7

LEMMA GotoAlong ==
    ASSUME LalrBuilt, NEW n \in DOMAIN states, NEW r, r # 2, << r, 0 >> \in Itemset(n),
           NEW p \in 1 .. Len(Rhs(g, r)), Rhs(g, r)[p] \in Vars(g)
    PROVE  \E l \in GotoNumber :
              /\ MapGoto(Path(n, r, p - 1), Rhs(g, r)[p]) = l
              /\ fromState[l] = Path(n, r, p - 1) /\ SymbolOf(l) = Rhs(g, r)[p]
<1> PICK d, q : d = p - 1 /\ q = Path(n, r, p - 1) OBVIOUS
<1>1. Len(Rhs(g, r)) \in Nat BY ItemShifted DEF LalrBuilt
<1>2. d \in 0 .. Len(Rhs(g, r)) /\ d + 1 = p /\ d < Len(Rhs(g, r)) BY <1>1
<1>3. q \in DOMAIN states /\ << r, d >> \in Itemset(q) BY <1>2, PathIs DEF LalrBuilt
<1>4. Rhs(g, r)[d + 1] \in Vars(g) BY <1>2
<1>5. PICK l \in GotoNumber : fromState[l] = q /\ SymbolOf(l) = Rhs(g, r)[d + 1] BY <1>2, <1>3, <1>4, GotoOfItem
<1>6. SymbolOf(l) = Rhs(g, r)[p] BY <1>2, <1>5
<1>7. MapGoto(fromState[l], SymbolOf(l)) = l BY MapGotoIs
<1> QED BY <1>5, <1>6, <1>7

(* Goto k includes goto l: what follows k can follow l. *)
Includes(k, l) ==
    \E r \in RulesOfGoto(k) : \E p \in 1 .. Len(Rhs(g, r)) :
        /\ Rhs(g, r)[p] = SymbolOf(l) /\ Vanishes(g, Ns(g), r, p)
        /\ fromState[l] = Path(fromState[k], r, p - 1)

WalkedOf(r) ==
    { p \in 1 .. Len(Rhs(g, r)) : Rhs(g, r)[p] \in Vars(g) /\ Vanishes(g, Ns(g), r, p) }
EdgesOfRule(k, r) ==
    LET back == Reverse(InOrder(WalkedOf(r), <))
    IN  [e \in DOMAIN back |-> MapGoto(Path(fromState[k], r, back[e] - 1), Rhs(g, r)[back[e]])]

LEMMA EdgesOfRuleFacts ==
    ASSUME LalrBuilt, NEW k \in GotoNumber, NEW r \in RulesOfGoto(k)
    PROVE  /\ EdgesOfRule(k, r) \in Seq(GotoNumber)
           /\ \A l \in GotoNumber : Listed(EdgesOfRule(k, r), l) <=>
                 \E p \in 1 .. Len(Rhs(g, r)) :
                    /\ Rhs(g, r)[p] = SymbolOf(l) /\ Vanishes(g, Ns(g), r, p)
                    /\ fromState[l] = Path(fromState[k], r, p - 1)
<1> PICK n, s : n = fromState[k] /\ s = Rhs(g, r) OBVIOUS
<1>1. n \in DOMAIN states /\ r # 2 /\ << r, 0 >> \in Itemset(n) /\ Len(s) \in Nat BY RulesOfGotoFacts
<1> PICK W : W = WalkedOf(r) OBVIOUS
<1>2. W = { p \in 1 .. Len(s) : s[p] \in Vars(g) /\ Vanishes(g, Ns(g), r, p) } BY DEF WalkedOf
<1>3. IsFiniteSet(W) /\ \A x \in W : x \in Int
  <2>1. IsFiniteSet(1 .. Len(s)) BY <1>1, FS_Interval
  <2>2. W \in SUBSET (1 .. Len(s)) BY <1>2
  <2> QED BY <1>1, <2>1, <2>2, FS_Subset
<1>4. PICK up : up = InOrder(W, <) OBVIOUS
<1>5. Increasing(up, W) BY <1>3, <1>4, NumbersInOrder
<1>6. PICK m : m = Len(up) OBVIOUS
<1>7. m \in Nat /\ (\A e \in 1 .. m : up[e] \in W) /\ (\A x \in W : \E e \in 1 .. m : up[e] = x)
  BY <1>5, <1>6 DEF Increasing
<1>8. PICK back : back = Reverse(up) OBVIOUS
<1>9. DOMAIN back = 1 .. m /\ \A e \in 1 .. m : back[e] = up[m - e + 1] BY <1>6, <1>7, <1>8 DEF Reverse
<1>10. \A e \in 1 .. m : back[e] \in W
  <2>1. \A e \in 1 .. m : m - e + 1 \in 1 .. m BY <1>7
  <2> QED BY <1>7, <1>9, <2>1
<1>11. \A x \in W : \E e \in 1 .. m : back[e] = x
  <2> SUFFICES ASSUME NEW x \in W PROVE \E e \in 1 .. m : back[e] = x OBVIOUS
  <2>1. PICK e \in 1 .. m : up[e] = x BY <1>7
  <2>2. PICK c : c = m - e + 1 OBVIOUS
  <2>3. c \in 1 .. m /\ m - c + 1 = e BY <1>7, <2>2
  <2> QED BY <1>9, <2>1, <2>3
<1>12. PICK h : h = EdgesOfRule(k, r) OBVIOUS
<1>13. h = [e \in 1 .. m |-> MapGoto(Path(n, r, back[e] - 1), s[back[e]])] BY <1>4, <1>8, <1>9, <1>12 DEF EdgesOfRule
<1>14. ASSUME NEW e \in 1 .. m
       PROVE  \E l \in GotoNumber : h[e] = l /\ fromState[l] = Path(n, r, back[e] - 1) /\ SymbolOf(l) = s[back[e]]
  <2>1. PICK p : p = back[e] OBVIOUS
  <2>2. p \in 1 .. Len(Rhs(g, r)) /\ Rhs(g, r)[p] \in Vars(g) BY <1>2, <1>10, <2>1
  <2>3. h[e] = MapGoto(Path(n, r, p - 1), Rhs(g, r)[p]) BY <1>13, <2>1
  <2> QED BY <1>1, <2>1, <2>2, <2>3, GotoAlong
<1>15. h \in Seq(GotoNumber) /\ Len(h) = m
  <2>1. \A e \in 1 .. m : h[e] \in GotoNumber BY <1>14
  <2>2. h \in [1 .. m -> GotoNumber] BY <1>13, <2>1
  <2> QED BY <1>7, <2>2
<1>16. ASSUME NEW l \in GotoNumber, Listed(h, l)
       PROVE  \E p \in 1 .. Len(s) : s[p] = SymbolOf(l) /\ Vanishes(g, Ns(g), r, p) /\ fromState[l] = Path(n, r, p - 1)
  <2>1. PICK e \in 1 .. m : h[e] = l BY <1>15, <1>16 DEF Listed
  <2>2. fromState[l] = Path(n, r, back[e] - 1) /\ SymbolOf(l) = s[back[e]] BY <1>14, <2>1
  <2>3. back[e] \in 1 .. Len(s) /\ Vanishes(g, Ns(g), r, back[e]) BY <1>2, <1>10
  <2> QED BY <2>2, <2>3
<1>17. ASSUME NEW l \in GotoNumber, NEW p \in 1 .. Len(s),
              s[p] = SymbolOf(l), Vanishes(g, Ns(g), r, p), fromState[l] = Path(n, r, p - 1)
       PROVE  Listed(h, l)
  <2>1. SymbolOf(l) \in Vars(g) BY GotoTable
  <2>2. p \in W BY <1>2, <1>17, <2>1
  <2>3. PICK e \in 1 .. m : back[e] = p BY <1>11, <2>2
  <2>4. h[e] = MapGoto(fromState[l], SymbolOf(l)) BY <1>13, <1>17, <2>3
  <2>5. h[e] = l BY <2>4, MapGotoIs
  <2> QED BY <1>15, <2>5 DEF Listed
<1> QED BY <1>12, <1>15, <1>16, <1>17

LEMMA IncludedByIs ==
    ASSUME LalrBuilt, NEW k \in GotoNumber
    PROVE  /\ IncludedBy(k) \in Seq(GotoNumber)
           /\ \A l \in GotoNumber : Listed(IncludedBy(k), l) <=> Includes(k, l)
<1>a. PICK rs : rs = InOrder(RulesOfGoto(k), <) OBVIOUS
<1>0. IsFiniteSet(RulesOfGoto(k)) /\ \A r \in RulesOfGoto(k) : r \in Nat /\ r \in DOMAIN g.rules BY RulesOfGotoFacts
<1>1. \A r \in RulesOfGoto(k) : r \in Int BY <1>0
<1>2. Increasing(rs, RulesOfGoto(k)) BY <1>0, <1>1, <1>a, NumbersInOrder
<1>3. PICK m : m = Cardinality(RulesOfGoto(k)) OBVIOUS
<1>4. m \in Nat /\ Len(rs) = m
  <2>1. m \in Nat BY <1>0, <1>3, FS_CardinalityType
  <2>2. DOMAIN rs = 1 .. m BY <1>3, <1>a DEF InOrder
  <2>3. DOMAIN rs = 1 .. Len(rs) /\ Len(rs) \in Nat BY <1>2 DEF Increasing
  <2> QED BY <2>1, <2>2, <2>3
<1>5. (\A e \in 1 .. m : rs[e] \in RulesOfGoto(k)) /\ (\A r \in RulesOfGoto(k) : \E e \in 1 .. m : rs[e] = r)
  BY <1>2, <1>4 DEF Increasing
<1> DEFINE Walked(r) == { p \in 1 .. Len(Rhs(g, r)) :
                            ~ISTOKEN(Rhs(g, r)[p]) /\ \A q \in p + 1 .. Len(Rhs(g, r)) : Rhs(g, r)[q] \in nullable }
           OfRule(r) == LET back == Reverse(InOrder(Walked(r), <))
                        IN  [e \in DOMAIN back |-> MapGoto(Path(fromState[k], r, back[e] - 1), Rhs(g, r)[back[e]])]
<1>6. ASSUME NEW r \in RulesOfGoto(k) PROVE OfRule(r) = EdgesOfRule(k, r)
  <2>1. nullable = Ns(g) /\ g \in Grammars BY StateZero DEF LalrBuilt, LRBuilt, StatesMore, TablesOK
  <2>2. \A p \in 1 .. Len(Rhs(g, r)) : ~ISTOKEN(Rhs(g, r)[p]) <=> Rhs(g, r)[p] \in Vars(g)
    <3>1. \A p \in 1 .. Len(Rhs(g, r)) : IsToken(g, Rhs(g, r)[p]) <=> Rhs(g, r)[p] \notin Vars(g)
      BY <1>0, <2>1, SymbolKinds
    <3> QED BY <3>1 DEF ISTOKEN, IsToken, start_symbol
  <2>3. \A p : Vanishes(g, Ns(g), r, p) <=> \A q \in p + 1 .. Len(Rhs(g, r)) : Rhs(g, r)[q] \in nullable
    BY <2>1 DEF Vanishes
  <2>4. Walked(r) = WalkedOf(r) BY <2>2, <2>3 DEF WalkedOf
  <2> HIDE DEF Walked
  <2> QED BY <2>4 DEF EdgesOfRule
<1>7. PICK ss : ss = [e \in 1 .. m |-> EdgesOfRule(k, rs[e])] OBVIOUS
<1>8. IncludedBy(k) = FlattenSeq(ss)
  <2>1. IncludedBy(k) = FlattenSeq([e \in 1 .. m |-> OfRule(rs[e])]) BY <1>3, <1>a DEF IncludedBy
  <2> HIDE DEF OfRule
  <2>2. [e \in 1 .. m |-> OfRule(rs[e])] = ss BY <1>5, <1>6, <1>7
  <2> QED BY <2>1, <2>2
<1>9. ss \in Seq(Seq(GotoNumber)) /\ Len(ss) = m
  <2>1. \A e \in 1 .. m : EdgesOfRule(k, rs[e]) \in Seq(GotoNumber) BY <1>5, EdgesOfRuleFacts
  <2>2. ss \in [1 .. m -> Seq(GotoNumber)] BY <1>7, <2>1
  <2> PICK N : N = Seq(GotoNumber) OBVIOUS
  <2>3. ss \in Seq(N) /\ Len(ss) = m BY <1>4, <2>2
  <2> QED BY <2>3
<1>10. FlattenSeq(ss) \in Seq(GotoNumber) /\ \A l : Listed(FlattenSeq(ss), l) <=> \E d \in 1 .. m : Listed(ss[d], l)
  <2> PICK N : N = Seq(GotoNumber) OBVIOUS
  <2>1. ss \in Seq(Seq(GotoNumber)) BY <1>9
  <2>2. /\ FlattenSeq(ss) \in Seq(GotoNumber)
        /\ \A v : (\E e \in 1 .. Len(FlattenSeq(ss)) : FlattenSeq(ss)[e] = v)
                     <=> \E d \in 1 .. Len(ss) : \E e \in 1 .. Len(ss[d]) : ss[d][e] = v
    BY <2>1, FlattenFacts, Zenon
  <2> PICK z : z = FlattenSeq(ss) OBVIOUS
  <2> QED BY <1>9, <2>2 DEF Listed
<1>11. ASSUME NEW l \in GotoNumber PROVE (\E d \in 1 .. m : Listed(ss[d], l)) <=> Includes(k, l)
  <2>1. ASSUME NEW d \in 1 .. m, Listed(ss[d], l) PROVE Includes(k, l)
    <3>1. Listed(EdgesOfRule(k, rs[d]), l) /\ rs[d] \in RulesOfGoto(k) BY <1>5, <1>7, <2>1
    <3> QED BY <3>1, EdgesOfRuleFacts DEF Includes
  <2>2. ASSUME Includes(k, l) PROVE \E d \in 1 .. m : Listed(ss[d], l)
    <3>1. PICK r \in RulesOfGoto(k) : \E p \in 1 .. Len(Rhs(g, r)) :
              /\ Rhs(g, r)[p] = SymbolOf(l) /\ Vanishes(g, Ns(g), r, p)
              /\ fromState[l] = Path(fromState[k], r, p - 1)
      BY <2>2 DEF Includes
    <3>2. Listed(EdgesOfRule(k, r), l) BY <3>1, EdgesOfRuleFacts
    <3>3. PICK d \in 1 .. m : rs[d] = r BY <1>5
    <3> QED BY <1>7, <3>2, <3>3
  <2> QED BY <2>1, <2>2
<1> QED BY <1>8, <1>10, <1>11

-----------------------------------------------------------------------------
LEMMA TransposeIs ==
    ASSUME NEW n \in Nat, NEW E, \A k \in 0 .. n - 1 : E[k] \in Seq(0 .. n - 1)
    PROVE  /\ Transpose(E, n) \in [0 .. n - 1 -> Seq(0 .. n - 1)]
           /\ \A v, k \in 0 .. n - 1 : Listed(Transpose(E, n)[v], k) <=> Listed(E[k], v)
<1> DEFINE Places(k, v) == { x \in DOMAIN E[k - 1] : E[k - 1][x] = v }
           Copies(v) == [k \in 1 .. n |-> [e \in 1 .. Cardinality(Places(k, v)) |-> k - 1]]
<1>1. Transpose(E, n) = [v \in 0 .. n - 1 |-> FlattenSeq(Copies(v))] BY DEF Transpose
<1>2. ASSUME NEW v, NEW k \in 1 .. n
      PROVE  /\ Copies(v)[k] \in Seq(0 .. n - 1)
             /\ \A x : Listed(Copies(v)[k], x) <=> x = k - 1 /\ Listed(E[k - 1], v)
  <2>1. k - 1 \in 0 .. n - 1 OBVIOUS
  <2>a. PICK s, m : s = E[k - 1] /\ m = Len(s) OBVIOUS
  <2>b. PICK P : P = Places(k, v) OBVIOUS
  <2>c. PICK c : c = Cardinality(P) OBVIOUS
  <2>2. s \in Seq(0 .. n - 1) /\ m \in Nat /\ DOMAIN s = 1 .. m BY <2>1, <2>a
  <2>3. P = { x \in 1 .. m : s[x] = v } BY <2>2, <2>a, <2>b
  <2>4. IsFiniteSet(P) /\ c \in Nat
    <3>1. IsFiniteSet(1 .. m) BY <2>2, FS_Interval
    <3>2. IsFiniteSet(P) BY <2>3, <3>1, FS_Subset
    <3> QED BY <3>2, <2>c, FS_CardinalityType
  <2>5. c = 0 <=> P = {} BY <2>4, <2>c, FS_EmptySet
  <2>d. PICK z : z = Copies(v)[k] OBVIOUS
  <2>6. z = [e \in 1 .. c |-> k - 1] BY <2>b, <2>c, <2>d
  <2> HIDE DEF Copies, Places
  <2>7. z \in Seq(0 .. n - 1) /\ Len(z) = c /\ \A e \in 1 .. c : z[e] = k - 1 BY <2>1, <2>4, <2>6
  <2>8. P # {} <=> Listed(s, v) BY <2>3, <2>a DEF Listed
  <2>9. (\E e \in 1 .. c : TRUE) <=> c # 0
    <3>1. c # 0 => 1 \in 1 .. c BY <2>4
    <3> QED BY <2>4, <3>1
  <2>10. \A x : Listed(z, x) <=> x = k - 1 /\ c # 0 BY <2>7, <2>9 DEF Listed
  <2> QED BY <2>5, <2>7, <2>8, <2>10, <2>a, <2>d
<1>3. ASSUME NEW v \in 0 .. n - 1
      PROVE  /\ FlattenSeq(Copies(v)) \in Seq(0 .. n - 1)
             /\ \A k \in 0 .. n - 1 : Listed(FlattenSeq(Copies(v)), k) <=> Listed(E[k], v)
  <2>s. PICK ss : ss = Copies(v) OBVIOUS
  <2>1. DOMAIN ss = 1 .. n BY <2>s
  <2>2. \A k \in 1 .. n : ss[k] \in Seq(0 .. n - 1) /\ \A x : Listed(ss[k], x) <=> x = k - 1 /\ Listed(E[k - 1], v)
    <3> HIDE DEF Copies
    <3> QED BY <1>2, <2>s
  <2>3. ss = [k \in 1 .. n |-> ss[k]] BY <2>s
  <2> HIDE DEF Copies
  <2>4. ss \in Seq(Seq(0 .. n - 1)) /\ Len(ss) = n
    <3> PICK N : N = Seq(0 .. n - 1) OBVIOUS
    <3>1. ss \in [1 .. n -> N] BY <2>2, <2>3
    <3>2. ss \in Seq(N) /\ Len(ss) = n BY <3>1
    <3> QED BY <3>2
  <2>n. PICK N : N = 0 .. n - 1 OBVIOUS
  <2>e. ss \in Seq(Seq(N)) BY <2>4, <2>n
  <2>5. /\ FlattenSeq(ss) \in Seq(N)
        /\ \A x : (\E e \in 1 .. Len(FlattenSeq(ss)) : FlattenSeq(ss)[e] = x)
                     <=> \E d \in 1 .. Len(ss) : \E e \in 1 .. Len(ss[d]) : ss[d][e] = x
    BY <2>e, FlattenFacts, Zenon
  <2>6. \A x : Listed(FlattenSeq(ss), x) <=> \E d \in 1 .. n : Listed(ss[d], x) BY <2>4, <2>5 DEF Listed
  <2>7. ASSUME NEW k \in 0 .. n - 1 PROVE Listed(FlattenSeq(ss), k) <=> Listed(E[k], v)
    <3>1. k + 1 \in 1 .. n /\ k + 1 - 1 = k OBVIOUS
    <3>2. \A d \in 1 .. n : k = d - 1 => d = k + 1 OBVIOUS
    <3>c. PICK c : c = k + 1 OBVIOUS
    <3>d. c \in 1 .. n /\ c - 1 = k BY <3>c
    <3>3. Listed(ss[k + 1], k) <=> Listed(E[k], v) BY <2>2, <3>c, <3>d
    <3>4. \A d \in 1 .. n : Listed(ss[d], k) => d = k + 1 BY <2>2, <3>2
    <3> QED BY <2>6, <3>1, <3>3, <3>4
  <2> QED BY <2>5, <2>7, <2>n, <2>s
<1> HIDE DEF Copies
<1>4. Transpose(E, n) \in [0 .. n - 1 -> Seq(0 .. n - 1)] BY <1>1, <1>3
<1>5. \A v, k \in 0 .. n - 1 : Listed(Transpose(E, n)[v], k) <=> Listed(E[k], v) BY <1>1, <1>3
<1> QED BY <1>4, <1>5

LEMMA LookbackIs ==
    ASSUME LalrBuilt, NEW k \in GotoNumber, NEW q, NEW r
    PROVE  << q, r, k >> \in LookbackEdges <=> r \in RulesOfGoto(k) /\ q = Path(fromState[k], r, Len(Rhs(g, r)))
<1>1. ASSUME << q, r, k >> \in LookbackEdges PROVE r \in RulesOfGoto(k) /\ q = Path(fromState[k], r, Len(Rhs(g, r)))
  <2>1. PICK l \in 0 .. ngotos - 1 : << q, r, k >> \in { << Path(fromState[l], s, Len(Rhs(g, s))), s, l >> : s \in RulesOfGoto(l) }
    BY <1>1 DEF LookbackEdges
  <2>2. PICK s \in RulesOfGoto(l) : << q, r, k >> = << Path(fromState[l], s, Len(Rhs(g, s))), s, l >> BY <2>1
  <2>3. q = Path(fromState[l], s, Len(Rhs(g, s))) /\ r = s /\ k = l BY <2>2
  <2> QED BY <2>2, <2>3
<1>2. ASSUME r \in RulesOfGoto(k), q = Path(fromState[k], r, Len(Rhs(g, r))) PROVE << q, r, k >> \in LookbackEdges
  <2>1. k \in 0 .. ngotos - 1 BY DEF GotoNumber
  <2>2. << q, r, k >> \in { << Path(fromState[k], s, Len(Rhs(g, s))), s, k >> : s \in RulesOfGoto(k) } BY <1>2
  <2> QED BY <2>1, <2>2 DEF LookbackEdges
<1> QED BY <1>1, <1>2

-----------------------------------------------------------------------------
(* The rule of $accept begins in state 0 only, and is never completed. *)
LEMMA AcceptAtStart ==
    ASSUME LRBuilt, NEW n \in DOMAIN states
    PROVE  /\ << 2, 0 >> \in Itemset(n) => n = 0
           /\ << 2, 2 >> \notin Itemset(n)
<1>1. g \in Grammars /\ AutomatonOK /\ LR0Inv /\ Built BY DEF LRBuilt, Built, LR0Inv
<1>2. FirstDerivesOK /\ StatesOK BY <1>1 DEF AutomatonOK
<1>3. states[n].items \in SUBSET ItemsOf(g) /\ Itemset(n) \in SUBSET ItemsOf(g) BY ItemsetIs
<1>4. Rhs(g, 2) = << g.ntokens + 1, 0 >> /\ g.rules[2].lhs = g.ntokens BY <1>1, StartFacts
<1>5. ASSUME << 2, 0 >> \in Itemset(n), n # 0 PROVE FALSE
  <2> PICK it : it = << 2, 0 >> OBVIOUS
  <2>1. it[1] = 2 /\ it[2] = 0 /\ it \in Itemset(n) BY <1>5
  <2>2. it \notin states[n].items
    <3>1. n \in DOMAIN states \ {0} BY <1>5
    <3>2. \A c \in states[n].items : c[2] >= 1 BY <1>2, <3>1 DEF StatesOK
    <3> QED BY <2>1, <3>2
  <2>3. \E x \in closure(states[n].items) : NextSymbol(x) = g.rules[it[1]].lhs
    BY <1>1, <1>2, <1>3, <2>1, <2>2, ClosureFollows DEF Itemset
  <2>4. PICK x \in Itemset(n) : NextSymbol(x) = g.ntokens BY <1>4, <2>1, <2>3 DEF Itemset
  <2>5. g.ntokens \in Nat BY <1>1, SymbolKinds
  <2>6. /\ x[1] \in DOMAIN g.rules /\ x[2] \in 0 .. Len(Rhs(g, x[1])) /\ x[2] < Len(Rhs(g, x[1]))
        /\ NextSymbol(x) = Rhs(g, x[1])[x[2] + 1]
    <3>1. x \in ItemsOf(g) /\ NextSymbol(x) >= 0 BY <1>3, <2>4, <2>5
    <3> QED BY <1>1, <3>1, ItemFacts
  <2>7. Len(Rhs(g, x[1])) \in Nat BY <1>1, <2>6, RuleFacts
  <2>8. x[2] + 1 \in 1 .. Len(Rhs(g, x[1])) BY <2>6, <2>7
  <2>9. Rhs(g, x[1])[x[2] + 1] # g.ntokens BY <1>1, <2>6, <2>8, RuleFacts
  <2> QED BY <2>4, <2>6, <2>9
<1>6. ASSUME << 2, 2 >> \in Itemset(n) PROVE FALSE
  <2> PICK it : it = << 2, 2 >> OBVIOUS
  <2>1. it[1] = 2 /\ it[2] = 2 /\ it \in Itemset(n) BY <1>6
  <2>2. it \in states[n].items /\ n # 0 BY <1>1, <2>1, DotPassed
  <2>3. n \in DOMAIN states \ {0} BY <2>2
  <2>4. states[n].accessing_symbol > 0 /\ Rhs(g, it[1])[it[2]] = states[n].accessing_symbol
    BY <1>2, <2>2, <2>3 DEF StatesOK
  <2>5. Rhs(g, 2)[2] = 0 BY <1>4
  <2> QED BY <2>1, <2>4, <2>5
<1> QED BY <1>5, <1>6

(* Different states have different item sets. *)
LEMMA ItemsetsDiffer ==
    ASSUME LRBuilt, NEW m \in DOMAIN states, NEW n \in DOMAIN states, Itemset(m) = Itemset(n)
    PROVE  m = n
<1>1. g \in Grammars /\ AutomatonOK /\ LR0Inv /\ Built BY DEF LRBuilt, Built, LR0Inv
<1>2. StatesOK BY <1>1 DEF AutomatonOK
<1>3. ASSUME NEW x \in DOMAIN states, x # 0
      PROVE  states[x].items = { it \in Itemset(x) : it[2] # 0 } /\ \E it \in Itemset(x) : it[2] # 0
  <2>1. states[x].items # {} /\ \A it \in states[x].items : it[2] >= 1 BY <1>2, <1>3 DEF StatesOK
  <2>2. states[x].items \subseteq Itemset(x) BY ItemsetIs DEF IsClosure0
  <2>3. \A it \in states[x].items : it[2] # 0 BY <2>1
  <2>4. \A it \in Itemset(x) : it[2] # 0 => it \in states[x].items BY <1>1, DotPassed
  <2> QED BY <2>1, <2>2, <2>3, <2>4
<1>4. ASSUME NEW it \in Itemset(0), it[2] # 0 PROVE FALSE
  <2>1. 0 \in DOMAIN states BY StateZero
  <2> QED BY <1>1, <1>4, <2>1, DotPassed
<1>5. CASE m = 0
  <2>1. n = 0 BY <1>3, <1>4, <1>5
  <2> QED BY <1>5, <2>1
<1>6. CASE n = 0
  <2>1. m = 0 BY <1>3, <1>4, <1>6
  <2> QED BY <1>6, <2>1
<1>7. CASE m # 0 /\ n # 0
  <2>1. states[m].items = states[n].items BY <1>3, <1>7
  <2> QED BY <2>1 DEF LRBuilt, StatesMore, KernelsDiffer
<1> QED BY <1>5, <1>6, <1>7

-----------------------------------------------------------------------------
(***************************************************************************)
(* What is read after a goto: the reads relation against FIRST.            *)
(***************************************************************************)
TokensOf(gr) == 0 .. gr.ntokens - 1
CanBegin(r, d, t) == Begins(g, Ns(g), Ps(g), r, d, t)

(* What begins after the dot of an item begins after that of one of the
   kernel. *)
LEMMA BeginsInKernel ==
    ASSUME LRBuilt, NEW n \in DOMAIN states, NEW t \in TokensOf(g),
           NEW r, NEW d, << r, d >> \in Itemset(n), CanBegin(r, d, t)
    PROVE  \E s, e : << s, e >> \in states[n].items /\ CanBegin(s, e, t)
<1>1. /\ g \in Grammars /\ states[n].items \in SUBSET ItemsOf(g) /\ states[n].items \subseteq Itemset(n)
      /\ \A C \in SUBSET ItemsOf(g) : states[n].items \subseteq C /\ Closed0(g, C) => Itemset(n) \subseteq C
  BY ItemsetIs DEF IsClosure0
<1> PICK K : K = states[n].items OBVIOUS
<1> DEFINE C == { c \in ItemsOf(g) : CanBegin(c[1], c[2], t) => \E s, e : << s, e >> \in K /\ CanBegin(s, e, t) }
<1>2. K \subseteq C
  <2> SUFFICES ASSUME NEW c \in K PROVE c \in C OBVIOUS
  <2>1. c \in ItemsOf(g) BY <1>1
  <2>2. c = << c[1], c[2] >> BY <1>1, <2>1, Items0Facts
  <2> QED BY <2>1, <2>2
<1>3. Closed0(g, C)
  <2> SUFFICES ASSUME NEW c \in C, c[2] < Len(Rhs(g, c[1])), NEW s \in RulesOf(g, SymbolAfter(g, c))
               PROVE  << s, 0 >> \in C
    BY DEF Closed0
  <2>1. c \in ItemsOf(g) /\ c[1] \in DOMAIN g.rules /\ c[2] \in 0 .. Len(Rhs(g, c[1])) /\ Len(Rhs(g, c[1])) \in Nat
    BY <1>1, Items0Facts, SymbolKinds
  <2>2. s \in DOMAIN g.rules /\ g.rules[s].lhs = SymbolAfter(g, c) BY DEF RulesOf
  <2>3. << s, 0 >> \in ItemsOf(g)
    <3>1. 0 \in 0 .. Len(Rhs(g, s)) BY <1>1, <2>2, SymbolKinds
    <3> QED BY <1>1, <2>2, <3>1, Items0Facts
  <2>4. ASSUME CanBegin(s, 0, t) PROVE CanBegin(c[1], c[2], t)
    <3>1. FirstClosed(g, Ns(g), Ps(g)) BY <1>1, FirstFacts DEF Ps, Ns
    <3>2. << SymbolAfter(g, c), t >> \in Ps(g) BY <2>2, <2>4, <3>1 DEF FirstClosed, CanBegin, TokensOf
    <3> PICK k : k = c[2] + 1 OBVIOUS
    <3>3. k \in c[2] + 1 .. Len(Rhs(g, c[1])) /\ c[2] + 1 .. k - 1 = {} BY <2>1
    <3>4. << Rhs(g, c[1])[k], t >> \in Ps(g) BY <3>2 DEF SymbolAfter
    <3> QED BY <3>3, <3>4 DEF CanBegin, Begins
  <2>5. CanBegin(s, 0, t) => \E x, e : << x, e >> \in K /\ CanBegin(x, e, t) BY <2>4
  <2>6. PICK c0 : c0 = << s, 0 >> OBVIOUS
  <2>7. c0[1] = s /\ c0[2] = 0 /\ c0 \in ItemsOf(g) BY <2>3, <2>6
  <2>8. c0 \in C BY <2>5, <2>7
  <2> QED BY <2>6, <2>8
<1>4. C \in SUBSET ItemsOf(g) OBVIOUS
<1> HIDE DEF C
<1>5. << r, d >> \in C BY <1>1, <1>2, <1>3, <1>4
<1>6. PICK c : c = << r, d >> OBVIOUS
<1>7. c \in C /\ c[1] = r /\ c[2] = d BY <1>5, <1>6
<1> QED BY <1>7 DEF C

(* The tokens that can be read after a goto. *)
CanRead(k) ==
    { t \in TokensOf(g) : \E r, d : /\ << r, d >> \in Itemset(fromState[k]) /\ d < Len(Rhs(g, r))
                                    /\ Rhs(g, r)[d + 1] = SymbolOf(k) /\ CanBegin(r, d + 1, t) }

LEMMA ReadInNext ==
    ASSUME LalrBuilt, NEW k \in GotoNumber, NEW t \in TokensOf(g),
           NEW r, NEW d, << r, d >> \in Itemset(toState[k]), CanBegin(r, d, t)
    PROVE  t \in CanRead(k)
<1>1. /\ fromState[k] \in DOMAIN states /\ toState[k] \in DOMAIN states /\ Leads(fromState[k], toState[k])
      /\ SymbolOf(k) = Accessing(toState[k])
  BY GotoTable DEF SymbolOf
<1>2. PICK s, e : << s, e >> \in states[toState[k]].items /\ CanBegin(s, e, t) BY <1>1, BeginsInKernel DEF LalrBuilt
<1>3. PICK c : c = << s, e >> OBVIOUS
<1>4. c \in states[toState[k]].items /\ c[1] = s /\ c[2] = e BY <1>2, <1>3
<1>5. /\ c[2] \in 1 .. Len(Rhs(g, c[1])) /\ c[1] \in DOMAIN g.rules
      /\ << c[1], c[2] - 1 >> \in Itemset(fromState[k]) /\ Rhs(g, c[1])[c[2]] = SymbolOf(k)
  BY <1>1, <1>4, KernelFrom DEF LalrBuilt
<1>6. Len(Rhs(g, s)) \in Nat BY <1>4, <1>5, StateZero, SymbolKinds DEF LalrBuilt
<1>7. PICK d0 : d0 = e - 1 OBVIOUS
<1>8. /\ << s, d0 >> \in Itemset(fromState[k]) /\ d0 < Len(Rhs(g, s)) /\ d0 + 1 = e
      /\ Rhs(g, s)[d0 + 1] = SymbolOf(k)
  BY <1>4, <1>5, <1>6, <1>7
<1>9. CanBegin(s, d0 + 1, t) BY <1>2, <1>8
<1> QED BY <1>8, <1>9 DEF CanRead

(* The equations of the reads relation. *)
ReadsSolved(f) ==
    \A k \in GotoNumber :
        /\ DirectReads(toState[k]) \subseteq f[k]
        /\ k = 0 => 0 \in f[k]
        /\ \A l \in GotoNumber : Reads(k, l) => f[l] \subseteq f[k]

LEMMA CanReadSolves ==
    ASSUME LalrBuilt
    PROVE  ReadsSolved([k \in GotoNumber |-> CanRead(k)])
<1>0. g \in Grammars /\ g.ntokens \in Nat BY StateZero, SymbolKinds DEF LalrBuilt
<1>1. ASSUME NEW k \in GotoNumber, NEW t \in DirectReads(toState[k]) PROVE t \in CanRead(k)
  <2>1. toState[k] \in DOMAIN states BY GotoTable
  <2>2. t \in Nexts(Itemset(toState[k])) /\ t < g.ntokens BY <2>1, DirectReadsIs DEF LalrBuilt
  <2>3. PICK c \in Itemset(toState[k]) : NextSymbol(c) = t /\ NextSymbol(c) > 0 BY <2>2 DEF Nexts
  <2>4. c \in ItemsOf(g) BY <2>1, ItemsetIs DEF LalrBuilt
  <2>5. NextSymbol(c) >= 0
    <3>1. NextSymbol(c) \in Int BY <1>0, <2>4, ItemFacts
    <3> QED BY <2>3, <3>1
  <2>6. /\ c = << c[1], c[2] >> /\ c[1] \in DOMAIN g.rules /\ c[2] \in 0 .. Len(Rhs(g, c[1]))
        /\ c[2] < Len(Rhs(g, c[1])) /\ t = Rhs(g, c[1])[c[2] + 1]
    BY <1>0, <2>3, <2>4, <2>5, ItemFacts
  <2>7. Len(Rhs(g, c[1])) \in Nat BY <1>0, <2>6, SymbolKinds
  <2>8. PICK m : m = c[2] + 1 OBVIOUS
  <2>9. m \in c[2] + 1 .. Len(Rhs(g, c[1])) /\ c[2] + 1 .. m - 1 = {} /\ Rhs(g, c[1])[m] = t BY <2>6, <2>7, <2>8
  <2>10. CanBegin(c[1], c[2], t) BY <2>9 DEF CanBegin, Begins
  <2>11. t \in TokensOf(g)
    <3>1. t \in Symbol(g) BY <1>0, <2>6, <2>8, <2>9, SymbolKinds
    <3>2. t \in Nat BY <1>0, <3>1, SymbolKinds
    <3> QED BY <1>0, <2>2, <3>2 DEF TokensOf
  <2> QED BY <2>6, <2>10, <2>11, ReadInNext
<1>2. 0 \in CanRead(0)
  <2>1. 0 \in DOMAIN states /\ states[0].items = { << 2, 0 >> } /\ << 2, 0 >> \in Itemset(0)
    BY StateZero, ItemsetIs DEF LalrBuilt, IsClosure0
  <2>2. Rhs(g, 2) = << g.ntokens + 1, 0 >> BY <1>0, StartFacts
  <2>3. Len(Rhs(g, 2)) = 2 /\ Rhs(g, 2)[0 + 1] = g.ntokens + 1 /\ Rhs(g, 2)[2] = 0 BY <2>2
  <2>4. fromState[0] = 0 /\ SymbolOf(0) = g.ntokens + 1 BY GotoZero
  <2>5. CanBegin(2, 0 + 1, 0)
    <3>1. 2 \in 0 + 1 + 1 .. Len(Rhs(g, 2)) /\ 0 + 1 + 1 .. 2 - 1 = {} BY <2>3
    <3> QED BY <2>3, <3>1 DEF CanBegin, Begins
  <2>6. 0 \in TokensOf(g)
    <3>1. g.ntokens > 1 BY <1>0, SymbolKinds
    <3> QED BY <1>0, <3>1 DEF TokensOf
  <2>7. << 2, 0 >> \in Itemset(fromState[0]) /\ 0 < Len(Rhs(g, 2)) /\ Rhs(g, 2)[0 + 1] = SymbolOf(0)
    BY <2>1, <2>3, <2>4
  <2> QED BY <2>5, <2>6, <2>7 DEF CanRead
<1>3. ASSUME NEW k \in GotoNumber, NEW l \in GotoNumber, Reads(k, l), NEW t \in CanRead(l)
      PROVE  t \in CanRead(k)
  <2>1. fromState[l] = toState[k] /\ SymbolOf(l) \in Ns(g) BY <1>3 DEF Reads
  <2>2. t \in TokensOf(g) BY DEF CanRead
  <2>3. PICK r, d : /\ << r, d >> \in Itemset(toState[k]) /\ d < Len(Rhs(g, r))
                    /\ Rhs(g, r)[d + 1] = SymbolOf(l) /\ CanBegin(r, d + 1, t)
    BY <1>3, <2>1 DEF CanRead
  <2>4. toState[k] \in DOMAIN states BY GotoTable
  <2>5. d \in 0 .. Len(Rhs(g, r)) /\ Len(Rhs(g, r)) \in Nat BY <2>3, <2>4, ItemShifted DEF LalrBuilt
  <2>6. CanBegin(r, d, t)
    <3>1. PICK m \in d + 1 + 1 .. Len(Rhs(g, r)) :
              /\ \A j \in d + 1 + 1 .. m - 1 : Rhs(g, r)[j] \in Ns(g)
              /\ Rhs(g, r)[m] = t \/ << Rhs(g, r)[m], t >> \in Ps(g)
      BY <2>3 DEF CanBegin, Begins
    <3>2. m \in d + 1 .. Len(Rhs(g, r)) BY <2>5
    <3>3. ASSUME NEW j \in d + 1 .. m - 1 PROVE Rhs(g, r)[j] \in Ns(g)
      <4>1. j = d + 1 \/ j \in d + 1 + 1 .. m - 1 BY <2>5
      <4> QED BY <2>1, <2>3, <3>1, <4>1
    <3> QED BY <3>1, <3>2, <3>3 DEF CanBegin, Begins
  <2> QED BY <2>2, <2>3, <2>6, ReadInNext
<1> PICK f : f = [k \in GotoNumber |-> CanRead(k)] OBVIOUS
<1>4. \A k \in GotoNumber : f[k] = CanRead(k) OBVIOUS
<1>5. ReadsSolved(f)
  <2> SUFFICES ASSUME NEW k \in GotoNumber
               PROVE  /\ DirectReads(toState[k]) \subseteq f[k] /\ (k = 0 => 0 \in f[k])
                      /\ \A l \in GotoNumber : Reads(k, l) => f[l] \subseteq f[k]
    BY DEF ReadsSolved
  <2>1. DirectReads(toState[k]) \subseteq f[k] BY <1>1, <1>4
  <2>2. k = 0 => 0 \in f[k] BY <1>2, <1>4
  <2>3. \A l \in GotoNumber : Reads(k, l) => f[l] \subseteq f[k] BY <1>3, <1>4
  <2> QED BY <2>1, <2>2, <2>3
<1> QED BY <1>5

-----------------------------------------------------------------------------
(***************************************************************************)
(* Every solution of the equations has the tokens that can be read.        *)
(***************************************************************************)
ReadAt(f, q, t) ==
    \/ t \in DirectReads(q)
    \/ \E l \in GotoNumber : fromState[l] = q /\ SymbolOf(l) \in Ns(g) /\ t \in f[l]

LEMMA ReadAtNext ==
    ASSUME LalrBuilt, NEW f, ReadsSolved(f), NEW k \in GotoNumber, NEW t, ReadAt(f, toState[k], t)
    PROVE  t \in f[k]
BY DEF ReadAt, ReadsSolved, Reads

(* What is read at every state where x follows a dot. *)
ReadBefore(f, x, t) == \A q \in DOMAIN states : x \in Nexts(Itemset(q)) => ReadAt(f, q, t)

(* By the greatest place where it would be otherwise. *)
LEMMA GatherReads ==
    ASSUME LalrBuilt, NEW f, ReadsSolved(f), NEW t \in TokensOf(g), NEW r \in DOMAIN g.rules, r # 2,
           NEW m \in 1 .. Len(Rhs(g, r)), Rhs(g, r)[m] = t \/ ReadBefore(f, Rhs(g, r)[m], t),
           NEW d0 \in Nat, NEW q0 \in DOMAIN states, << r, d0 >> \in Itemset(q0), d0 < m,
           \A j \in d0 + 1 .. m - 1 : Rhs(g, r)[j] \in Ns(g)
    PROVE  ReadAt(f, q0, t)
<1>0. g \in Grammars /\ LRBuilt BY StateZero DEF LalrBuilt
<1>1. Len(Rhs(g, r)) \in Nat /\ m \in Nat BY <1>0, SymbolKinds
<1> DEFINE Wrong(d) == \E q \in DOMAIN states :
                          << r, d >> \in Itemset(q) /\ (\A j \in d + 1 .. m - 1 : Rhs(g, r)[j] \in Ns(g)) /\ ~ReadAt(f, q, t)
           Bad == { e \in 1 .. m : Wrong(m - e) }
<1> SUFFICES ASSUME ~ReadAt(f, q0, t) PROVE FALSE OBVIOUS
<1>2. Bad # {}
  <2>1. Wrong(d0) OBVIOUS
  <2>2. PICK e : e = m - d0 OBVIOUS
  <2>3. e \in 1 .. m /\ m - e = d0 BY <1>1, <2>2
  <2> HIDE DEF Wrong
  <2>4. e \in Bad BY <2>1, <2>3
  <2> QED BY <2>4
<1>3. PICK e \in Bad : \A x \in Bad : e <= x
  <2>1. Bad \in SUBSET Nat BY <1>1
  <2> HIDE DEF Bad
  <2> QED BY <1>2, <2>1, LeastExists
<1>4. PICK d : d = m - e OBVIOUS
<1>5. d \in 0 .. m - 1 /\ d \in Nat /\ e \in 1 .. m /\ d < Len(Rhs(g, r)) /\ e = m - d BY <1>1, <1>3, <1>4
<1>6. PICK q \in DOMAIN states :
          << r, d >> \in Itemset(q) /\ (\A j \in d + 1 .. m - 1 : Rhs(g, r)[j] \in Ns(g)) /\ ~ReadAt(f, q, t)
  BY <1>3, <1>4
<1>p. PICK p : p = d + 1 OBVIOUS
<1>7. p \in 1 .. Len(Rhs(g, r)) BY <1>1, <1>5, <1>p
<1>8. Rhs(g, r)[p] # 0 /\ Rhs(g, r)[p] \in Nexts(Itemset(q))
  <2>1. Rhs(g, r)[p] # 0 BY <1>0, <1>7, RuleFacts
  <2> QED BY <1>0, <1>5, <1>6, <1>p, <2>1, ItemShifted
<1>9. CASE p = m
  <2>1. ~ReadBefore(f, Rhs(g, r)[m], t) BY <1>6, <1>8, <1>9 DEF ReadBefore
  <2>2. t \in Nexts(Itemset(q)) BY <1>8, <1>9, <2>1
  <2>3. t < g.ntokens BY <1>0, SymbolKinds DEF TokensOf
  <2>4. t \in DirectReads(q) BY <1>0, <2>2, <2>3, DirectReadsIs
  <2> QED BY <1>6, <2>4 DEF ReadAt
<1>10. CASE p # m
  <2>1. p \in d + 1 .. m - 1 /\ d + 1 \in d + 1 .. m - 1 BY <1>1, <1>5, <1>10, <1>p
  <2>2. Rhs(g, r)[d + 1] \in Ns(g) /\ Rhs(g, r)[d + 1] \in Vars(g) BY <1>0, <1>6, <2>1, NullableFacts DEF Ns
  <2>3. PICK l \in GotoNumber : fromState[l] = q /\ SymbolOf(l) = Rhs(g, r)[d + 1]
    BY <1>5, <1>6, <2>2, GotoOfItem
  <2>4. toState[l] \in DOMAIN states /\ Leads(q, toState[l]) /\ Rhs(g, r)[d + 1] = Accessing(toState[l])
    BY <2>3, GotoTable DEF SymbolOf
  <2>5. << r, d + 1 >> \in Itemset(toState[l]) BY <1>0, <1>5, <1>6, <2>4, ItemShifted
  <2>6. << r, p >> \in Itemset(toState[l]) BY <1>p, <2>5
  <2>7. ~ReadAt(f, toState[l], t)
    <3>1. ASSUME ReadAt(f, toState[l], t) PROVE FALSE
      <4>1. t \in f[l] BY <3>1, ReadAtNext
      <4>2. ReadAt(f, q, t) BY <2>2, <2>3, <4>1 DEF ReadAt
      <4> QED BY <1>6, <4>2
    <3> QED BY <3>1
  <2>8. \A j \in p + 1 .. m - 1 : Rhs(g, r)[j] \in Ns(g)
    <3>1. \A j \in p + 1 .. m - 1 : j \in d + 1 .. m - 1 BY <1>1, <1>5, <1>p
    <3> QED BY <1>6, <3>1
  <2>9. Wrong(p) BY <2>4, <2>6, <2>7, <2>8
  <2>10. PICK e1 : e1 = e - 1 OBVIOUS
  <2>11. e1 \in 1 .. m /\ m - e1 = p /\ e1 < e BY <1>1, <1>5, <1>10, <1>p, <2>10
  <2> HIDE DEF Wrong
  <2>12. e1 \in Bad BY <2>9, <2>11
  <2>13. e <= e1 BY <1>3, <2>12
  <2> QED BY <1>5, <2>11, <2>13
<1> QED BY <1>9, <1>10

(* What a variable begins with is read wherever it follows a dot: FIRST is
   the least set that is closed under the rules, and that set is closed. *)
LEMMA FirstIsRead ==
    ASSUME LalrBuilt, NEW f, ReadsSolved(f)
    PROVE  \A A, t : << A, t >> \in Ps(g) => ReadBefore(f, A, t)
<1>0. g \in Grammars /\ LRBuilt BY StateZero DEF LalrBuilt
<1> PICK W : W = { p \in Vars(g) \X (0 .. g.ntokens - 1) : ReadBefore(f, p[1], p[2]) } OBVIOUS
<1>1. W \in SUBSET (Vars(g) \X (0 .. g.ntokens - 1)) OBVIOUS
<1>2. \A A, t : << A, t >> \in W <=> A \in Vars(g) /\ t \in 0 .. g.ntokens - 1 /\ ReadBefore(f, A, t)
  <2> SUFFICES ASSUME NEW A, NEW t PROVE << A, t >> \in W <=> A \in Vars(g) /\ t \in 0 .. g.ntokens - 1 /\ ReadBefore(f, A, t)
    OBVIOUS
  <2> PICK p : p = << A, t >> OBVIOUS
  <2>1. p[1] = A /\ p[2] = t OBVIOUS
  <2>2. p \in Vars(g) \X (0 .. g.ntokens - 1) <=> A \in Vars(g) /\ t \in 0 .. g.ntokens - 1 OBVIOUS
  <2> QED BY <2>1, <2>2
<1>3. FirstClosed(g, Ns(g), W)
  <2> SUFFICES ASSUME NEW r \in DOMAIN g.rules, NEW t \in 0 .. g.ntokens - 1, Begins(g, Ns(g), W, r, 0, t)
               PROVE  << g.rules[r].lhs, t >> \in W
    BY DEF FirstClosed
  <2>1. g.rules[r].lhs \in Vars(g) /\ r \in RulesOf(g, g.rules[r].lhs) BY <1>0, SymbolKinds
  <2>2. ReadBefore(f, g.rules[r].lhs, t)
    <3> SUFFICES ASSUME NEW q \in DOMAIN states, g.rules[r].lhs \in Nexts(Itemset(q)) PROVE ReadAt(f, q, t)
      BY DEF ReadBefore
    <3>1. PICK c \in Itemset(q) : NextSymbol(c) = g.rules[r].lhs /\ NextSymbol(c) > 0 BY DEF Nexts
    <3>2. c \in ItemsOf(g) BY <1>0, ItemsetIs
    <3>3. NextSymbol(c) >= 0
      <4>1. NextSymbol(c) \in Int BY <1>0, <3>2, ItemFacts
      <4> QED BY <3>1, <4>1
    <3>4. /\ c[1] \in DOMAIN g.rules /\ c[2] \in 0 .. Len(Rhs(g, c[1])) /\ c[2] < Len(Rhs(g, c[1]))
          /\ NextSymbol(c) = Rhs(g, c[1])[c[2] + 1]
      BY <1>0, <3>1, <3>2, <3>3, ItemFacts
    <3>5. Len(Rhs(g, c[1])) \in Nat BY <1>0, <3>4, SymbolKinds
    <3>6. c[2] + 1 \in 1 .. Len(Rhs(g, c[1])) BY <3>4, <3>5
    <3>7. r # 2
      <4>1. Rhs(g, c[1])[c[2] + 1] # g.ntokens BY <1>0, <3>4, <3>6, RuleFacts
      <4>2. g.rules[r].lhs # g.ntokens BY <3>1, <3>4, <4>1
      <4> QED BY <1>0, <4>2, RuleFacts
    <3>8. << r, 0 >> \in Itemset(q)
      <4>1. Closed0(g, Itemset(q)) BY <1>0, ItemsetIs DEF IsClosure0
      <4>2. r \in RulesOf(g, SymbolAfter(g, c)) BY <2>1, <3>1, <3>4 DEF SymbolAfter
      <4> QED BY <3>1, <3>4, <4>1, <4>2 DEF Closed0
    <3>9. PICK m \in 0 + 1 .. Len(Rhs(g, r)) :
              /\ \A j \in 0 + 1 .. m - 1 : Rhs(g, r)[j] \in Ns(g)
              /\ Rhs(g, r)[m] = t \/ << Rhs(g, r)[m], t >> \in W
      BY DEF Begins
    <3>10. m \in 1 .. Len(Rhs(g, r)) /\ 0 < m /\ 0 \in Nat OBVIOUS
    <3>11. Rhs(g, r)[m] = t \/ ReadBefore(f, Rhs(g, r)[m], t) BY <1>2, <3>9
    <3>12. t \in TokensOf(g) BY DEF TokensOf
    <3> QED BY <3>7, <3>8, <3>9, <3>10, <3>11, <3>12, GatherReads
  <2> QED BY <1>2, <2>1, <2>2
<1>4. Ps(g) \subseteq W BY <1>0, <1>1, <1>3, FirstFacts DEF Ps, Ns
<1> QED BY <1>2, <1>4

LEMMA ReadsAreLeast ==
    ASSUME LalrBuilt, NEW f, ReadsSolved(f), NEW k \in GotoNumber
    PROVE  CanRead(k) \subseteq f[k]
<1>0. g \in Grammars /\ LRBuilt BY StateZero DEF LalrBuilt
<1> SUFFICES ASSUME NEW t \in CanRead(k) PROVE t \in f[k] OBVIOUS
<1>1. t \in TokensOf(g) BY DEF CanRead
<1>2. PICK r, d : /\ << r, d >> \in Itemset(fromState[k]) /\ d < Len(Rhs(g, r))
                  /\ Rhs(g, r)[d + 1] = SymbolOf(k) /\ CanBegin(r, d + 1, t)
  BY DEF CanRead
<1>3. /\ fromState[k] \in DOMAIN states /\ toState[k] \in DOMAIN states /\ Leads(fromState[k], toState[k])
      /\ SymbolOf(k) = Accessing(toState[k]) /\ SymbolOf(k) \in Vars(g)
  BY GotoTable DEF SymbolOf
<1>4. r \in DOMAIN g.rules /\ d \in 0 .. Len(Rhs(g, r)) /\ Len(Rhs(g, r)) \in Nat BY <1>0, <1>2, <1>3, ItemShifted
<1>5. << r, d + 1 >> \in Itemset(toState[k]) BY <1>0, <1>2, <1>3, ItemShifted
<1>6. PICK m \in d + 1 + 1 .. Len(Rhs(g, r)) :
          /\ \A j \in d + 1 + 1 .. m - 1 : Rhs(g, r)[j] \in Ns(g)
          /\ Rhs(g, r)[m] = t \/ << Rhs(g, r)[m], t >> \in Ps(g)
  BY <1>2 DEF CanBegin, Begins
<1>7. CASE r # 2
  <2>1. PICK p : p = d + 1 OBVIOUS
  <2>2. m \in 1 .. Len(Rhs(g, r)) /\ p \in Nat /\ p < m BY <1>4, <2>1
  <2>3. Rhs(g, r)[m] = t \/ ReadBefore(f, Rhs(g, r)[m], t) BY <1>6, FirstIsRead
  <2>4. << r, p >> \in Itemset(toState[k]) /\ \A j \in p + 1 .. m - 1 : Rhs(g, r)[j] \in Ns(g) BY <1>5, <1>6, <2>1
  <2>5. ReadAt(f, toState[k], t) BY <1>1, <1>3, <1>4, <1>7, <2>2, <2>3, <2>4, GatherReads
  <2> QED BY <2>5, ReadAtNext
<1>8. CASE r = 2
  <2>1. Rhs(g, 2) = << g.ntokens + 1, 0 >> /\ g.ntokens \in Nat BY <1>0, StartFacts, SymbolKinds
  <2>2. Len(Rhs(g, 2)) = 2 /\ Rhs(g, 2)[2] = 0 /\ Rhs(g, 2)[1] = g.ntokens + 1 BY <2>1
  <2>3. m = 2 /\ d = 0 BY <1>4, <1>6, <1>8, <2>2
  <2>4. << 2, 0 >> \in Itemset(fromState[k]) /\ SymbolOf(k) = g.ntokens + 1
    <3>1. << r, d >> = << 2, 0 >> BY <1>8, <2>3
    <3>2. Rhs(g, r)[d + 1] = Rhs(g, 2)[1] BY <1>8, <2>3
    <3> QED BY <1>2, <2>2, <3>1, <3>2
  <2>5. fromState[k] = 0 BY <1>0, <1>3, <2>4, AcceptAtStart
  <2>6. k = 0
    <3>1. 0 \in GotoNumber /\ fromState[0] = 0 /\ SymbolOf(0) = g.ntokens + 1 BY GotoZero
    <3> QED BY <2>4, <2>5, <3>1, GotoTable
  <2>7. t = 0
    <3>1. 0 = t \/ << 0, t >> \in Ps(g) BY <1>6, <1>8, <2>2, <2>3
    <3>2. ASSUME << 0, t >> \in Ps(g) PROVE FALSE
      <4>1. << 0, t >> \in Vars(g) \X (0 .. g.ntokens - 1) BY <1>0, <3>2, FirstFacts DEF Ps
      <4>2. 0 \in Vars(g) BY <4>1
      <4>3. g.ntokens > 1 BY <1>0, SymbolKinds
      <4> QED BY <2>1, <4>2, <4>3 DEF Vars
    <3> QED BY <3>1, <3>2
  <2> QED BY <2>6, <2>7 DEF ReadsSolved
<1> QED BY <1>7, <1>8

-----------------------------------------------------------------------------
(***************************************************************************)
(* What follows a goto: the includes relation against the lookaheads in    *)
(* the canonical collection.                                               *)
(***************************************************************************)
Collected(J, n) == J \in Collection1(g) /\ Core(J) = Itemset(n)

LEMMA CollectionIsClosed ==
    ASSUME NEW gr \in Grammars, NEW J \in Collection1(gr)
    PROVE  J \in SUBSET Items1(gr) /\ Closed1(gr, J)
<1> PICK Q : Q = { H \in SUBSET Items1(gr) : Closed1(gr, H) } OBVIOUS
<1>1. Q \in SUBSET SUBSET Items1(gr) OBVIOUS
<1>2. ASSUME NEW H \in SUBSET Items1(gr) PROVE Closure1Of(gr, H) \in Q BY <1>2, Closure1Facts
<1>3. Start1(gr) \in Q BY <1>2, StartFacts DEF Start1
<1>4. \A H \in Q : \A x \in Nexts1(gr, H) : Goto1Of(gr, H, x) \in Q BY <1>2, MovedFacts DEF Goto1Of
<1>5. CollectionClosed(gr, Q) BY <1>3, <1>4 DEF CollectionClosed
<1> QED BY <1>1, <1>5, CollectionFacts

(* An item moves with its lookahead. *)
LEMMA FollowItem ==
    ASSUME LRBuilt, AllProductive(g), NEW n \in DOMAIN states, NEW J, Collected(J, n),
           NEW r, NEW d, NEW t, << r, d, t >> \in J, d < Len(Rhs(g, r)),
           NEW q, Leads(n, q), Accessing(q) = Rhs(g, r)[d + 1]
    PROVE  \E H : Collected(H, q) /\ << r, d + 1, t >> \in H
<1>0. g \in Grammars BY StateZero
<1>1. J \in Collection1(g) /\ J \in SUBSET Items1(g) /\ Core(J) = Itemset(n)
  BY <1>0, CollectionIsClosed DEF Collected
<1> PICK x, H : x = Accessing(q) /\ H = Goto1Of(g, J, Accessing(q)) OBVIOUS
<1>2. x \in Nexts1(g, J) /\ Core(H) = Itemset(q) BY <1>1, GotoCore
<1>3. H \in Collection1(g) BY <1>0, <1>1, <1>2, CollectionFacts DEF CollectionClosed
<1> PICK it : it = << r, d, t >> OBVIOUS
<1>4. it[1] = r /\ it[2] = d /\ it[3] = t /\ it \in J /\ it \in Items1(g) BY <1>1
<1>5. Next1(g, it) = x BY <1>0, <1>4, Next1Facts DEF SymbolAfter
<1>6. << r, d + 1, t >> \in Moved(g, J, x)
  <2>1. it \in { y \in J : Next1(g, y) = x } BY <1>4, <1>5
  <2>2. << it[1], it[2] + 1, it[3] >> \in Moved(g, J, x) BY <2>1 DEF Moved
  <2> QED BY <1>4, <2>2
<1>7. Moved(g, J, x) \in SUBSET Items1(g) BY <1>0, <1>1, <1>2, MovedFacts
<1>8. Moved(g, J, x) \subseteq H BY <1>0, <1>7, Closure1Facts DEF Goto1Of
<1> QED BY <1>2, <1>3, <1>6, <1>8 DEF Collected

LEMMA FollowPath ==
    ASSUME LRBuilt, AllProductive(g), NEW n \in DOMAIN states, NEW J, Collected(J, n),
           NEW r, r # 2, NEW t, << r, 0, t >> \in J, NEW e0 \in 0 .. Len(Rhs(g, r))
    PROVE  \E H : Collected(H, Path(n, r, e0)) /\ << r, e0, t >> \in H
<1>0. g \in Grammars BY StateZero
<1>1. J \in SUBSET Items1(g) /\ Core(J) = Itemset(n) BY <1>0, CollectionIsClosed DEF Collected
<1>2. << r, 0 >> \in Itemset(n) BY <1>0, <1>1, CoreItems
<1>3. Len(Rhs(g, r)) \in Nat BY <1>2, ItemShifted
<1> DEFINE Right(e) == \E H : Collected(H, Path(n, r, e)) /\ << r, e, t >> \in H
           Bad == { e \in 0 .. Len(Rhs(g, r)) : ~Right(e) }
<1> SUFFICES ASSUME ~Right(e0) PROVE FALSE OBVIOUS
<1>4. PICK e \in Bad : \A x \in Bad : e <= x
  <2>1. Bad \in SUBSET Nat BY <1>3
  <2>2. Bad # {} OBVIOUS
  <2> HIDE DEF Bad
  <2> QED BY <2>1, <2>2, LeastExists
<1>5. e # 0
  <2>1. Right(0) BY <1>2, PathIs
  <2> HIDE DEF Right
  <2> QED BY <1>4, <2>1
<1>6. PICK d : d = e - 1 OBVIOUS
<1>7. d \in 0 .. Len(Rhs(g, r)) /\ d < Len(Rhs(g, r)) /\ d + 1 = e /\ d < e /\ e \in 0 .. Len(Rhs(g, r))
  BY <1>3, <1>4, <1>5, <1>6
<1>8. Right(d)
  <2> HIDE DEF Right
  <2>1. d \notin Bad
    <3>1. d \in Bad => e <= d BY <1>4
    <3> QED BY <1>3, <1>7, <3>1
  <2> QED BY <1>7, <2>1
<1>9. PICK H : Collected(H, Path(n, r, d)) /\ << r, d, t >> \in H BY <1>8
<1>10. /\ Path(n, r, d) \in DOMAIN states /\ Leads(Path(n, r, d), Path(n, r, d + 1))
       /\ Accessing(Path(n, r, d + 1)) = Rhs(g, r)[d + 1]
  BY <1>2, <1>7, PathIs
<1>11. \E K : Collected(K, Path(n, r, d + 1)) /\ << r, d + 1, t >> \in K BY <1>7, <1>9, <1>10, FollowItem
<1>12. Right(e) BY <1>7, <1>11
<1> HIDE DEF Right
<1> QED BY <1>4, <1>12

(* The tokens that can follow a goto. *)
CanFollow(k) ==
    { t \in TokensOf(g) :
        \E J : /\ Collected(J, fromState[k])
               /\ \E r, d, u : /\ << r, d, u >> \in J /\ d < Len(Rhs(g, r)) /\ Rhs(g, r)[d + 1] = SymbolOf(k)
                               /\ Comes(g, r, d + 1, u, t) }

LEMMA FollowedBy ==
    ASSUME LalrBuilt, AllProductive(g), NEW k \in GotoNumber, NEW t \in CanFollow(k), NEW r \in RulesOfGoto(k),
           NEW e \in 0 .. Len(Rhs(g, r))
    PROVE  \E H : Collected(H, Path(fromState[k], r, e)) /\ << r, e, t >> \in H
<1>0. g \in Grammars /\ LRBuilt BY StateZero DEF LalrBuilt
<1>1. fromState[k] \in DOMAIN states /\ r \in DOMAIN g.rules /\ r # 2 /\ g.rules[r].lhs = SymbolOf(k)
  BY RulesOfGotoFacts
<1>2. PICK J, s, d, u : /\ Collected(J, fromState[k]) /\ << s, d, u >> \in J /\ d < Len(Rhs(g, s))
                        /\ Rhs(g, s)[d + 1] = SymbolOf(k) /\ Comes(g, s, d + 1, u, t)
  BY DEF CanFollow
<1>3. Closed1(g, J) BY <1>0, <1>2, CollectionIsClosed DEF Collected
<1> PICK it : it = << s, d, u >> OBVIOUS
<1>4. it[1] = s /\ it[2] = d /\ it[3] = u /\ it \in J BY <1>2
<1>5. r \in RulesOf(g, SymbolAfter(g, it)) BY <1>1, <1>2, <1>4 DEF SymbolAfter, RulesOf
<1>6. t \in 0 .. g.ntokens - 1 BY DEF CanFollow, TokensOf
<1>7. << r, 0, t >> \in J BY <1>2, <1>3, <1>4, <1>5, <1>6 DEF Closed1
<1> QED BY <1>0, <1>1, <1>2, <1>7, FollowPath

(* The equations of the includes relation. *)
FollowsSolved(f, rd) ==
    \A k \in GotoNumber :
        /\ rd[k] \subseteq f[k]
        /\ \A l \in GotoNumber : Includes(k, l) => f[k] \subseteq f[l]

LEMMA CanFollowSolves ==
    ASSUME LalrBuilt, AllProductive(g)
    PROVE  FollowsSolved([k \in GotoNumber |-> CanFollow(k)], [k \in GotoNumber |-> CanRead(k)])
<1>0. g \in Grammars /\ LRBuilt BY StateZero DEF LalrBuilt
<1>1. ASSUME NEW k \in GotoNumber, NEW t \in CanRead(k) PROVE t \in CanFollow(k)
  <2>1. t \in TokensOf(g) BY DEF CanRead
  <2>2. PICK r, d : /\ << r, d >> \in Itemset(fromState[k]) /\ d < Len(Rhs(g, r))
                    /\ Rhs(g, r)[d + 1] = SymbolOf(k) /\ CanBegin(r, d + 1, t)
    BY DEF CanRead
  <2>3. fromState[k] \in DOMAIN states BY GotoTable
  <2>4. PICK J \in Collection1(g) : Core(J) = Itemset(fromState[k]) BY <1>0, <2>3, StatesAre
  <2>5. J \in SUBSET Items1(g) BY <1>0, CollectionIsClosed
  <2>6. PICK u : << r, d, u >> \in J BY <1>0, <2>2, <2>4, <2>5, CoreItems
  <2>7. Comes(g, r, d + 1, u, t) BY <2>2 DEF Comes, CanBegin
  <2> QED BY <2>1, <2>2, <2>4, <2>6, <2>7 DEF CanFollow, Collected
<1>2. ASSUME NEW k \in GotoNumber, NEW l \in GotoNumber, Includes(k, l), NEW t \in CanFollow(k)
      PROVE  t \in CanFollow(l)
  <2>1. PICK r \in RulesOfGoto(k) : \E p \in 1 .. Len(Rhs(g, r)) :
            /\ Rhs(g, r)[p] = SymbolOf(l) /\ Vanishes(g, Ns(g), r, p)
            /\ fromState[l] = Path(fromState[k], r, p - 1)
    BY <1>2 DEF Includes
  <2>2. PICK p \in 1 .. Len(Rhs(g, r)) :
            /\ Rhs(g, r)[p] = SymbolOf(l) /\ Vanishes(g, Ns(g), r, p)
            /\ fromState[l] = Path(fromState[k], r, p - 1)
    BY <2>1
  <2>3. Len(Rhs(g, r)) \in Nat BY RulesOfGotoFacts
  <2>4. PICK d : d = p - 1 OBVIOUS
  <2>5. d \in 0 .. Len(Rhs(g, r)) /\ d < Len(Rhs(g, r)) /\ d + 1 = p BY <2>3, <2>4
  <2>6. fromState[l] = Path(fromState[k], r, d) BY <2>2, <2>4
  <2>7. PICK H : Collected(H, fromState[l]) /\ << r, d, t >> \in H BY <2>5, <2>6, FollowedBy
  <2>8. Rhs(g, r)[d + 1] = SymbolOf(l) /\ Comes(g, r, d + 1, t, t) BY <2>2, <2>5 DEF Comes
  <2>9. t \in TokensOf(g) BY DEF CanFollow
  <2> QED BY <2>5, <2>7, <2>8, <2>9 DEF CanFollow
<1> PICK f, rd : f = [k \in GotoNumber |-> CanFollow(k)] /\ rd = [k \in GotoNumber |-> CanRead(k)] OBVIOUS
<1>3. \A k \in GotoNumber : f[k] = CanFollow(k) /\ rd[k] = CanRead(k) OBVIOUS
<1>4. FollowsSolved(f, rd)
  <2> SUFFICES ASSUME NEW k \in GotoNumber
               PROVE  rd[k] \subseteq f[k] /\ \A l \in GotoNumber : Includes(k, l) => f[k] \subseteq f[l]
    BY DEF FollowsSolved
  <2>1. rd[k] \subseteq f[k] BY <1>1, <1>3
  <2>2. \A l \in GotoNumber : Includes(k, l) => f[k] \subseteq f[l] BY <1>2, <1>3
  <2> QED BY <2>1, <2>2
<1> QED BY <1>4

(* What follows a goto is a lookahead of its rules where they end. *)
LEMMA FollowIsLookahead ==
    ASSUME LalrBuilt, AllProductive(g), NEW k \in GotoNumber, NEW t \in CanFollow(k), NEW r \in RulesOfGoto(k)
    PROVE  t \in LookaheadLALR(g, Collection1(g), Itemset(Path(fromState[k], r, Len(Rhs(g, r)))), r)
<1>1. Len(Rhs(g, r)) \in Nat BY RulesOfGotoFacts
<1> PICK e : e = Len(Rhs(g, r)) OBVIOUS
<1>2. e \in 0 .. Len(Rhs(g, r)) BY <1>1
<1>3. PICK H : Collected(H, Path(fromState[k], r, e)) /\ << r, e, t >> \in H BY <1>2, FollowedBy
<1> PICK it : it = << r, e, t >> OBVIOUS
<1>4. it[1] = r /\ it[2] = Len(Rhs(g, r)) /\ it[3] = t /\ it \in H BY <1>3
<1>5. t \in Complete1(g, H, r) BY <1>4 DEF Complete1
<1> QED BY <1>3, <1>5 DEF LookaheadLALR, Collected

-----------------------------------------------------------------------------
(***************************************************************************)
(* Conversely, every lookahead in the canonical collection is that of a    *)
(* goto, for each solution f of the equations.                             *)
(***************************************************************************)
Explained(f, n, r, d, t) ==
    \/ r = 2 /\ t = 0
    \/ \E k \in GotoNumber : r \in RulesOfGoto(k) /\ Path(fromState[k], r, d) = n /\ t \in f[k]
AllExplained(f, J, n) == \A r, d, t : << r, d, t >> \in J => Explained(f, n, r, d, t)

LEMMA ClosureExplained ==
    ASSUME LalrBuilt, AllProductive(g), NEW f,
           FollowsSolved(f, [k \in GotoNumber |-> CanRead(k)]), NEW n \in DOMAIN states,
           NEW K \in SUBSET Items1(g), Core(K) = states[n].items, AllExplained(f, K, n)
    PROVE  Core(Closure1Of(g, K)) = Itemset(n) /\ AllExplained(f, Closure1Of(g, K), n)
<1>0. g \in Grammars /\ LRBuilt BY StateZero DEF LalrBuilt
<1>1. IsClosure0(g, states[n].items, Itemset(n)) BY <1>0, ItemsetIs
<1>2. Core(Closure1Of(g, K)) = Itemset(n) BY <1>0, <1>1, CoreOfClosure, SameClosure
<1>3. \A k \in GotoNumber : CanRead(k) \subseteq f[k] /\ \A l \in GotoNumber : Includes(k, l) => f[k] \subseteq f[l]
  BY DEF FollowsSolved
<1> PICK S : S = { it \in Items1(g) : << it[1], it[2] >> \in Itemset(n) /\ Explained(f, n, it[1], it[2], it[3]) } OBVIOUS
<1>4. S \in SUBSET Items1(g) OBVIOUS
<1>5. K \subseteq S
  <2> SUFFICES ASSUME NEW it \in K PROVE it \in S OBVIOUS
  <2>1. it \in Items1(g) OBVIOUS
  <2>2. it = << it[1], it[2], it[3] >> BY <1>0, <2>1, Items1Facts
  <2>3. << it[1], it[2] >> \in Core(K) BY DEF Core
  <2>4. << it[1], it[2] >> \in Itemset(n) BY <1>1, <2>3 DEF IsClosure0
  <2>5. Explained(f, n, it[1], it[2], it[3]) BY <2>2 DEF AllExplained
  <2> QED BY <2>1, <2>4, <2>5
<1>6. Closed1(g, S)
  <2> SUFFICES ASSUME NEW it \in S, it[2] < Len(Rhs(g, it[1])), NEW s \in RulesOf(g, SymbolAfter(g, it)),
                      NEW t \in 0 .. g.ntokens - 1, Comes(g, it[1], it[2] + 1, it[3], t)
               PROVE  << s, 0, t >> \in S
    BY DEF Closed1
  <2> PICK r, d, u : r = it[1] /\ d = it[2] /\ u = it[3] OBVIOUS
  <2>1. it \in Items1(g) /\ << r, d >> \in Itemset(n) /\ Explained(f, n, r, d, u) OBVIOUS
  <2>2. r \in DOMAIN g.rules /\ d \in 0 .. Len(Rhs(g, r)) /\ Len(Rhs(g, r)) \in Nat /\ d < Len(Rhs(g, r))
    BY <1>0, <2>1, Items1Facts, SymbolKinds
  <2>3. s \in DOMAIN g.rules /\ g.rules[s].lhs = Rhs(g, r)[d + 1] BY DEF RulesOf, SymbolAfter
  <2>4. Rhs(g, r)[d + 1] \in Vars(g) /\ Len(Rhs(g, s)) \in Nat BY <1>0, <2>3, SymbolKinds
  <2>5. PICK k \in GotoNumber : fromState[k] = n /\ SymbolOf(k) = Rhs(g, r)[d + 1] BY <2>1, <2>2, <2>4, GotoOfItem
  <2>6. s \in RulesOfGoto(k) BY <2>3, <2>5, RulesOfGotoFacts
  <2>7. s # 2 /\ << s, 0 >> \in Itemset(n) BY <2>5, <2>6, RulesOfGotoFacts
  <2>8. Path(n, s, 0) = n BY <1>0, <2>7, PathIs
  <2>9. t \in f[k]
    <3>1. CASE Begins(g, Ns(g), Ps(g), r, d + 1, t)
      <4>1. t \in CanRead(k) BY <2>1, <2>2, <2>5, <3>1 DEF CanRead, CanBegin, TokensOf
      <4> QED BY <1>3, <4>1
    <3>2. CASE Vanishes(g, Ns(g), r, d + 1) /\ t = u
      <4>1. r # 2
        <5> SUFFICES ASSUME r = 2 PROVE FALSE OBVIOUS
        <5>1. Rhs(g, 2) = << g.ntokens + 1, 0 >> /\ g.ntokens \in Nat /\ g.ntokens > 1 BY <1>0, StartFacts, SymbolKinds
        <5>2. Len(Rhs(g, 2)) = 2 /\ Rhs(g, 2)[2] = 0 BY <5>1
        <5>3. 0 \notin Vars(g) BY <5>1 DEF Vars
        <5>4. d = 0
          <6>1. d = 0 \/ d = 1 BY <2>2, <5>2
          <6>2. d = 1 => Rhs(g, r)[d + 1] = 0 BY <5>2
          <6> QED BY <2>4, <5>3, <6>1, <6>2
        <5>5. 2 \in d + 1 + 1 .. Len(Rhs(g, r)) BY <5>2, <5>4
        <5>6. 0 \in Ns(g) BY <3>2, <5>2, <5>5 DEF Vanishes
        <5> QED BY <1>0, <5>3, <5>6, NullableFacts DEF Ns
      <4>2. PICK l \in GotoNumber : r \in RulesOfGoto(l) /\ Path(fromState[l], r, d) = n /\ u \in f[l]
        BY <2>1, <4>1 DEF Explained
      <4>p. PICK p : p = d + 1 OBVIOUS
      <4>3. p \in 1 .. Len(Rhs(g, r)) /\ p - 1 = d BY <2>2, <4>p
      <4>4. Rhs(g, r)[p] = SymbolOf(k) /\ Vanishes(g, Ns(g), r, p) BY <2>5, <3>2, <4>p
      <4>5. fromState[k] = Path(fromState[l], r, p - 1) BY <2>5, <4>2, <4>3
      <4>6. Includes(l, k) BY <4>2, <4>3, <4>4, <4>5 DEF Includes
      <4> QED BY <1>3, <3>2, <4>2, <4>6
    <3>3. Comes(g, r, d + 1, u, t) OBVIOUS
    <3> QED BY <3>1, <3>2, <3>3 DEF Comes
  <2>10. Explained(f, n, s, 0, t) BY <2>5, <2>6, <2>8, <2>9 DEF Explained
  <2>11. << s, 0, t >> \in Items1(g)
    <3>1. 0 \in 0 .. Len(Rhs(g, s)) BY <2>4
    <3> QED BY <1>0, <2>3, <3>1, Items1Facts
  <2>12. PICK c : c = << s, 0, t >> OBVIOUS
  <2>13. c[1] = s /\ c[2] = 0 /\ c[3] = t /\ c \in Items1(g) BY <2>11, <2>12
  <2>14. c \in S BY <2>7, <2>10, <2>13
  <2> QED BY <2>12, <2>14
<1>7. Closure1Of(g, K) \subseteq S BY <1>0, <1>4, <1>5, <1>6, Closure1Facts
<1>8. ASSUME NEW r, NEW d, NEW t, << r, d, t >> \in Closure1Of(g, K) PROVE Explained(f, n, r, d, t)
  <2>1. PICK it : it = << r, d, t >> OBVIOUS
  <2>2. it \in S /\ it[1] = r /\ it[2] = d /\ it[3] = t BY <1>7, <1>8, <2>1
  <2> QED BY <2>2
<1> QED BY <1>2, <1>8 DEF AllExplained

LEMMA CollectionExplained ==
    ASSUME LalrBuilt, AllProductive(g), NEW f, FollowsSolved(f, [k \in GotoNumber |-> CanRead(k)])
    PROVE  \A J \in Collection1(g) : \E n \in DOMAIN states : Core(J) = Itemset(n) /\ AllExplained(f, J, n)
<1>0. g \in Grammars /\ LRBuilt /\ Built BY StateZero DEF LalrBuilt, LRBuilt
<1> PICK Q : Q = { J \in SUBSET Items1(g) : \E n \in DOMAIN states : Core(J) = Itemset(n) /\ AllExplained(f, J, n) } OBVIOUS
<1>1. Q \in SUBSET SUBSET Items1(g) OBVIOUS
<1>2. ASSUME NEW n \in DOMAIN states, NEW K \in SUBSET Items1(g), Core(K) = states[n].items, AllExplained(f, K, n)
      PROVE  Closure1Of(g, K) \in Q
  <2>1. Core(Closure1Of(g, K)) = Itemset(n) /\ AllExplained(f, Closure1Of(g, K), n) BY <1>2, ClosureExplained
  <2>2. Closure1Of(g, K) \in SUBSET Items1(g) BY <1>0, Closure1Facts
  <2> QED BY <2>1, <2>2
<1>3. Start1(g) \in Q
  <2> PICK K : K = { << g.top, 0, 0 >> } OBVIOUS
  <2>1. K \in SUBSET Items1(g) /\ g.top = 2 BY <1>0, StartFacts
  <2>2. 0 \in DOMAIN states /\ states[0].items = { << 2, 0 >> } BY <1>0, StateZero
  <2>3. Core(K) = { << 2, 0 >> }
    <3> PICK it : it = << 2, 0, 0 >> OBVIOUS
    <3>1. K = { it } /\ it[1] = 2 /\ it[2] = 0 BY <2>1
    <3> QED BY <3>1 DEF Core
  <2>4. AllExplained(f, K, 0)
    <3> SUFFICES ASSUME NEW r, NEW d, NEW t, << r, d, t >> \in K PROVE Explained(f, 0, r, d, t) BY DEF AllExplained
    <3>1. << r, d, t >> = << 2, 0, 0 >> BY <2>1
    <3>2. r = 2 /\ t = 0 BY <3>1
    <3> QED BY <3>2 DEF Explained
  <2> QED BY <1>2, <2>1, <2>2, <2>3, <2>4 DEF Start1
<1>4. ASSUME NEW J \in Q, NEW x \in Nexts1(g, J) PROVE Goto1Of(g, J, x) \in Q
  <2>1. PICK n \in DOMAIN states : Core(J) = Itemset(n) /\ AllExplained(f, J, n) OBVIOUS
  <2>2. J \in SUBSET Items1(g) OBVIOUS
  <2>3. PICK q : Leads(n, q) /\ Accessing(q) = x BY <1>0, <2>1, <2>2, GotoCore
  <2>4. q \in DOMAIN states /\ x \in Nexts(Itemset(n)) /\ states[q].items = Kernel(Itemset(n), x)
    BY <1>0, <2>3, Transitions
  <2> PICK K : K = Moved(g, J, x) OBVIOUS
  <2>5. K \in SUBSET Items1(g) /\ Core(K) = states[q].items BY <1>0, <2>1, <2>2, <2>4, MovedFacts, CoreMoved
  <2>6. AllExplained(f, K, q)
    <3> SUFFICES ASSUME NEW r, NEW e, NEW t, << r, e, t >> \in K PROVE Explained(f, q, r, e, t) BY DEF AllExplained
    <3>1. PICK it \in { y \in J : Next1(g, y) = x } : << r, e, t >> = << it[1], it[2] + 1, it[3] >> BY DEF Moved
    <3> PICK d : d = it[2] OBVIOUS
    <3>2. it[1] = r /\ e = d + 1 /\ it[3] = t /\ it \in J /\ it \in Items1(g) /\ Next1(g, it) = x BY <2>2, <3>1
    <3>3. it = << r, d, t >> /\ r \in DOMAIN g.rules BY <1>0, <3>2, Items1Facts
    <3>4. x \in Nat
      <4>1. x \in 1 .. g.nsyms - 1 BY <1>0, <2>3, Transitions
      <4> QED BY <4>1
    <3>5. d < Len(Rhs(g, r)) /\ x = Rhs(g, r)[d + 1]
      <4>1. x # -1 BY <3>4
      <4> QED BY <1>0, <3>2, <4>1, Next1Facts DEF SymbolAfter
    <3>6. d \in 0 .. Len(Rhs(g, r)) BY <1>0, <3>2, Items1Facts
    <3>7. Explained(f, n, r, d, t) BY <2>1, <3>2, <3>3 DEF AllExplained
    <3>8. CASE r = 2 /\ t = 0 BY <3>8 DEF Explained
    <3>9. CASE \E k \in GotoNumber : r \in RulesOfGoto(k) /\ Path(fromState[k], r, d) = n /\ t \in f[k]
      <4>1. PICK k \in GotoNumber : r \in RulesOfGoto(k) /\ Path(fromState[k], r, d) = n /\ t \in f[k] BY <3>9
      <4>2. fromState[k] \in DOMAIN states /\ r # 2 /\ << r, 0 >> \in Itemset(fromState[k]) BY <4>1, RulesOfGotoFacts
      <4> PICK q1 : q1 = Path(fromState[k], r, d + 1) OBVIOUS
      <4>3. Leads(n, q1) /\ Accessing(q1) = x BY <1>0, <3>5, <3>6, <4>1, <4>2, PathIs
      <4>4. q1 = q BY <1>0, <2>3, <4>3, Transitions
      <4> QED BY <3>2, <4>1, <4>4 DEF Explained
    <3> QED BY <3>7, <3>8, <3>9 DEF Explained
  <2> QED BY <1>2, <2>4, <2>5, <2>6 DEF Goto1Of
<1>5. CollectionClosed(g, Q) BY <1>3, <1>4 DEF CollectionClosed
<1>6. Collection1(g) \subseteq Q BY <1>0, <1>1, <1>5, CollectionFacts
<1> QED BY <1>6

LEMMA LookaheadFollows ==
    ASSUME LalrBuilt, AllProductive(g), NEW f, FollowsSolved(f, [k \in GotoNumber |-> CanRead(k)]),
           NEW q \in DOMAIN states, NEW r, NEW t \in LookaheadLALR(g, Collection1(g), Itemset(q), r)
    PROVE  \E k \in GotoNumber : r \in RulesOfGoto(k) /\ q = Path(fromState[k], r, Len(Rhs(g, r))) /\ t \in f[k]
<1>0. g \in Grammars /\ LRBuilt BY StateZero DEF LalrBuilt
<1>1. PICK J \in Collection1(g) : Core(J) = Itemset(q) /\ t \in Complete1(g, J, r) BY DEF LookaheadLALR
<1>2. PICK it \in J : it[1] = r /\ it[2] = Len(Rhs(g, r)) /\ it[3] = t BY <1>1 DEF Complete1
<1>3. J \in SUBSET Items1(g) /\ it \in Items1(g) BY <1>0, CollectionIsClosed
<1> PICK e : e = Len(Rhs(g, r)) OBVIOUS
<1>4. << r, e, t >> \in J BY <1>0, <1>2, <1>3, Items1Facts
<1>5. PICK n \in DOMAIN states : Core(J) = Itemset(n) /\ AllExplained(f, J, n) BY CollectionExplained
<1>6. n = q BY <1>0, <1>1, <1>5, ItemsetsDiffer
<1>7. Explained(f, q, r, e, t) BY <1>4, <1>5, <1>6 DEF AllExplained
<1>8. r # 2
  <2> SUFFICES ASSUME r = 2 PROVE FALSE OBVIOUS
  <2>1. Rhs(g, 2) = << g.ntokens + 1, 0 >> BY <1>0, StartFacts
  <2>2. e = 2 BY <2>1
  <2>3. << r, e >> \in Core(J) BY <1>0, <1>3, <1>4, CoreItems
  <2>4. << 2, 2 >> \in Itemset(q) BY <1>1, <2>2, <2>3
  <2> QED BY <1>0, <2>4, AcceptAtStart
<1> QED BY <1>7, <1>8 DEF Explained

-----------------------------------------------------------------------------
(***************************************************************************)
(* The least solutions of both equations give the LALR(1) lookaheads.      *)
(***************************************************************************)
LeastReads(rd) ==
    /\ ReadsSolved(rd)
    /\ \A f \in [GotoNumber -> SUBSET Nat] : ReadsSolved(f) => \A k \in GotoNumber : rd[k] \subseteq f[k]
LeastFollows(fo, rd) ==
    /\ FollowsSolved(fo, rd)
    /\ \A f \in [GotoNumber -> SUBSET Nat] : FollowsSolved(f, rd) => \A k \in GotoNumber : fo[k] \subseteq f[k]

LEMMA LookaheadsAre ==
    ASSUME LalrBuilt, AllProductive(g), NEW rd \in [GotoNumber -> SUBSET Nat], LeastReads(rd),
           NEW fo, LeastFollows(fo, rd), NEW q \in DOMAIN states, NEW r
    PROVE  UNION { fo[k] : k \in { l \in GotoNumber : << q, r, l >> \in LookbackEdges } }
              = LookaheadLALR(g, Collection1(g), Itemset(q), r)
<1>0. g \in Grammars /\ g.ntokens \in Nat BY StateZero, SymbolKinds DEF LalrBuilt
<1> PICK cr, cf : cr = [k \in GotoNumber |-> CanRead(k)] /\ cf = [k \in GotoNumber |-> CanFollow(k)] OBVIOUS
<1>1. cr \in [GotoNumber -> SUBSET Nat] /\ cf \in [GotoNumber -> SUBSET Nat]
  <2>1. \A k \in GotoNumber : CanRead(k) \in SUBSET Nat BY <1>0 DEF CanRead, TokensOf
  <2>2. \A k \in GotoNumber : CanFollow(k) \in SUBSET Nat BY <1>0 DEF CanFollow, TokensOf
  <2> QED BY <2>1, <2>2
<1>2. rd = cr
  <2>1. \A k \in GotoNumber : rd[k] \subseteq CanRead(k) BY <1>1, CanReadSolves DEF LeastReads
  <2>2. \A k \in GotoNumber : CanRead(k) \subseteq rd[k] BY ReadsAreLeast DEF LeastReads
  <2>3. \A k \in GotoNumber : rd[k] = cr[k] BY <2>1, <2>2
  <2> QED BY <1>1, <2>3
<1>3. FollowsSolved(fo, cr) /\ \A k \in GotoNumber : fo[k] \subseteq CanFollow(k)
  BY <1>1, <1>2, CanFollowSolves DEF LeastFollows
<1>4. ASSUME NEW k \in GotoNumber, << q, r, k >> \in LookbackEdges, NEW t \in fo[k]
      PROVE  t \in LookaheadLALR(g, Collection1(g), Itemset(q), r)
  <2>1. r \in RulesOfGoto(k) /\ q = Path(fromState[k], r, Len(Rhs(g, r))) BY <1>4, LookbackIs
  <2>2. t \in CanFollow(k) BY <1>3
  <2> QED BY <2>1, <2>2, FollowIsLookahead
<1>5. ASSUME NEW t \in LookaheadLALR(g, Collection1(g), Itemset(q), r)
      PROVE  \E k \in GotoNumber : << q, r, k >> \in LookbackEdges /\ t \in fo[k]
  <2>1. PICK k \in GotoNumber : r \in RulesOfGoto(k) /\ q = Path(fromState[k], r, Len(Rhs(g, r))) /\ t \in fo[k]
    BY <1>3, LookaheadFollows
  <2>2. << q, r, k >> \in LookbackEdges BY <2>1, LookbackIs
  <2> QED BY <2>1, <2>2
<1> QED BY <1>4, <1>5

-----------------------------------------------------------------------------
(***************************************************************************)
(* The two runs of digraph(): its proofs, for the variables of the same    *)
(* name.  ByaccLalr, like Digraph, has infinity as a number: with the last *)
(* two counts that set_goto_map() lets pass, MAXYYINT - 1 and MAXYYINT,    *)
(* the Value_t of the code cannot hold it (lalr.c:540), and what is proved *)
(* here does not speak of that code.                                       *)
(***************************************************************************)
DG == INSTANCE DigraphProofs WITH Tokens <- Nat, Inputs <- {}, MAXYYINT <- MAXYYINT + 2
Walking == DG!IInv /\ DG!ReachOK

LEMMA DigraphInputs == MAXYYINT + 2 \in Nat /\ \A in \in {} : DG!CallOK(in)
BY GrammarsAssumption

LEMMA DigraphSteps == D!Next => DG!Next
BY DEF D!Next, DG!Next, D!Root, DG!Root, D!Skip, DG!Skip, D!Descend, DG!Descend, D!Merge, DG!Merge,
       D!Return, DG!Return, D!Close, DG!Close, D!Enter, DG!Enter, D!cur, DG!cur, D!target, DG!target,
       D!New, DG!New, D!input, DG!input, D!Component, DG!Component, D!infinity, DG!infinity, D!Gotos, DG!Gotos

LEMMA WalkStep == Walking /\ D!Next => Walking' /\ UNCHANGED << ngotos, R, F0 >>
<1> SUFFICES ASSUME Walking, D!Next PROVE Walking' /\ UNCHANGED << ngotos, R, F0 >> OBVIOUS
<1>1. DG!IInv' BY DigraphInputs, DigraphSteps, DG!StepInv DEF Walking
<1>2. DG!ReachOK' BY DigraphInputs, DigraphSteps, DG!StepReaches DEF Walking
<1>3. UNCHANGED << ngotos, R, F0 >>
  BY DEF D!Next, D!Root, D!Skip, D!Descend, D!Merge, D!Return, D!Close, D!input
<1> QED BY <1>1, <1>2, <1>3 DEF Walking

LEMMA CallStarts ==
    ASSUME NEW n, NEW E, NEW f, n \in Nat, n <= MAXYYINT,
           E \in [0 .. n - 1 -> Seq(0 .. n - 1)], f \in [0 .. n - 1 -> SUBSET Nat]
    PROVE  CallDigraph(n, E, f) => Walking'
<1> PICK in : in = [ngotos |-> n, R |-> E, F |-> f] OBVIOUS
<1>1. in.ngotos = n /\ in.R = E /\ in.F = f OBVIOUS
<1>2. DG!CallOK(in)
  <2>1. MAXYYINT \in Nat BY GrammarsAssumption
  <2>2. n + 2 <= MAXYYINT + 2 BY <2>1
  <2> QED BY <1>1, <2>2 DEF DG!CallOK
<1>3. DG!Start(in) => Walking BY <1>2, DigraphInputs, DG!StartInv DEF Walking
<1>4. DG!Start(in)' => Walking' BY <1>3, PTL
<1>5. CallDigraph(n, E, f) => DG!Start(in)' BY <1>1 DEF CallDigraph, DG!Start
<1> QED BY <1>4, <1>5

(* What digraph() returns is the least solution. *)
LEMMA WalkEnds ==
    ASSUME Walking, D!Terminated
    PROVE  /\ F \in [GotoNumber -> SUBSET Nat] /\ DG!Solution(F)
           /\ \A f \in [GotoNumber -> SUBSET Nat] : DG!Solution(f) => \A k \in GotoNumber : F[k] \subseteq f[k]
<1>1. DG!Terminated BY DEF D!Terminated, DG!Terminated
<1>2. DG!Complete BY DigraphInputs, DG!ClosedWhenDone DEF Walking
<1>3. DG!Solution(F) BY <1>1, <1>2 DEF DG!Complete
<1>4. F \in [GotoNumber -> SUBSET Nat] BY DEF Walking, DG!IInv, DG!TypeOK, DG!Gotos, GotoNumber
<1>5. \A f \in [GotoNumber -> SUBSET Nat] : DG!Solution(f) => \A k \in GotoNumber : F[k] \subseteq f[k]
  BY DEF Walking, DG!ReachOK, DG!Reaches, DG!Gotos, GotoNumber
<1> QED BY <1>3, <1>4, <1>5

-----------------------------------------------------------------------------
(***************************************************************************)
(* The equations stay, as the automaton and the gotos do.                  *)
(***************************************************************************)
automaton == << g, nullable, firstDerives, states, shift, fromState, toState, ngotos >>

PathOf(sh, st, gr, n, r, k) ==
    LET at[e \in 0 .. k] ==
            IF e = 0 THEN n
            ELSE CHOOSE q \in ToSet(sh[at[e - 1]]) : st[q].accessing_symbol = Rhs(gr, r)[e]
    IN  at[k]

LEMMA PathByParts == \A n, r, k : Path(n, r, k) = PathOf(shift, states, g, n, r, k)
BY DEF Path, PathOf, AccessingSymbol

LEMMA SamePath ==
    UNCHANGED automaton => \A n, r, k : Path(n, r, k)' = Path(n, r, k)
<1>1. (\A n, r, k : Path(n, r, k) = PathOf(shift, states, g, n, r, k))' BY PathByParts, PTL
<1>2. ASSUME UNCHANGED automaton, NEW n, NEW r, NEW k PROVE Path(n, r, k)' = Path(n, r, k)
  <2>1. Path(n, r, k)' = PathOf(shift', states', g', n, r, k) BY <1>1
  <2>2. shift' = shift /\ states' = states /\ g' = g BY <1>2 DEF automaton
  <2> QED BY <2>1, <2>2, PathByParts
<1> QED BY <1>2

LEMMA SameGotoFacts ==
    ASSUME UNCHANGED automaton
    PROVE  /\ GotoNumber' = GotoNumber
           /\ \A n : DirectReads(n)' = DirectReads(n)
           /\ \A k : SymbolOf(k)' = SymbolOf(k) /\ RulesOfGoto(k)' = RulesOfGoto(k)
<1>1. /\ g' = g /\ nullable' = nullable /\ states' = states /\ shift' = shift
      /\ fromState' = fromState /\ toState' = toState /\ ngotos' = ngotos
  BY DEF automaton
<1>2. GotoNumber' = GotoNumber BY <1>1 DEF GotoNumber
<1>3. \A n : DirectReads(n)' = DirectReads(n)
  BY <1>1 DEF DirectReads, Shifts, AccessingSymbol, ISTOKEN, start_symbol
<1>4. \A k : SymbolOf(k)' = SymbolOf(k) BY <1>1 DEF SymbolOf, Accessing
<1>5. \A k : RulesOfGoto(k)' = RulesOfGoto(k) BY <1>1 DEF RulesOfGoto, AccessingSymbol
<1> QED BY <1>2, <1>3, <1>4, <1>5

LEMMA SameEquations ==
    ASSUME UNCHANGED automaton
    PROVE  /\ \A f : ReadsSolved(f)' <=> ReadsSolved(f)
           /\ \A k, l : Includes(k, l)' <=> Includes(k, l)
<1>1. /\ g' = g /\ fromState' = fromState /\ toState' = toState BY DEF automaton
<1>2. /\ GotoNumber' = GotoNumber
      /\ \A n : DirectReads(n)' = DirectReads(n)
      /\ \A k : SymbolOf(k)' = SymbolOf(k) /\ RulesOfGoto(k)' = RulesOfGoto(k)
  BY SameGotoFacts
<1>3. \A n, r, k : Path(n, r, k)' = Path(n, r, k) BY SamePath
<1>4. \A k, l : Reads(k, l)' <=> Reads(k, l) BY <1>1, <1>2 DEF Reads
<1>5. ASSUME NEW f PROVE ReadsSolved(f)' <=> ReadsSolved(f) BY <1>1, <1>2, <1>4 DEF ReadsSolved
<1>6. ASSUME NEW k, NEW l PROVE Includes(k, l)' <=> Includes(k, l) BY <1>1, <1>2, <1>3 DEF Includes
<1> QED BY <1>5, <1>6

(* What digraph() is called with, as equations. *)
ReadsEq == \A f : DG!Solution(f) <=> ReadsSolved(f)
IncludesEq == LeastReads(F0) /\ \A f : DG!Solution(f) <=> FollowsSolved(f, F0)
LookbackSet ==
    \A e \in LAentries :
        lookback[e] = { k \in GotoNumber : e[2] \in RulesOfGoto(k)
                                           /\ e[1] = Path(fromState[k], e[2], Len(Rhs(g, e[2]))) }

LEMMA EquationsStay ==
    ASSUME UNCHANGED automaton, UNCHANGED << reds, lookback, R, F0 >>
    PROVE  /\ ReadsEq => ReadsEq'
           /\ IncludesEq => IncludesEq'
           /\ LookbackSet => LookbackSet'
<1>1. g' = g /\ fromState' = fromState /\ reds' = reds /\ lookback' = lookback /\ R' = R /\ F0' = F0 /\ ngotos' = ngotos
  BY DEF automaton
<1>2. \A f : DG!Solution(f)' <=> DG!Solution(f) BY <1>1 DEF DG!Solution, DG!Gotos
<1>3. \A f : ReadsSolved(f)' <=> ReadsSolved(f) BY SameEquations
<1>4. GotoNumber' = GotoNumber /\ \A k : RulesOfGoto(k)' = RulesOfGoto(k) BY SameGotoFacts
<1>5. \A f : FollowsSolved(f, F0)' <=> FollowsSolved(f, F0) BY <1>1, <1>4, SameEquations DEF FollowsSolved
<1>6. LeastReads(F0)' <=> LeastReads(F0) BY <1>1, <1>3, <1>4 DEF LeastReads
<1>7. ReadsEq => ReadsEq' BY <1>2, <1>3 DEF ReadsEq
<1>8. IncludesEq => IncludesEq' BY <1>2, <1>5, <1>6 DEF IncludesEq
<1>9. LookbackSet => LookbackSet'
  <2>1. LAentries' = LAentries BY <1>1 DEF LAentries
  <2>2. \A n, r, k : Path(n, r, k)' = Path(n, r, k) BY SamePath
  <2>3. ASSUME NEW e
        PROVE  { k \in GotoNumber : e[2] \in RulesOfGoto(k) /\ e[1] = Path(fromState[k], e[2], Len(Rhs(g, e[2]))) }'
                = { k \in GotoNumber : e[2] \in RulesOfGoto(k) /\ e[1] = Path(fromState[k], e[2], Len(Rhs(g, e[2]))) }
    BY <1>1, <1>4, <2>2
  <2> QED BY <1>1, <2>1, <2>3 DEF LookbackSet
<1> QED BY <1>7, <1>8, <1>9

-----------------------------------------------------------------------------
(***************************************************************************)
(* The steps that call digraph(), and the one that takes what it returns.  *)
(***************************************************************************)
GotosFit == ngotos = Len(InOrder(Gotos, GotoOrder)) /\ Cardinality(Gotos) <= MAXYYINT

LEMMA GotosCounted ==
    ASSUME Built, GotosFit
    PROVE  ngotos <= MAXYYINT
<1> PICK s, S : s = InOrder(Gotos, GotoOrder) /\ S = Gotos OBVIOUS
<1> PICK L : L = { p \in Gotos \X Gotos : GotoOrder(p[1], p[2]) } OBVIOUS
<1>1. Sorted(s, S, L) BY GotosSorted
<1> PICK m : m = Len(s) OBVIOUS
<1>2. /\ s \in [1 .. m -> S] /\ m \in Nat
      /\ (\A x \in S : \E k \in 1 .. m : s[k] = x) /\ \A k, l \in 1 .. m : s[k] = s[l] => k = l
  BY <1>1 DEF Sorted
<1> HIDE DEF Sorted
<1>3. ExistsBijection(1 .. m, S)
  <2>1. s \in Bijection(1 .. m, S) BY <1>2 DEF Bijection, Injection, Surjection, IsInjective
  <2> QED BY <2>1 DEF ExistsBijection
<1>4. Cardinality(S) = m BY <1>2, <1>3, FS_CountingElements
<1>5. ngotos = m /\ Cardinality(S) <= MAXYYINT BY DEF GotosFit
<1> QED BY <1>4, <1>5

LEMMA InitializeFCalls ==
    ASSUME LalrBuilt, GotosFit, InitializeF
    PROVE  Walking' /\ ReadsEq'
<1>1. ngotos \in Nat /\ g \in Grammars BY GotoTable, StateZero DEF LalrBuilt
<1> PICK n, E, f : /\ n = ngotos /\ E = [k \in GotoNumber |-> ReadsOf(k)]
                   /\ f = [k \in GotoNumber |-> DirectReads(toState[k]) \cup (IF k = 0 THEN {0} ELSE {})]
  OBVIOUS
<1>2. CallDigraph(n, E, f) BY DEF InitializeF, ReadsOf, GotoNumber
<1>3. GotoNumber = 0 .. n - 1 /\ n \in Nat /\ n <= MAXYYINT BY <1>1, GotosCounted DEF GotoNumber, LalrBuilt, LRBuilt
<1>4. \A k \in GotoNumber : E[k] \in Seq(GotoNumber) /\ \A l \in GotoNumber : Listed(E[k], l) <=> Reads(k, l)
  BY ReadsIs
<1>5. E \in [0 .. n - 1 -> Seq(0 .. n - 1)] BY <1>3, <1>4
<1>6. f \in [0 .. n - 1 -> SUBSET Nat]
  <2>1. ASSUME NEW k \in GotoNumber PROVE DirectReads(toState[k]) \in SUBSET Nat
    <3>1. toState[k] \in DOMAIN states /\ Built BY GotoTable DEF LalrBuilt, LRBuilt
    <3>2. Nexts(Itemset(toState[k])) \in SUBSET Nat
      <4>1. ASSUME NEW x \in Nexts(Itemset(toState[k])) PROVE x \in Nat
        <5>1. PICK q : Leads(toState[k], q) /\ Accessing(q) = x BY <3>1, Transitions
        <5>2. x \in 1 .. g.nsyms - 1 BY <3>1, <5>1, Transitions
        <5> QED BY <5>2
      <4> QED BY <4>1
    <3> QED BY <3>1, <3>2, DirectReadsIs DEF LalrBuilt
  <2> QED BY <1>3, <2>1
<1>7. Walking' BY <1>2, <1>3, <1>5, <1>6, CallStarts
<1>8. ngotos' = n /\ R' = E /\ F0' = f BY <1>2 DEF CallDigraph
<1>9. UNCHANGED automaton BY <1>8 DEF InitializeF, automaton, gotoVars
<1>10. ASSUME NEW h PROVE DG!Solution(h)' <=> ReadsSolved(h)
  <2>1. DG!Solution(h)' <=> \A v \in GotoNumber : f[v] \subseteq h[v] /\ \A k \in 1 .. Len(E[v]) : h[E[v][k]] \subseteq h[v]
    BY <1>3, <1>8 DEF DG!Solution, DG!Gotos
  <2>2. ASSUME NEW v \in GotoNumber
        PROVE  (\A k \in 1 .. Len(E[v]) : h[E[v][k]] \subseteq h[v]) <=> \A l \in GotoNumber : Reads(v, l) => h[l] \subseteq h[v]
    <3>1. \A k \in 1 .. Len(E[v]) : E[v][k] \in GotoNumber BY <1>4
    <3>2. \A l \in GotoNumber : Reads(v, l) <=> \E k \in 1 .. Len(E[v]) : E[v][k] = l BY <1>4 DEF Listed
    <3> QED BY <3>1, <3>2
  <2>3. ASSUME NEW v \in GotoNumber
        PROVE  f[v] \subseteq h[v] <=> DirectReads(toState[v]) \subseteq h[v] /\ (v = 0 => 0 \in h[v])
    OBVIOUS
  <2> QED BY <2>1, <2>2, <2>3 DEF ReadsSolved
<1>11. \A h : ReadsSolved(h)' <=> ReadsSolved(h) BY <1>9, SameEquations
<1> QED BY <1>7, <1>10, <1>11 DEF ReadsEq

LEMMA BuildRelationsCalls ==
    ASSUME LalrBuilt, GotosFit, Walking, ReadsEq, BuildRelations
    PROVE  Walking' /\ IncludesEq' /\ LookbackSet'
<1>1. ngotos \in Nat /\ g \in Grammars BY GotoTable, StateZero DEF LalrBuilt
<1>a. PICK n, E, T, f : /\ n = ngotos /\ E = [k \in GotoNumber |-> IncludedBy(k)] /\ T = Transpose(E, n) /\ f = F
  OBVIOUS
<1>2. CallDigraph(n, T, f) BY <1>a DEF BuildRelations, GotoNumber
<1>3. GotoNumber = 0 .. n - 1 /\ n \in Nat /\ n <= MAXYYINT BY <1>1, <1>a, GotosCounted DEF GotoNumber, LalrBuilt, LRBuilt
<1>4. \A k \in GotoNumber : E[k] \in Seq(GotoNumber) /\ \A l \in GotoNumber : Listed(E[k], l) <=> Includes(k, l)
  BY <1>a, IncludedByIs
<1>5. /\ T \in [0 .. n - 1 -> Seq(0 .. n - 1)]
      /\ \A v, k \in 0 .. n - 1 : Listed(T[v], k) <=> Listed(E[k], v)
  <2>1. \A k \in 0 .. n - 1 : E[k] \in Seq(0 .. n - 1) BY <1>3, <1>4
  <2> QED BY <1>3, <1>a, <2>1, TransposeIs
<1>6. D!Terminated BY DEF BuildRelations
<1>7. /\ f \in [GotoNumber -> SUBSET Nat] /\ DG!Solution(f)
      /\ \A h \in [GotoNumber -> SUBSET Nat] : DG!Solution(h) => \A k \in GotoNumber : f[k] \subseteq h[k]
  BY <1>6, <1>a, WalkEnds
<1>8. LeastReads(f) BY <1>7 DEF LeastReads, ReadsEq
<1>9. Walking' BY <1>2, <1>3, <1>5, <1>7, CallStarts
<1>10. ngotos' = n /\ R' = T /\ F0' = f BY <1>2 DEF CallDigraph
<1>n. n = ngotos BY <1>a
<1>11. UNCHANGED automaton BY <1>10, <1>n DEF BuildRelations, automaton, gotoVars
<1>12. GotoNumber' = GotoNumber /\ \A k : RulesOfGoto(k)' = RulesOfGoto(k) BY <1>11, SameGotoFacts
<1>13. ASSUME NEW h PROVE DG!Solution(h)' <=> FollowsSolved(h, f)
  <2>1. DG!Solution(h)' <=> \A v \in GotoNumber : f[v] \subseteq h[v] /\ \A k \in 1 .. Len(T[v]) : h[T[v][k]] \subseteq h[v]
    <3>1. DG!Solution(h)' <=> \A v \in 0 .. ngotos' - 1 :
                                  F0'[v] \subseteq h[v] /\ \A k \in 1 .. Len(R'[v]) : h[R'[v][k]] \subseteq h[v]
      BY DEF DG!Solution, DG!Gotos
    <3> QED BY <1>3, <1>10, <3>1
  <2>2. ASSUME NEW v \in GotoNumber
        PROVE  (\A k \in 1 .. Len(T[v]) : h[T[v][k]] \subseteq h[v]) <=> \A l \in GotoNumber : Includes(l, v) => h[l] \subseteq h[v]
    <3>1. T[v] \in Seq(GotoNumber) BY <1>3, <1>5
    <3>2. \A k \in 1 .. Len(T[v]) : T[v][k] \in GotoNumber BY <3>1
    <3>3. \A l \in GotoNumber : Includes(l, v) <=> \E k \in 1 .. Len(T[v]) : T[v][k] = l
      <4>1. ASSUME NEW l \in GotoNumber PROVE Listed(T[v], l) <=> Includes(l, v)
        <5>1. Listed(T[v], l) <=> Listed(E[l], v) BY <1>3, <1>5
        <5> QED BY <1>4, <5>1
      <4> QED BY <4>1 DEF Listed
    <3> QED BY <3>2, <3>3
  <2> QED BY <2>1, <2>2 DEF FollowsSolved
<1>14. \A h : FollowsSolved(h, f)' <=> FollowsSolved(h, f) BY <1>11, <1>12, SameEquations DEF FollowsSolved
<1>15. LeastReads(f)' <=> LeastReads(f) BY <1>11, <1>12, SameEquations DEF LeastReads
<1>16. IncludesEq' BY <1>8, <1>10, <1>13, <1>14, <1>15 DEF IncludesEq
<1>17. LookbackSet'
  <2>1. UNCHANGED << g, fromState, reds >> BY DEF BuildRelations, gotoVars
  <2>2. LAentries' = LAentries BY <2>1 DEF LAentries
  <2>3. \A m, r, k : Path(m, r, k)' = Path(m, r, k) BY <1>11, SamePath
  <2>4. ASSUME NEW e \in LAentries
        PROVE  lookback'[e] = { k \in GotoNumber : e[2] \in RulesOfGoto(k) /\ e[1] = Path(fromState[k], e[2], Len(Rhs(g, e[2]))) }
    <3>1. lookback'[e] = { k \in GotoNumber : << e[1], e[2], k >> \in LookbackEdges } BY DEF BuildRelations, GotoNumber
    <3>2. \A k \in GotoNumber : << e[1], e[2], k >> \in LookbackEdges <=>
              e[2] \in RulesOfGoto(k) /\ e[1] = Path(fromState[k], e[2], Len(Rhs(g, e[2])))
      BY LookbackIs
    <3> QED BY <3>1, <3>2
  <2>5. ASSUME NEW e
        PROVE  { k \in GotoNumber : e[2] \in RulesOfGoto(k) /\ e[1] = Path(fromState[k], e[2], Len(Rhs(g, e[2]))) }'
                = { k \in GotoNumber : e[2] \in RulesOfGoto(k) /\ e[1] = Path(fromState[k], e[2], Len(Rhs(g, e[2]))) }
    BY <1>12, <2>1, <2>3
  <2> QED BY <2>2, <2>4, <2>5 DEF LookbackSet
<1> QED BY <1>9, <1>16, <1>17

LEMMA ComputeLookaheadsGives ==
    ASSUME LalrBuilt, Walking, IncludesEq, LookbackSet, ComputeLookaheads
    PROVE  AutomatonIsLALR'
<1>1. UNCHANGED << g, firstDerives, states, reds >> BY DEF ComputeLookaheads
<1>2. \A n : Clos(n)' = Itemset(n)
  <2>1. \A it : NextSymbol(it)' = NextSymbol(it) BY <1>1 DEF NextSymbol
  <2> QED BY <1>1, <2>1 DEF Clos, Itemset, closure, start_symbol
<1>3. LAentries' = LAentries BY <1>1 DEF LAentries
<1>4. ASSUME AllProductive(g)
      PROVE  /\ { Itemset(n) : n \in DOMAIN states } = StatesLALR(g, Collection1(g))
             /\ \A e \in LAentries : LA'[e] = LookaheadLALR(g, Collection1(g), Itemset(e[1]), e[2])
  <2>1. { Itemset(n) : n \in DOMAIN states } = StatesLALR(g, Collection1(g)) BY <1>4, StatesAreCores DEF LalrBuilt
  <2>2. ASSUME NEW e \in LAentries PROVE LA'[e] = LookaheadLALR(g, Collection1(g), Itemset(e[1]), e[2])
    <3>1. PICK n \in DOMAIN reds : e \in { << n, r >> : r \in ToSet(reds[n]) } BY DEF LAentries
    <3>2. e[1] \in DOMAIN states
      <4>1. e[1] = n BY <3>1
      <4>2. DOMAIN reds = DOMAIN shift BY DEF LalrBuilt, LRBuilt, Built, LR0Inv, AutomatonOK, ProgressOK, Expanded
      <4> QED BY <3>1, <4>1, <4>2, StateZero DEF LalrBuilt
    <3>3. LA'[e] = UNION { F[k] : k \in lookback[e] } BY DEF ComputeLookaheads
    <3>4. lookback[e] = { k \in GotoNumber : << e[1], e[2], k >> \in LookbackEdges }
      <4>1. \A k \in GotoNumber : << e[1], e[2], k >> \in LookbackEdges <=>
                e[2] \in RulesOfGoto(k) /\ e[1] = Path(fromState[k], e[2], Len(Rhs(g, e[2])))
        BY LookbackIs
      <4> QED BY <4>1 DEF LookbackSet
    <3>5. D!Terminated BY DEF ComputeLookaheads
    <3>6. LeastFollows(F, F0) BY <3>5, WalkEnds DEF LeastFollows, IncludesEq
    <3>7. F0 \in [GotoNumber -> SUBSET Nat]
      BY DEF Walking, DG!IInv, DG!TypeOK, DG!InputOK, DG!Gotos, GotoNumber
    <3> PICK rd, fo : rd = F0 /\ fo = F OBVIOUS
    <3>8. UNION { fo[k] : k \in { l \in GotoNumber : << e[1], e[2], l >> \in LookbackEdges } }
            = LookaheadLALR(g, Collection1(g), Itemset(e[1]), e[2])
      <4>1. rd \in [GotoNumber -> SUBSET Nat] /\ LeastReads(rd) /\ LeastFollows(fo, rd)
        BY <3>6, <3>7 DEF IncludesEq
      <4> PICK q, r : q = e[1] /\ r = e[2] OBVIOUS
      <4>2. q \in DOMAIN states BY <3>2
      <4>3. UNION { fo[k] : k \in { l \in GotoNumber : << q, r, l >> \in LookbackEdges } }
               = LookaheadLALR(g, Collection1(g), Itemset(q), r)
        BY <1>4, <4>1, <4>2, LookaheadsAre
      <4> QED BY <4>3
    <3> QED BY <3>3, <3>4, <3>8
  <2> QED BY <2>1, <2>2
<1>5. ASSUME ProductiveVars(g) = Vars(g)
      PROVE  LET C == Collection1(g)
             IN  /\ { Clos(n)' : n \in DOMAIN states } = StatesLALR(g, C)
                 /\ \A e \in LAentries : LA'[e] = LookaheadLALR(g, C, Clos(e[1])', e[2])
  BY <1>2, <1>4, <1>5 DEF AllProductive
<1> QED BY <1>1, <1>3, <1>5 DEF AutomatonIsLALR, Collection

-----------------------------------------------------------------------------
(***************************************************************************)
(* The invariant of lalr().                                                *)
(***************************************************************************)
GotosNumbered == phase \notin {"lr0", "fatal", "expand", "shift"} => GotosFit

LookaheadInv ==
    /\ phase = "reads" => Walking /\ ReadsEq
    /\ phase = "includes" => Walking /\ IncludesEq /\ LookbackSet
    /\ AutomatonIsLALR

LalrInv == MkparInv /\ StatesInv /\ GotosInv /\ GotosNumbered /\ LookaheadInv

LEMMA BuiltThen ==
    ASSUME LalrInv, phase \notin {"lr0", "fatal", "expand", "shift"}
    PROVE  LalrBuilt /\ GotosFit
<1>1. Built /\ StatesMore /\ GotosListed /\ GotosFit
  BY DEF LalrInv, MkparInv, StatesInv, GotosInv, GotosNumbered, Built
<1> QED BY <1>1 DEF LalrBuilt, LRBuilt, GotosKnown, GotosFit

LEMMA NumberedStep == LalrInv /\ [Next]_vars => GotosNumbered'
<1> SUFFICES ASSUME LalrInv, [Next]_vars, phase' \notin {"lr0", "fatal", "expand", "shift"} PROVE GotosFit'
  BY DEF GotosNumbered
<1>1. ASSUME UNCHANGED << g, states, shift, ngotos >>, phase \notin {"lr0", "fatal", "expand", "shift"}
      PROVE  GotosFit'
  <2>1. InOrder(Gotos, GotoOrder)' = InOrder(Gotos, GotoOrder) BY <1>1, SameGotos
  <2>2. GotosFit BY <1>1 DEF LalrInv, GotosNumbered
  <2>3. Gotos' = Gotos BY <1>1, SameGotos
  <2> QED BY <1>1, <2>1, <2>2, <2>3 DEF GotosFit
<1>2. CASE LR0Next
  <2>1. phase' \in {"expand", "shift", "fatal"}
    BY <1>2 DEF LR0Next, InitializeStates, Expand, OldState, NewState, TooManyStates, NextStateOfList
  <2> QED BY <2>1
<1>3. CASE SetGotoMap
  <2>1. UNCHANGED << g, states, shift >> BY <1>3 DEF SetGotoMap
  <2>2. InOrder(Gotos, GotoOrder)' = InOrder(Gotos, GotoOrder) BY <2>1, SameGotos
  <2>3. ngotos' = Len(InOrder(Gotos, GotoOrder)) /\ Cardinality(Gotos) <= MAXYYINT BY <1>3 DEF SetGotoMap
  <2>4. Gotos' = Gotos BY <2>1, SameGotos
  <2> QED BY <2>2, <2>3, <2>4 DEF GotosFit
<1>4. CASE TooManyGotos BY <1>4 DEF TooManyGotos
<1>5. CASE InitializeF BY <1>1, <1>5 DEF InitializeF, CallDigraph
<1>6. CASE BuildRelations BY <1>1, <1>6 DEF BuildRelations, CallDigraph
<1>7. CASE RunDigraph
  <2>1. ngotos' = ngotos /\ UNCHANGED lr0Vars
    BY <1>7 DEF RunDigraph, D!Next, D!Root, D!Skip, D!Descend, D!Merge, D!Return, D!Close, D!input
  <2> QED BY <1>1, <1>7, <2>1 DEF RunDigraph, lr0Vars
<1>8. CASE ComputeLookaheads BY <1>1, <1>8 DEF ComputeLookaheads, digraphVars
<1>9. CASE MkparNext
  <2>1. UNCHANGED << g, states, shift, ngotos >> /\ phase \notin {"lr0", "fatal", "expand", "shift"}
    BY <1>9 DEF MkparNext, ListActions, RemoveConflicts, NextRow, Finish, LalrDone, lr0Vars, lalrVars, digraphVars
  <2> QED BY <1>1, <2>1
<1>10. CASE UNCHANGED vars
  <2>1. UNCHANGED << g, states, shift, ngotos, phase >> BY <1>10 DEF vars, lr0Vars, lalrVars, digraphVars
  <2> QED BY <1>1, <2>1
<1> QED BY <1>2, <1>3, <1>4, <1>5, <1>6, <1>7, <1>8, <1>9, <1>10 DEF Next, LalrNext

LEMMA StutterKeeps == LookaheadInv /\ UNCHANGED vars => LookaheadInv'
<1> SUFFICES ASSUME LookaheadInv, UNCHANGED vars PROVE LookaheadInv' OBVIOUS
<1>1. /\ UNCHANGED << g, nullable, firstDerives, states, shift, fromState, toState, ngotos >>
      /\ UNCHANGED << phase, reds, lookback, LA, R, F0, F >>
      /\ UNCHANGED << ngotos, R, F0, F, INDEX, VERTICES, top, i, depth, stack, height, rp >>
  BY DEF vars, lr0Vars, lalrVars, digraphVars, gotoVars
<1>2. UNCHANGED DG!vars BY <1>1 DEF DG!vars
<1>3. Walking => Walking' BY <1>2, DigraphInputs, DG!StepInv, DG!StepReaches DEF Walking
<1>4. (ReadsEq => ReadsEq') /\ (IncludesEq => IncludesEq') /\ (LookbackSet => LookbackSet')
  BY <1>1, EquationsStay DEF automaton
<1>5. AutomatonIsLALR'
  <2>1. \A it : NextSymbol(it)' = NextSymbol(it) BY <1>1 DEF NextSymbol
  <2>2. \A n : Clos(n)' = Clos(n) BY <1>1, <2>1 DEF Clos, closure, start_symbol
  <2>3. LAentries' = LAentries BY <1>1 DEF LAentries
  <2>4. AutomatonIsLALR BY DEF LookaheadInv
  <2> QED BY <1>1, <2>2, <2>3, <2>4 DEF AutomatonIsLALR, Collection
<1> QED BY <1>1, <1>3, <1>4, <1>5 DEF LookaheadInv

LEMMA LookaheadStep == LalrInv /\ [Next]_vars => LookaheadInv'
<1> SUFFICES ASSUME LalrInv, [Next]_vars PROVE LookaheadInv' OBVIOUS
<1>0. LookaheadInv BY DEF LalrInv
<1>1. ASSUME phase' \notin {"reads", "includes", "make_parser"} PROVE LookaheadInv'
  BY <1>1 DEF LookaheadInv, AutomatonIsLALR
<1>2. CASE LR0Next
  <2>1. phase' \in {"expand", "shift", "fatal"}
    BY <1>2 DEF LR0Next, InitializeStates, Expand, OldState, NewState, TooManyStates, NextStateOfList
  <2> QED BY <1>1, <2>1
<1>3. CASE SetGotoMap BY <1>1, <1>3 DEF SetGotoMap
<1>4. CASE TooManyGotos BY <1>1, <1>4 DEF TooManyGotos
<1>5. CASE InitializeF
  <2>1. phase = "initialize_F" /\ phase' = "reads" BY <1>5 DEF InitializeF
  <2>2. LalrBuilt /\ GotosFit BY <2>1, BuiltThen
  <2>3. Walking' /\ ReadsEq' BY <1>5, <2>2, InitializeFCalls
  <2> QED BY <2>1, <2>3 DEF LookaheadInv, AutomatonIsLALR
<1>6. CASE BuildRelations
  <2>1. phase = "reads" /\ phase' = "includes" BY <1>6 DEF BuildRelations
  <2>2. LalrBuilt /\ GotosFit BY <2>1, BuiltThen
  <2>3. Walking' /\ IncludesEq' /\ LookbackSet' BY <1>0, <1>6, <2>1, <2>2, BuildRelationsCalls DEF LookaheadInv
  <2> QED BY <2>1, <2>3 DEF LookaheadInv, AutomatonIsLALR
<1>7. CASE RunDigraph
  <2>1. /\ phase \in {"reads", "includes"} /\ D!Next /\ UNCHANGED lr0Vars
        /\ UNCHANGED << fromState, toState, lookback >>
    BY <1>7 DEF RunDigraph, gotoVars
  <2>2. Walking BY <1>0, <2>1 DEF LookaheadInv
  <2>3. Walking' /\ UNCHANGED << ngotos, R, F0 >> BY <2>1, <2>2, WalkStep
  <2>4. UNCHANGED << g, nullable, firstDerives, states, shift, reds, phase >> BY <2>1 DEF lr0Vars
  <2>5. (ReadsEq => ReadsEq') /\ (IncludesEq => IncludesEq') /\ (LookbackSet => LookbackSet')
    BY <2>1, <2>3, <2>4, EquationsStay DEF automaton
  <2> QED BY <1>0, <2>1, <2>3, <2>4, <2>5 DEF LookaheadInv, AutomatonIsLALR
<1>8. CASE ComputeLookaheads
  <2>1. phase = "includes" /\ phase' = "make_parser" BY <1>8 DEF ComputeLookaheads
  <2>2. LalrBuilt BY <2>1, BuiltThen
  <2>3. AutomatonIsLALR' BY <1>0, <1>8, <2>1, <2>2, ComputeLookaheadsGives DEF LookaheadInv
  <2> QED BY <2>1, <2>3 DEF LookaheadInv
<1>9. CASE MkparNext
  <2>1. phase' \in {"remove_conflicts", "done"}
    BY <1>9 DEF MkparNext, ListActions, RemoveConflicts, NextRow, Finish, lr0Vars
  <2> QED BY <1>1, <2>1
<1>10. CASE UNCHANGED vars BY <1>0, <1>10, StutterKeeps
<1> QED BY <1>2, <1>3, <1>4, <1>5, <1>6, <1>7, <1>8, <1>9, <1>10 DEF Next, LalrNext

LEMMA LalrStart == Init => LalrInv
<1> SUFFICES ASSUME Init PROVE LalrInv OBVIOUS
<1>1. phase = "lr0" BY DEF Init, LR0Init
<1>2. MkparInv BY MkparStart
<1> QED BY <1>1, <1>2 DEF LalrInv, StatesInv, GotosInv, GotosNumbered, LookaheadInv, AutomatonIsLALR

LEMMA LalrStep == LalrInv /\ [Next]_vars => LalrInv'
<1> SUFFICES ASSUME LalrInv, [Next]_vars PROVE LalrInv' OBVIOUS
<1>1. MkparInv' BY MkparStep DEF LalrInv
<1>2. StatesInv' BY StatesStep DEF LalrInv
<1>3. GotosInv' BY GotosStep DEF LalrInv
<1> QED BY <1>1, <1>2, <1>3, NumberedStep, LookaheadStep DEF LalrInv

(***************************************************************************)
(* The automaton is the LALR(1) automaton, for every grammar whose         *)
(* variables all derive a string of tokens: the states are the cores of    *)
(* the canonical LR(1) collection, and the lookaheads lalr.c collects      *)
(* through reads, includes, lookback and digraph() are those that merging  *)
(* the LR(1) item sets with the same core gives.  For the code this needs  *)
(* ngotos + 2 to be a Value_t (see DG above).                              *)
(***************************************************************************)
THEOREM ByaccIsLALR == Spec => []AutomatonIsLALR
<1>1. LalrInv => AutomatonIsLALR BY DEF LalrInv, LookaheadInv
<1> QED BY <1>1, LalrStart, LalrStep, PTL DEF Spec
=============================================================================
