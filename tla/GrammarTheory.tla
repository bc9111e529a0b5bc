---------------------------- MODULE GrammarTheory ----------------------------
(***************************************************************************)
(* Reference definitions, taken from the theory of LR parsing and from no  *)
(* source file: nullable symbols, FIRST sets, the canonical collection of  *)
(* LR(1) item sets, and the LALR(1) lookaheads obtained from it by merging *)
(* the item sets with the same core.  The three generators never build the *)
(* LR(1) collection; what each of them computes is compared with it.       *)
(*                                                                         *)
(* A grammar g is a record                                                 *)
(*    ntokens   tokens are 0 .. ntokens - 1, and 0 is the end of the input *)
(*    nsyms     variables are ntokens .. nsyms - 1                         *)
(*    rules     a function to records [lhs, rhs], rhs a sequence           *)
(*    top       the rule  $accept : goal $end                              *)
(***************************************************************************)
EXTENDS Integers, Sequences, FiniteSets

(* The elements of S as a sequence, for a strict total order. *)
InOrder(S, Less(_, _)) ==
    [k \in 1 .. Cardinality(S) |-> CHOOSE x \in S : Cardinality({ y \in S : Less(y, x) }) = k - 1]

IsToken(g, x) == x < g.ntokens
Vars(g) == g.ntokens .. g.nsyms - 1
Rhs(g, r) == g.rules[r].rhs
RulesOf(g, A) == { r \in DOMAIN g.rules : g.rules[r].lhs = A }

(* The least S with Op(S) \subseteq S, for a monotonic Op on SUBSET U. *)
LeastFixpoint(Op(_), U) ==
    LET grow[S \in SUBSET U] == IF Op(S) \subseteq S THEN S ELSE grow[S \cup Op(S)]
    IN  grow[{}]

NullableVars(g) ==
    LET Derive(S) == { A \in Vars(g) : \E r \in RulesOf(g, A) :
                         \A k \in 1 .. Len(Rhs(g, r)) : Rhs(g, r)[k] \in S }
    IN  LeastFixpoint(Derive, Vars(g))

(* The variables that derive a string of tokens. *)
ProductiveVars(g) ==
    LET Derive(S) == { A \in Vars(g) : \E r \in RulesOf(g, A) :
                         \A k \in 1 .. Len(Rhs(g, r)) : Rhs(g, r)[k] \in S \/ IsToken(g, Rhs(g, r)[k]) }
    IN  LeastFixpoint(Derive, Vars(g))

(* The tokens the strings derived from the sequence s can begin with, given
   the nullable variables N and the pairs << A, t >> with t in FIRST(A). *)
FirstOf(g, N, P, s) ==
    { t \in 0 .. g.ntokens - 1 :
        \E k \in 1 .. Len(s) : /\ \A j \in 1 .. k - 1 : s[j] \in N
                               /\ s[k] = t \/ << s[k], t >> \in P }

FirstPairs(g, N) ==
    LET Derive(P) == { p \in Vars(g) \X (0 .. g.ntokens - 1) :
                         \E r \in RulesOf(g, p[1]) : p[2] \in FirstOf(g, N, P, Rhs(g, r)) }
    IN  LeastFixpoint(Derive, Vars(g) \X (0 .. g.ntokens - 1))

-----------------------------------------------------------------------------
(* An LR(1) item << r, d, t >>: rule r, dot after d symbols, lookahead t. *)
Items1(g) == UNION { { << r, d, t >> : d \in 0 .. Len(Rhs(g, r)), t \in 0 .. g.ntokens - 1 } :
                        r \in DOMAIN g.rules }

Next1(g, it) == IF it[2] < Len(Rhs(g, it[1])) THEN Rhs(g, it[1])[it[2] + 1] ELSE -1

(* N and P are the nullable variables and FirstPairs of g. *)
Closure1(g, N, P, I) ==
    LET After(it) == FirstOf(g, N, P,
                        Append(SubSeq(Rhs(g, it[1]), it[2] + 2, Len(Rhs(g, it[1]))), it[3]))
        Derive(S) == I \cup UNION { { << r, 0, t >> : r \in RulesOf(g, Next1(g, it)), t \in After(it) } :
                                      it \in { x \in S : ~IsToken(g, Next1(g, x)) } }
    IN  LeastFixpoint(Derive, Items1(g))

Goto1(g, N, P, I, x) ==
    Closure1(g, N, P, { << it[1], it[2] + 1, it[3] >> : it \in { y \in I : Next1(g, y) = x } })

(* The canonical collection; nothing is shifted past the end of the input.
   grow goes on from << done, new >>: the successors of done are in
   done \cup new. *)
Collection1(g) ==
    LET N == NullableVars(g)
        P == FirstPairs(g, N)
        Successors(I) == { Goto1(g, N, P, I, x) : x \in { Next1(g, it) : it \in I } \ {-1, 0} }
        Found == SUBSET SUBSET Items1(g)
        grow[c \in Found \X Found] ==
            IF c[2] = {} THEN c[1]
            ELSE grow[<< c[1] \cup c[2], (UNION { Successors(I) : I \in c[2] }) \ (c[1] \cup c[2]) >>]
    IN  grow[<< {}, { Closure1(g, N, P, { << g.top, 0, 0 >> }) } >>]

Core(I) == { << it[1], it[2] >> : it \in I }
Complete1(g, I, r) == { it[3] : it \in { x \in I : x[1] = r /\ x[2] = Len(Rhs(g, r)) } }

(* The LALR(1) automaton: states are LR(0) item sets. *)
StatesLALR(g, C) == { Core(I) : I \in C }
LookaheadLALR(g, C, core, r) ==
    UNION { Complete1(g, I, r) : I \in { J \in C : Core(J) = core } }

-----------------------------------------------------------------------------
(* The strings of tokens a symbol derives, those of k tokens and more cut
   off after the k-th: pairs << A, w >>. *)
CutOff(w, k) == SubSeq(w, 1, IF Len(w) < k THEN Len(w) ELSE k)

(* U followed by V; a string of U that has been cut off stays as it is. *)
Concat(U, V, k) ==
    (IF V = {} THEN {} ELSE { u \in U : Len(u) = k })
    \cup { CutOff(uv[1] \o uv[2], k) : uv \in { u \in U : Len(u) < k } \X V }

StringsOf(g, P, x) == IF IsToken(g, x) THEN { << x >> } ELSE { p[2] : p \in { q \in P : q[1] = x } }

StringsOfAll(g, k, P, s) ==
    LET cat[n \in 0 .. Len(s)] ==
            IF n = 0 THEN { << >> } ELSE Concat(cat[n - 1], StringsOf(g, P, s[n]), k)
    IN  cat[Len(s)]

DerivedOnce(g, k, P) ==
    UNION { { << g.rules[r].lhs, w >> : w \in StringsOfAll(g, k, P, Rhs(g, r)) } :
              r \in DOMAIN g.rules \ {g.top} }

DerivedStrings(g, k) ==
    LET Derive(P) == DerivedOnce(g, k, P)
    IN  LeastFixpoint(Derive, Vars(g) \X Seq(0 .. g.ntokens - 1))

(* The sentences of less than k tokens, and the first k tokens of others. *)
Sentences(g, k) == { p[2] : p \in { q \in DerivedStrings(g, k) : q[1] = Head(Rhs(g, g.top)) } }
=============================================================================
