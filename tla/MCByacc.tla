------------------------------ MODULE MCByacc ------------------------------
(* The grammars for the model checking of the byacc pipeline. *)
EXTENDS Generators, SampleGrammars, TLC

(* Two tokens and two variables: S = 5, A = 6.  One or two rules of each
   are taken from a list that has recursion on either side, empty rules,
   unit rules, cycles and ambiguity. *)
RhsS == { << a >>, << 6 >>, << 6, 5 >>, << a, 6, b >>, << 6, a >>, << 5, 5 >> }
RhsA == { << >>, << a >>, << 5 >>, << 6, b >>, << a, 6 >>, << a, 5, b >> }
Rules(lhs, rhss) ==
    { IF Cardinality(T) = 1 THEN << << lhs, CHOOSE x \in T : TRUE >> >>
      ELSE LET x == CHOOSE y \in T : TRUE
               y == CHOOSE z \in T : z # x
           IN  << << lhs, x >>, << lhs, y >> >> : T \in { U \in SUBSET rhss : Cardinality(U) \in 1 .. 2 } }
Enumerated == { Packed(4, 2, x \o y) : x \in Rules(5, RhsS), y \in Rules(6, RhsA) }

(* ThreeWay for every mix of precedences and associativity, and all the
   settings of -B and -z. *)
Settled ==
    { [ThreeWay EXCEPT !.prec[b] = p, !.assoc[b] = s, !.rprec[6] = q, !.rprec[7] = r,
                       !.backtrack = B, !.lemon_prec_flag = z] :
        p \in 0 .. 2, s \in {"LEFT", "RIGHT", "NONASSOC"}, q, r \in 0 .. 3, B, z \in BOOLEAN }

(* %expect and %expect-rr *)
Expecting == { [NotLALR EXCEPT !.SRexpect = m, !.RRexpect = n] : m \in {-1, 0}, n \in 0 .. 2 }

(* More than MAXYYINT states, and few states with more gotos than that. *)
TooLong == Packed(4, 1, << << 5, [k \in 1 .. MAXYYINT |-> a] >> >>)
UnitChain == Packed(7, 7, [k \in 1 .. 6 |-> << 7 + k, << 8 + k >> >>]
                          \o << << 14, << a, 8, b >> >>, << 14, << c, 8, d >> >>, << 14, << 6 >> >> >>)

(* go yacc: a state that leads to itself and has an empty rule in its
   closure; more states than NSTATES; an array too short for the gotos of
   one state, for those of one variable, for the shifts. *)
EmptyElse == Packed(4, 1, << << 5, << b, 5, a >> >>, << 5, << b, 5 >> >>, << 5, << >> >> >>)
LongRule(n) == Packed(4, 1, << << 5, [k \in 1 .. n |-> a] >> >>)
FarGotos == Packed(4, 15, << << 5, << 6, b >> >>, << 5, << 19, a >> >> >> \o [k \in 1 .. 14 |-> << 5 + k, << a >> >>])
LongGotos == Packed(4, 2, << << 5, [k \in 1 .. 11 |-> IF k % 2 = 1 THEN 6 ELSE a] >>, << 6, << b >> >> >>)

MCFlag == -1000
MCGoGrammars == { EmptyElse, Nested }

MCGrammars == Enumerated \cup Settled \cup Expecting
    \cup { NotSLR, NotLALR, NullableChain, TrailingNull, WithError, TooLong, UnitChain,
           DanglingElse, HiddenLeft, AmbiguousList, Nested, EmptyElse, FarGotos, LongGotos, LongRule(NSTATES), LongRule(ACTSIZE),
           [NullableChain EXCEPT !.backtrack = TRUE] }
=============================================================================
