------------------------------ MODULE MCParser ------------------------------
EXTENDS ByaccParser, SampleGrammars, TLC

(* An operator with a precedence: a b a b a is an error if it is not
   associative. *)
Operator(assoc) ==
    LET e == Packed(4, 1, << << 5, << 5, b, 5 >> >>, << 5, << a >> >> >>)
    IN  [e EXCEPT !.prec[b] = 1, !.assoc[b] = assoc, !.rprec[3] = 1, !.rassoc[3] = assoc]

(* Three ways to reduce, with and without a shift, in several states. *)
ManyWays == Packed(4, 4, << << 5, << a, b >> >>, << 5, << 6, b >> >>, << 5, << 7, b >> >>, << 5, << 8, b >> >>,
                            << 6, << a >> >>, << 7, << a >> >>, << 8, << a >> >>,
                            << 5, << b, 6, a >> >>, << 5, << b, 7, a >> >>, << 5, << b, b, 6, b >> >>,
                            << 5, << b, b, 7, b >> >>, << 5, << b, b, a, b >> >>, << 5, << b, a, b >> >> >>)
Ambiguous == { ThreeWay, DanglingElse, AmbiguousList, NotLALR, ManyWays }

(* A list of  a b  and  a b c, each decided behind its conflict; error c. *)
Statements == Packed(5, 4, << << 6, << 6, 7 >> >>, << 6, << >> >>, << 7, << 8, b >> >>, << 7, << 9, b, c >> >>,
                              << 7, << 1, c >> >>, << 8, << a >> >>, << 9, << a >> >> >>)
(* A list of  a b  and  a c, each decided before its first token; error c. *)
TwoForms == Packed(5, 4, << << 6, << 6, 7 >> >>, << 6, << >> >>, << 7, << 8, a, b >> >>, << 7, << 9, a, c >> >>,
                           << 7, << 1, c >> >>, << 8, << >> >>, << 9, << >> >> >>)
(* The same, where the [actions] of some rules execute macros. *)
Veto(gr, rs) == [gr EXCEPT !.brackets = [r \in DOMAIN @ |-> IF r \in rs THEN "YYERROR" ELSE @[r]]]
Commit(gr, rs, macro) == [gr EXCEPT !.brackets = [r \in DOMAIN @ |-> IF r \in rs THEN macro ELSE @[r]]]
Bracketed == { Veto(ThreeWay, {6}), Veto(ThreeWay, {6, 7}), Veto(Statements, {6}), Veto(Statements, {8, 9}),
               Commit(Statements, {5, 6}, "YYVALID"), Commit(Statements, {5, 6}, "YYVALID_NESTED"),
               Commit(Veto(Statements, {6}), {5, 6}, "YYVALID") }

RecoveryGrammars == { [TwoForms EXCEPT !.backtrack = TRUE] }

MCGrammars == { NotSLR, NullableChain, TrailingNull, WithError, Nested, ThreeWay, DanglingElse, AmbiguousList, HiddenLeft,
                Operator("LEFT"), Operator("NONASSOC") }
              \cup { [gr EXCEPT !.backtrack = TRUE] : gr \in Ambiguous \cup Bracketed \cup {Statements, TwoForms} }
              \cup { [ThreeWay EXCEPT !.backtrack = TRUE, !.prec[b] = p, !.rprec[6] = q, !.rprec[7] = r] :
                        p, q, r \in 0 .. 2 }
=============================================================================
