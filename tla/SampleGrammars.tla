--------------------------- MODULE SampleGrammars ---------------------------
(***************************************************************************)
(* Grammars for model checking.  Tokens are 0 ($end), 1 (error), a, b,     *)
(* ...; variables are $accept, the goal and the others.                    *)
(***************************************************************************)
EXTENDS Integers, Sequences

(* What pack_grammar() leaves of nt tokens, nv variables and these rules:
   they are numbered from 3 on, rule 2 is $accept : goal $end.  The values
   of the tokens are not in the order of their numbers.  brackets is the
   macro that the [action] of a rule executes. *)
Packed(nt, nv, rules) ==
    [ntokens |-> nt, nsyms |-> nt + 1 + nv, top |-> 2,
     rules |-> [r \in 2 .. Len(rules) + 2 |->
                  IF r = 2 THEN [lhs |-> nt, rhs |-> << nt + 1, 0 >>]
                  ELSE [lhs |-> rules[r - 2][1], rhs |-> rules[r - 2][2]]],
     prec |-> [x \in 0 .. nt + nv |-> 0], assoc |-> [x \in 0 .. nt + nv |-> "TOKEN"],
     rprec |-> [r \in 2 .. Len(rules) + 2 |-> 0],
     rassoc |-> [r \in 2 .. Len(rules) + 2 |-> "TOKEN"],
     value |-> [x \in 0 .. nt - 1 |-> << 0, 4, 6, 2, 5, 3, 7 >>[x + 1]],
     brackets |-> [r \in 2 .. Len(rules) + 2 |-> "none"],
     backtrack |-> FALSE, lemon_prec_flag |-> FALSE, SRexpect |-> -1, RRexpect |-> -1]

a == 2
b == 3
c == 4
d == 5

(* LALR(1) but not SLR(1): S -> L = R | R, L -> * R | id, R -> L. *)
NotSLR == Packed(5, 3, << << 6, << 7, a, 8 >> >>, << 6, << 8 >> >>,
                          << 7, << b, 8 >> >>, << 7, << c >> >>, << 8, << 7 >> >> >>)

(* LR(1) but not LALR(1): merging A -> d . and B -> d . gives conflicts. *)
NotLALR == Packed(6, 3, << << 7, << a, 8, a >> >>, << 7, << b, 9, a >> >>,
                           << 7, << a, 9, b >> >>, << 7, << b, 8, b >> >>,
                           << 8, << d >> >>, << 9, << d >> >> >>)

(* A chain of nullable variables read, and included, through each other. *)
NullableChain == Packed(5, 4, << << 6, << 7, 8, 9, c >> >>, << 7, << a, 8 >> >>, << 7, << >> >>,
                                 << 8, << 9 >> >>, << 8, << b >> >>, << 9, << 7 >> >>, << 9, << >> >> >>)

(* What follows variable 8 also follows 9: the rest of 8's rule may be empty. *)
TrailingNull == Packed(6, 5, << << 7, << a, 8, a >> >>, << 7, << 8 >> >>, << 8, << 9, 10, 11 >> >>,
                                << 9, << b >> >>, << 10, << c >> >>, << 10, << >> >>,
                                << 11, << d >> >>, << 11, << >> >> >>)

(* Rules for errors, as in  stmts : stmts stmt | error ';'. *)
WithError == Packed(4, 2, << << 5, << 5, 6, b >> >>, << 5, << 1, b >> >>, << 5, << >> >>,
                             << 6, << a >> >>, << 6, << a, 6 >> >> >>)

(* Conflicts: a state with a shift and two reductions, the dangling else,
   an ambiguous list. *)
ThreeWay == Packed(4, 3, << << 5, << a, b >> >>, << 5, << 6, b >> >>, << 5, << 7, b >> >>,
                            << 6, << a >> >>, << 7, << a >> >> >>)
DanglingElse == Packed(5, 1, << << 6, << a, 6 >> >>, << 6, << a, 6, b, 6 >> >>, << 6, << c >> >> >>)
AmbiguousList == Packed(3, 1, << << 4, << 4, 4 >> >>, << 4, << a >> >>, << 4, << >> >> >>)
HiddenLeft == Packed(4, 2, << << 5, << 6, 5, b >> >>, << 5, << a >> >>, << 6, << >> >> >>)

(* Parentheses around lists, recursive on the left. *)
Nested == Packed(5, 2, << << 6, << 7 >> >>, << 7, << >> >>, << 7, << 7, a, 7, b >> >>, << 7, << 7, c >> >> >>)
=============================================================================
