------------------------- MODULE LemonGrammarSamples -------------------------
(***************************************************************************)
(* Grammars for lemon.  Terminal 0 is $, the others are a, b, ...; the     *)
(* nonterminals begin at nt, the start symbol first.                       *)
(***************************************************************************)
EXTENDS Integers, Sequences

a == 1
b == 2
c == 3
d == 4

(* What lemon has after reading a file with nt - 1 terminals, nv
   nonterminals and these rules << lhs, rhs >>, none with code. *)
Lemon(nt, nv, rules) ==
    [ntokens |-> nt, nsyms |-> nt + nv, start |-> nt,
     rules |-> [r \in 0 .. Len(rules) - 1 |->
                  [lhs |-> rules[r + 1][1], code |-> FALSE,
                   rhs |-> [k \in 1 .. Len(rules[r + 1][2]) |-> << rules[r + 1][2][k] >>]]],
     errsym |-> 0, wildcard |-> 0, mark |-> [r \in 0 .. Len(rules) - 1 |-> 0],
     prec |-> [t \in 0 .. nt - 1 |-> -1], assoc |-> [t \in 0 .. nt - 1 |-> "UNK"],
     fallback |-> [t \in 0 .. nt - 1 |-> 0],
     yaccPrec |-> FALSE, ignorePrec |-> FALSE, compress |-> TRUE, stacksize |-> 100, norecovery |-> FALSE]

(* Rules with numbers in S have code. *)
WithCode(gr, S) == [gr EXCEPT !.rules = [r \in DOMAIN @ |-> [@[r] EXCEPT !.code = r \in S]]]
(* Terminal t has precedence p. *)
WithPrec(gr, t, p, assoc) == [gr EXCEPT !.prec[t] = p, !.assoc[t] = assoc]
Uncompressed(gr) == [gr EXCEPT !.compress = FALSE]

(* LALR(1) but not SLR(1): p = s; s = l a s | s'. *)
NotSLR == Lemon(4, 4, << << 4, << 5 >> >>, << 5, << 6, a, 7 >> >>, << 5, << 7 >> >>,
                         << 6, << b, 7 >> >>, << 6, << c >> >>, << 7, << 6 >> >> >>)

(* LR(1) but not LALR(1). *)
NotLALR == Lemon(5, 3, << << 5, << a, 6, a >> >>, << 5, << b, 7, a >> >>,
                          << 5, << a, 7, b >> >>, << 5, << b, 6, b >> >>,
                          << 6, << d >> >>, << 7, << d >> >> >>)

(* Nullable variables that include each other's follow sets. *)
NullableChain == Lemon(4, 4, << << 4, << 5, 6, 7, c >> >>, << 5, << a, 6 >> >>, << 5, << >> >>,
                                << 6, << 7 >> >>, << 6, << b >> >>, << 7, << 5 >> >>, << 7, << >> >> >>)
TrailingNull == Lemon(5, 5, << << 5, << a, 6, a >> >>, << 5, << 6 >> >>, << 6, << 7, 8, 9 >> >>, << 7, << b >> >>,
                               << 8, << c >> >>, << 8, << >> >>, << 9, << d >> >>, << 9, << >> >> >>)

(* A list; rules for errors (nonterminal 5 is error). *)
List == Lemon(3, 3, << << 3, << 4 >> >>, << 4, << 4, 5 >> >>, << 4, << >> >>, << 5, << a, b >> >> >>)
WithError == [Lemon(4, 4, << << 4, << 6 >> >>, << 6, << 6, 7 >> >>, << 6, << >> >>,
                             << 7, << a, b >> >>, << 7, << 5, b >> >>, << 7, << a, a, c >> >> >>) EXCEPT !.errsym = 5]

ErrorAlone == [Lemon(4, 4, << << 4, << 6 >> >>, << 6, << 6, 7 >> >>, << 6, << >> >>,
                              << 7, << a, b >> >>, << 7, << 5 >> >>, << 7, << a, c, 5, c >> >> >>) EXCEPT !.errsym = 5]

(* Unit rules over each other; rules 2 and 3 with code are kept. *)
UnitRules == Lemon(4, 5, << << 4, << 5 >> >>, << 5, << 5, a, 6 >> >>, << 5, << 6 >> >>, << 6, << 7 >> >>,
                            << 7, << 8 >> >>, << 7, << b, 7 >> >>, << 8, << c >> >> >>)

(* Two operators, and one that ends with another one's token. *)
Operator(assoc, p) ==
    WithPrec(WithPrec(Lemon(4, 2, << << 4, << 5 >> >>, << 5, << 5, a, 5 >> >>, << 5, << 5, b, 5 >> >>, << 5, << c >> >> >>),
                      a, p, assoc), b, 1, assoc)
Between(yaccPrec) ==
    [WithPrec(WithPrec(Lemon(4, 2, << << 4, << 5 >> >>, << 5, << 5, a, 5, b, 5 >> >>, << 5, << c >> >> >>),
                       a, 1, "LEFT"), b, 2, "RIGHT") EXCEPT !.yaccPrec = yaccPrec, !.mark[1] = IF yaccPrec THEN a ELSE 0]

(* Conflicts without precedences. *)
DanglingElse == Lemon(4, 2, << << 4, << 5 >> >>, << 5, << a, 5 >> >>, << 5, << a, 5, b, 5 >> >>, << 5, << c >> >> >>)
ThreeWay == Lemon(3, 4, << << 3, << 4, b >> >>, << 3, << 5, b >> >>, << 3, << 6 >> >>, << 3, << a, b >> >>,
                           << 4, << a >> >>, << 5, << a >> >>, << 6, << a >> >> >>)

(* Wildcard d: behind a any token is shifted for it, but c reduces. *)
WithWildcard == [Lemon(5, 3, << << 5, << 6 >> >>, << 6, << a, d, b >> >>, << 6, << 7, c >> >>, << 6, << b, 7, d >> >>,
                                << 7, << a >> >>, << 7, << c, c >> >> >>) EXCEPT !.wildcard = d]

(* Reductions told apart by the next token, and a variable that is not
   nullable behind another one. *)
TwoWays == Lemon(4, 5, << << 4, << 5 >> >>, << 5, << 6, 8, c >> >>, << 5, << 7, c >> >>, << 5, << b, 7, b >> >>,
                          << 6, << a >> >>, << 7, << a >> >>, << 8, << b >> >>, << 8, << b, a >> >> >>)

(* Keyword b, which is an identifier a where it is no keyword. *)
WithFallback == [Lemon(4, 2, << << 4, << 5 >> >>, << 5, << b, a >> >>, << 5, << a >> >>, << 5, << 5, c, a >> >> >>)
                    EXCEPT !.fallback[b] = a]
FallbackChain == [WithFallback EXCEPT !.fallback[a] = c]

(* Rule 0 is  p ::= a b|c p,  as a MULTITERMINAL; it is recursive on the right. *)
Multiterminal == [Lemon(4, 2, << << 4, << 5 >> >>, << 5, << a, b, 5 >> >>, << 5, << >> >> >>)
                    EXCEPT !.rules[1].rhs[2] = << b, c >>]

(* Grammars that lemon stops at with a failed assertion: a cycle of unit
   rules, and a start symbol that is on a right-hand side. *)
Cycle == Lemon(3, 4, << << 3, << 4 >> >>, << 6, << 5 >> >>, << 5, << 6 >> >>, << 4, << b, 5 >> >>, << 6, << a >> >> >>)
StartOnRhs == Lemon(3, 1, << << 3, << 3, a >> >>, << 3, << b >> >> >>)
=============================================================================
