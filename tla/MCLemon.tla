------------------------------ MODULE MCLemon ------------------------------
EXTENDS LemonParser, LemonGrammarSamples, LemonFileSamples

MCGrammars ==
    { NotSLR, NotLALR, NullableChain, TrailingNull, List, WithError, ErrorAlone, TwoWays, UnitRules, DanglingElse, ThreeWay,
      WithWildcard, WithFallback, FallbackChain, Multiterminal, Cycle, StartOnRhs }
    \cup { Operator(assoc, p) : assoc \in {"LEFT", "RIGHT", "NONE"}, p \in {1, 2} }
    \cup { Uncompressed(gr) : gr \in { NotSLR, UnitRules, Operator("NONE", 1) } }
    \cup { WithCode(UnitRules, {2, 3}), Between(TRUE), Between(FALSE) }
    \cup { [gr EXCEPT !.stacksize = n] : gr \in { Multiterminal, List, WithError }, n \in {0, 3} }
    \cup { [WithError EXCEPT !.stacksize = 2], [List EXCEPT !.norecovery = TRUE] }

MCFiles == { FileOf(gr) : gr \in MCGrammars } \cup TwoItems \cup Conditional

(* A tie of an operator that is not associative, and a second rule that
   could be reduced by: a comparison e a e is an e or an f, and an f an e. *)
TieGrammars ==
    { WithPrec(Lemon(3, 3, << << 3, << 4 >> >>, << 4, << 4, a, 4 >> >>, << 4, << b >> >>,
                              << 5, << 4, a, 4 >> >>, << 4, << 5 >> >> >>), a, 1, "NONE") }
TieFiles == { FileOf(gr) : gr \in TieGrammars }
=============================================================================
