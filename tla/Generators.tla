------------------------------ MODULE Generators ------------------------------
(***************************************************************************)
(* byacc and go yacc on one grammar, one after the other: what the         *)
(* repository is for is to compare how its generators take a grammar.      *)
(* -B and -z have no equivalent in go yacc.                                *)
(***************************************************************************)
EXTENDS ByaccMkpar

CONSTANTS ACTSIZE, NSTATES, yyFlag, NOMORE

VARIABLES gopc, pempty, pfirst, statemem, tystate, stateno, more, first, nolook, wsets, u, work,
          temp1, amem, indgo, optst, defact, exca, zzsrconf, zzrrconf, yypgo, ggreed, pgo, maxa

goVars == << gopc, pempty, pfirst, statemem, tystate, stateno, more, first, nolook, wsets, u, work,
             temp1, amem, indgo, optst, defact, exca, zzsrconf, zzrrconf, yypgo, ggreed, pgo, maxa >>

Go == INSTANCE GoYacc

GeneratorsInit == Init /\ Go!GoInit

GoNext ==
    /\ phase = "done"
    /\ ~g.backtrack /\ ~g.lemon_prec_flag
    /\ Go!GoNext

GeneratorsNext ==
    \/ Next /\ UNCHANGED goVars
    \/ GoNext /\ UNCHANGED vars

GeneratorsSpec ==
    /\ GeneratorsInit
    /\ [][GeneratorsNext]_<< vars, goVars >>
    /\ WF_<< vars, goVars >>(GeneratorsNext)

-----------------------------------------------------------------------------
GoDone == gopc = "done"

(* A state of go yacc as a set of items of byacc and of the theory. *)
ItemsOf(n) == { << statemem[n][k].prod, statemem[n][k].off >> : k \in DOMAIN statemem[n] }
Twin(n) == CHOOSE m \in DOMAIN statemem : ItemsOf(m) = states[n].items

(* A state that leads to itself and has an empty rule in its closure, see
   LaterPassesFixUp. *)
LeadsToItself(n) ==
    /\ n \in ToSet(shift[n])
    /\ \E it \in Clos(n) : Rhs(g, it[1]) = << >>
Disturbed == \E n \in DOMAIN states : LeadsToItself(n)

(***************************************************************************)
(* stagen() finds the states of the LALR(1) automaton, and its lookaheads  *)
(* are those of the automaton once no state is left to be done: at least   *)
(* where no state leads to itself before an empty rule.  Elsewhere none    *)
(* is wrong, but some may be missing.                                      *)
(***************************************************************************)
KernelLookahead(C, core, it) ==
    UNION { { x[3] : x \in { y \in I : << y[1], y[2] >> = it } } : I \in { J \in C : Core(J) = core } }

Lookaheads(Agree(_, _)) ==
    LET C == Collection
    IN  \A n \in DOMAIN states : \A k \in DOMAIN statemem[Twin(n)] :
            LET x == statemem[Twin(n)][k]
            IN  x.prod # g.top => Agree(x.look, KernelLookahead(C, Clos(n), << x.prod, x.off >>))

GoAutomatonIsLALR ==
    GoDone =>
        /\ { ItemsOf(m) : m \in DOMAIN statemem } = { states[n].items : n \in DOMAIN states }
        /\ Lookaheads(LAMBDA L, M : L \subseteq M)
        /\ ~Disturbed => Lookaheads(LAMBDA L, M : L = M)

(***************************************************************************)
(* The comment in stagen() says "first pass generates all of the states;   *)
(* later passes fix up lookahead" (go/yacc.go:1847): at the end nothing is *)
(* left to fix up.                                                         *)
(***************************************************************************)
LaterPassesFixUp == GoDone => Lookaheads(LAMBDA L, M : L = M)

(***************************************************************************)
(* Both generators find the same conflicts, settle them alike, and their   *)
(* tables lead to the same states, in whatever way each finds lookaheads,  *)
(* compares precedences and picks defaults.  Only a reduction at the end   *)
(* of the input in the final state is a conflict for go yacc alone.  Three *)
(* rivals with precedences are left out: go yacc compares them in the      *)
(* order of its closure, byacc in that of the rules.                       *)
(***************************************************************************)
Comparable ==
    /\ ~Disturbed
    /\ NoPrecedence \/ \A n \in DOMAIN states : \A t \in 0 .. g.ntokens - 1 : Cardinality(Rivals(n, t)) <= 2

Live(n, t) == { k \in Rivals(n, t) : parser[n][k].suppressed = 0 }
Coded(act) == IF act.action_code = SHIFT THEN Twin(act.number) ELSE -act.number

SameAction(n, t) ==
    IF n = final_state /\ t = 0 THEN Go!ParserAction(Twin(n), t) = Go!ACCEPTCODE
    ELSE IF Rivals(n, t) = {} THEN ~Go!IsShift(Go!ParserAction(Twin(n), t))
    ELSE IF Live(n, t) = {} THEN Go!ParserAction(Twin(n), t) = Go!ERRCODE
    ELSE \A k \in Live(n, t) : Go!ParserAction(Twin(n), t) = Coded(parser[n][k])

SameGoto(n, m) ==
    ~ISTOKEN(AccessingSymbol(m)) => Go!ParserGoto(Twin(n), AccessingSymbol(m)) = Twin(m)

SameParser ==
    GoDone /\ Comparable =>
        /\ zzsrconf = SRtotal + (IF Rivals(final_state, 0) = {} THEN 0 ELSE 1)
        /\ zzrrconf = RRtotal
        /\ \A n \in DOMAIN states :
              /\ \A t \in 0 .. g.ntokens - 1 : SameAction(n, t)
              /\ \A m \in ToSet(shift[n]) : SameGoto(n, m)
=============================================================================
