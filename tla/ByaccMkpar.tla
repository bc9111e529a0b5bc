------------------------------ MODULE ByaccMkpar ------------------------------
(***************************************************************************)
(* byacc/mkpar.c: from shifts and lookaheads to the parser's actions.      *)
(*                                                                         *)
(* make_parser() lists the actions of every state in the order (symbol,    *)
(* shift before reduce, rule number), settles conflicts row by row with    *)
(* precedence or, without it, in favour of the first action, counts what   *)
(* precedence did not settle, and picks the default reductions.            *)
(*                                                                         *)
(* Together with ByaccLR0 and ByaccLalr this is what main() runs after     *)
(* reader(): lr0(); lalr(); make_parser().                                 *)
(***************************************************************************)
EXTENDS ByaccLalr

VARIABLES
    parser,        \* S->parser: state |-> actions, in order
    final_state,   \* S->final_state
    row,           \* the loop variable of remove_conflicts()
    actno, pref,   \* its p and pref, as positions in the list; pref may be 0
    SRtotal, RRtotal,
    rules_used,    \* S->rules_used, as a set
    reported,      \* total_conflicts() has printed the totals
    exit_code,     \* S->exit_code is EXIT_FAILURE
    defred         \* S->defred

mkparVars == << parser, final_state, row, actno, pref, SRtotal, RRtotal, rules_used,
                reported, exit_code, defred >>
vars == << lr0Vars, lalrVars, mkparVars >>

SHIFT == 1
REDUCE == 2

-----------------------------------------------------------------------------
(* get_shifts(), add_reductions() and the order kept by add_reduce(). *)
ActionOrder(a, b) ==
    \/ a.symbol < b.symbol
    \/ a.symbol = b.symbol /\ a.action_code < b.action_code
    \/ a.symbol = b.symbol /\ a.action_code = b.action_code /\ a.number < b.number

ParseActions(n) ==
    InOrder(
        { [symbol |-> AccessingSymbol(q), number |-> q, action_code |-> SHIFT,
           prec |-> g.prec[AccessingSymbol(q)], assoc |-> g.assoc[AccessingSymbol(q)],
           suppressed |-> 0] :
            q \in { m \in ToSet(shift[n]) : ISTOKEN(AccessingSymbol(m)) } }
        \cup UNION { { [symbol |-> t, number |-> r, action_code |-> REDUCE,
                        prec |-> g.rprec[r], assoc |-> g.rassoc[r], suppressed |-> 0] :
                          t \in { u \in 0 .. g.ntokens - 1 : u \in LA[<< n, r >>] } } :
                        r \in ToSet(reds[n]) },
        ActionOrder)

(* find_final_state(): the last shift of state 0 that is on the goal. *)
FindFinalState ==
    CHOOSE q \in ToSet(shift[0]) : AccessingSymbol(q) = Head(Rhs(g, g.top))

MaySuppress(p) == IF g.backtrack THEN p.suppressed <= 1 ELSE p.suppressed = 0

-----------------------------------------------------------------------------
(***************************************************************************)
(* One turn of the inner loop of remove_conflicts(): action actno of the   *)
(* list meets the preferred action of its symbol.  The counts of a state   *)
(* are added to the totals one by one.                                     *)
(***************************************************************************)
Row == parser[row]
Suppress(acts, k, how) == [acts EXCEPT ![k].suppressed = how]
Becomes(acts) == parser' = [parser EXCEPT ![row] = acts]

(* Mutant of StartBacktrack: the preferred action stays the only one. *)
StartBacktrack_Never(acts, k) == acts

StartBacktrack(acts, k) ==
    IF g.backtrack /\ acts[k].suppressed = 0 THEN Suppress(acts, k, 1) ELSE acts

KeepPref == Becomes(Suppress(Row, actno, 2)) /\ UNCHANGED << pref, SRtotal, RRtotal >>
LoseBoth ==
    Becomes(Suppress(Suppress(Row, pref, 2), actno, 2)) /\ UNCHANGED << pref, SRtotal, RRtotal >>

(* Mutants of TakeOver: the loser is not suppressed; pref stays behind. *)
TakeOver_BothLive == pref' = actno /\ UNCHANGED << parser, SRtotal, RRtotal >>
TakeOver_StalePref == Becomes(Suppress(Row, pref, 2)) /\ UNCHANGED << pref, SRtotal, RRtotal >>

TakeOver == Becomes(Suppress(Row, pref, 2)) /\ pref' = actno /\ UNCHANGED << SRtotal, RRtotal >>

(* What precedence does not settle. *)
Unsettled == Becomes(StartBacktrack(Suppress(Row, actno, 1), pref)) /\ UNCHANGED pref

(* Mutant of CountRR: the conflict is settled but not counted. *)
CountRR_NotCounted == Unsettled /\ UNCHANGED << SRtotal, RRtotal >>

CountSR == Unsettled /\ SRtotal' = SRtotal + 1 /\ UNCHANGED RRtotal
CountRR == Unsettled /\ RRtotal' = RRtotal + 1 /\ UNCHANGED SRtotal

ByPrecedence ==
    \/ Row[pref].prec < Row[actno].prec /\ TakeOver
    \/ Row[pref].prec > Row[actno].prec /\ KeepPref
    \/ /\ Row[pref].prec = Row[actno].prec
       /\ \/ Row[pref].action_code = REDUCE /\ CountRR
          \/ Row[pref].action_code = SHIFT /\ Row[pref].assoc = "LEFT" /\ TakeOver
          \/ Row[pref].action_code = SHIFT /\ Row[pref].assoc = "RIGHT" /\ KeepPref
          \/ Row[pref].action_code = SHIFT /\ Row[pref].assoc \notin {"LEFT", "RIGHT"} /\ LoseBoth

NewSymbol == IF pref = 0 THEN TRUE ELSE Row[pref].symbol # Row[actno].symbol
AtAccept == row = final_state /\ Row[actno].symbol = 0
HasPrec ==
    /\ Row[pref].prec > 0 /\ Row[actno].prec > 0
    /\ Row[pref].action_code = SHIFT \/ g.lemon_prec_flag

Resolve ==
    \/ NewSymbol /\ pref' = actno /\ UNCHANGED << parser, SRtotal, RRtotal >>
    \/ /\ ~NewSymbol
       /\ \/ AtAccept /\ CountSR
          \/ ~AtAccept /\ HasPrec /\ ByPrecedence
          \/ ~AtAccept /\ ~HasPrec /\ Row[pref].action_code = SHIFT /\ CountSR
          \/ ~AtAccept /\ ~HasPrec /\ Row[pref].action_code = REDUCE /\ CountRR

(* Mutant of SoleReduction: shifts do not prevent a default reduction. *)
SoleReduction_DespiteShift(acts) ==
    LET live == { k \in DOMAIN acts : MaySuppress(acts[k]) /\ acts[k].action_code = REDUCE }
    IN  IF \/ \E k, l \in live : acts[k].number # acts[l].number
           \/ \A k \in live : acts[k].symbol = 1
        THEN 0
        ELSE acts[CHOOSE k \in live : TRUE].number

(* sole_reduction(): the one rule all live actions of a row reduce, unless
   its only lookahead is the error token (1). *)
SoleReduction(acts) ==
    LET live == { k \in DOMAIN acts : MaySuppress(acts[k]) }
    IN  IF \/ \E k \in live : acts[k].action_code = SHIFT
           \/ \E k, l \in live : acts[k].number # acts[l].number
           \/ \A k \in live : acts[k].symbol = 1
        THEN 0
        ELSE acts[CHOOSE k \in live : TRUE].number

-----------------------------------------------------------------------------
MkparInit ==
    /\ parser = << >> /\ final_state = 0 /\ row = 0 /\ actno = 1 /\ pref = 0
    /\ SRtotal = 0 /\ RRtotal = 0
    /\ rules_used = {} /\ reported = FALSE /\ exit_code = FALSE /\ defred = << >>

ListActions ==
    /\ LalrDone
    /\ parser' = [n \in DOMAIN states |-> ParseActions(n)]
    /\ final_state' = FindFinalState
    /\ row' = 0
    /\ phase' = "remove_conflicts"
    /\ UNCHANGED << g, nullable, firstDerives, states, shift, reds, this, pending, lalrVars,
                    actno, pref, SRtotal, RRtotal, rules_used, reported, exit_code, defred >>

RemoveConflicts ==
    /\ phase = "remove_conflicts"
    /\ row < nstates
    /\ actno <= Len(Row)
    /\ Resolve
    /\ actno' = actno + 1
    /\ UNCHANGED << lr0Vars, lalrVars, final_state, row, rules_used, reported, exit_code, defred >>

NextRow ==
    /\ phase = "remove_conflicts"
    /\ row < nstates
    /\ actno > Len(Row)
    /\ row' = row + 1
    /\ actno' = 1 /\ pref' = 0
    /\ UNCHANGED << lr0Vars, lalrVars, parser, final_state, SRtotal, RRtotal,
                    rules_used, reported, exit_code, defred >>

(* unused_rules(), total_conflicts() and defreds(). *)
Finish ==
    /\ phase = "remove_conflicts"
    /\ row = nstates
    /\ rules_used' = UNION { { p.number : p \in { q \in ToSet(parser[n]) :
                                 q.action_code = REDUCE /\ MaySuppress(q) } } : n \in DOMAIN states }
    /\ reported' = (SRtotal + RRtotal > 0)
    /\ exit_code' = /\ SRtotal + RRtotal > 0
                    /\ \/ g.SRexpect >= 0 /\ SRtotal # g.SRexpect
                       \/ g.RRexpect >= 0 /\ RRtotal # g.RRexpect
    /\ defred' = [n \in DOMAIN states |-> SoleReduction(parser[n])]
    /\ phase' = "done"
    /\ UNCHANGED << g, nullable, firstDerives, states, shift, reds, this, pending, lalrVars,
                    parser, final_state, row, actno, pref, SRtotal, RRtotal >>

MkparNext == ListActions \/ RemoveConflicts \/ NextRow \/ Finish

Init == LR0Init /\ LalrInit /\ MkparInit

Next ==
    \/ LR0Next /\ UNCHANGED << lalrVars, mkparVars >>
    \/ LalrNext /\ UNCHANGED mkparVars
    \/ MkparNext

Spec == Init /\ [][Next]_vars /\ WF_vars(Next)

-----------------------------------------------------------------------------
Collection == Collection1(g)
Clos(n) == closure(states[n].items)

(***************************************************************************)
(* The automaton is the LALR(1) automaton: the states are exactly the      *)
(* cores of the canonical LR(1) collection, and each reduction's lookahead *)
(* set is exactly what merging the LR(1) item sets gives.  lalr.c never    *)
(* sees an LR(1) item: it gets there through reads, includes, lookback and *)
(* two runs of digraph().                                                  *)
(***************************************************************************)
AutomatonIsLALR ==
    phase = "make_parser" /\ ProductiveVars(g) = Vars(g) =>
        LET C == Collection
        IN  /\ { Clos(n) : n \in DOMAIN states } = StatesLALR(g, C)
            /\ \A e \in LAentries : LA[e] = LookaheadLALR(g, C, Clos(e[1]), e[2])

(***************************************************************************)
(* One parse action is left for each state and token at most, whatever mix *)
(* of precedence, associativity and rule order settled the others.         *)
(***************************************************************************)
Deterministic ==
    phase = "done" =>
        \A n \in DOMAIN states : \A k, l \in DOMAIN parser[n] :
            /\ parser[n][k].symbol = parser[n][l].symbol
            /\ parser[n][k].suppressed = 0 /\ parser[n][l].suppressed = 0
            => k = l

(***************************************************************************)
(* The totals are the number of actions lost without a precedence: for a   *)
(* grammar without precedences, all but one of every state and token.      *)
(* This is the number the README compares between the generators.          *)
(***************************************************************************)
NoPrecedence == /\ \A x \in DOMAIN g.prec : g.prec[x] = 0
                /\ \A r \in DOMAIN g.rprec : g.rprec[r] = 0

Rivals(n, x) == { k \in DOMAIN parser[n] : parser[n][k].symbol = x }

Losers ==
    UNION { { << n, k >> : k \in { l \in DOMAIN parser[n] :
                                    \E m \in 1 .. l - 1 : parser[n][m].symbol = parser[n][l].symbol } } :
              n \in DOMAIN states }

CountsEveryLoss ==
    phase = "done" /\ NoPrecedence => SRtotal + RRtotal = Cardinality(Losers)

(***************************************************************************)
(* With -B every action of an unsettled conflict becomes a trial of the    *)
(* backtracking parser: none of them is left as the only choice.           *)
(***************************************************************************)
TrialsComplete ==
    phase = "done" /\ g.backtrack /\ NoPrecedence =>
        \A n \in DOMAIN states : \A x \in 0 .. g.ntokens - 1 :
            Cardinality(Rivals(n, x)) > 1 =>
                \A k \in Rivals(n, x) : parser[n][k].suppressed = 1

(***************************************************************************)
(* With lemon_prec_flag the action left for a token is one of the highest  *)
(* precedence among its rivals, provided that all of them have one: the    *)
(* comparisons run in pairs, in the order of the list.                     *)
(***************************************************************************)
StrongestWins ==
    phase = "done" /\ g.lemon_prec_flag =>
        \A n \in DOMAIN states \ {final_state} : \A x \in 0 .. g.ntokens - 1 :
            (\A k \in Rivals(n, x) : parser[n][k].prec > 0) =>
                \A k, l \in Rivals(n, x) :
                    parser[n][k].suppressed = 0 => parser[n][l].prec <= parser[n][k].prec

(***************************************************************************)
(* The manual: "If there are any LALR(1) conflicts, the number of          *)
(* conflicts is reported on standard error" (yacc.1:229).  Accepting at    *)
(* the end of the input is an action, too, but not one of the list.        *)
(***************************************************************************)
HasConflict ==
    \/ \E n \in DOMAIN states : \E x \in 0 .. g.ntokens - 1 : Cardinality(Rivals(n, x)) > 1
    \/ Rivals(final_state, 0) # {}

ConflictsReported == phase = "done" /\ NoPrecedence /\ HasConflict => reported
=============================================================================
