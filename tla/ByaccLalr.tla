------------------------------ MODULE ByaccLalr ------------------------------
(***************************************************************************)
(* byacc/lalr.c: the LALR(1) lookaheads of DeRemer and Pennello.           *)
(*                                                                         *)
(* lalr() numbers the transitions on variables ("gotos"), computes the     *)
(* reads relation and runs digraph() on it, computes the includes and      *)
(* lookback relations, runs digraph() again on includes and collects the   *)
(* lookaheads of every reduction.  digraph() itself is module Digraph,     *)
(* instantiated on the variables of the same name; its steps are steps of  *)
(* this module.                                                            *)
(***************************************************************************)
EXTENDS ByaccLR0

VARIABLES
    fromState, toState,  \* S->from_state, S->to_state
    lookback,            \* S->fs3_lookback: << state, rule >> |-> gotos
    LA,                  \* S->LA: << state, rule >> |-> tokens
    ngotos, R, F0, F, INDEX, VERTICES, top, i, depth, stack, height, rp

gotoVars == << fromState, toState >>
digraphVars == << ngotos, R, F0, F, INDEX, VERTICES, top, i, depth, stack, height, rp >>
lalrVars == << gotoVars, lookback, LA, digraphVars >>

MaxToken == Max({ gr.ntokens : gr \in Grammars }) - 1
D == INSTANCE Digraph WITH Tokens <- 0 .. MaxToken, Inputs <- {}

AccessingSymbol(n) == states[n].accessing_symbol
Shifts(n) == [k \in 1 .. Len(shift[n]) |-> AccessingSymbol(shift[n][k])]
ISTOKEN(x) == x < start_symbol

(* lookaheads[], LAruleno[]: one entry for each reduction of each state. *)
LAentries == UNION { { << n, r >> : r \in ToSet(reds[n]) } : n \in DOMAIN reds }

-----------------------------------------------------------------------------
(* set_goto_map(): shifts are scanned from the last down to a token; gotos
   are numbered by symbol and, for a symbol, by the state they leave. *)
Gotos ==
    UNION { { << Shifts(n)[k], n, shift[n][k] >> :
                k \in { j \in 1 .. Len(shift[n]) :
                          \A l \in j .. Len(shift[n]) : ~ISTOKEN(Shifts(n)[l]) } } :
              n \in DOMAIN shift }

GotoOrder(a, b) == a[1] < b[1] \/ (a[1] = b[1] /\ a[2] < b[2])

gotoMap(x) == Cardinality({ k \in 0 .. ngotos - 1 : AccessingSymbol(toState[k]) < x })

(* map_goto(): binary search; -1 stands for its failed assertion. *)
MapGoto(state, x) ==
    LET search[c \in Int \X Int] ==
            LET low == c[1]
                high == c[2]
                middle == (low + high) \div 2
            IN  IF low > high THEN -1
                ELSE IF fromState[middle] = state THEN middle
                ELSE IF fromState[middle] < state THEN search[<< middle + 1, high >>]
                ELSE search[<< low, middle - 1 >>]
    IN  search[<< gotoMap(x), gotoMap(x + 1) >>]

(* The entry of digraph(relation), for the sets f. *)
CallDigraph(n, relation, f) ==
    /\ ngotos' = n
    /\ R' = relation
    /\ F0' = f
    /\ F' = f
    /\ INDEX' = [v \in 0 .. n - 1 |-> 0]
    /\ VERTICES' = [k \in 0 .. n |-> 0]
    /\ top' = 0
    /\ i' = 0
    /\ depth' = 0
    /\ stack' = [k \in 0 .. n |-> 0]
    /\ height' = [v \in 0 .. n - 1 |-> 0]
    /\ rp' = [v \in 0 .. n - 1 |-> 0]

LalrInit ==
    /\ fromState = << >> /\ toState = << >> /\ lookback = << >> /\ LA = << >>
    /\ ngotos = 0 /\ R = << >> /\ F0 = << >> /\ F = << >> /\ INDEX = << >>
    /\ VERTICES = << >> /\ top = 0 /\ i = 0 /\ depth = 0 /\ stack = << >>
    /\ height = << >> /\ rp = << >>

(* The start of lalr(): set_accessing_symbol() to set_goto_map(). *)
SetGotoMap ==
    /\ LR0Done
    /\ Cardinality(Gotos) <= MAXYYINT
    /\ LET s == InOrder(Gotos, GotoOrder)
       IN  /\ fromState' = [k \in 0 .. Len(s) - 1 |-> s[k + 1][2]]
           /\ toState' = [k \in 0 .. Len(s) - 1 |-> s[k + 1][3]]
           /\ ngotos' = Len(s)
    /\ phase' = "initialize_F"
    /\ UNCHANGED << g, nullable, firstDerives, states, shift, reds, this, pending,
                    lookback, LA, R, F0, F, INDEX, VERTICES, top, i, depth, stack, height, rp >>

(* fatal("too many gotos") *)
TooManyGotos ==
    /\ LR0Done
    /\ Cardinality(Gotos) > MAXYYINT
    /\ phase' = "fatal"
    /\ UNCHANGED << g, nullable, firstDerives, states, shift, reds, this, pending, lalrVars >>

(* initialize_F(): the tokens read directly, the reads relation, and the
   call of digraph().  Shifts are scanned up to the first variable for the
   tokens, and from there on for the nullable symbols. *)
DirectReads(n) ==
    { Shifts(n)[k] : k \in { j \in 1 .. Len(shift[n]) :
                               \A l \in 1 .. j : ISTOKEN(Shifts(n)[l]) } }
NullableShifts(n) ==
    LET kept == InOrder({ k \in 1 .. Len(shift[n]) :
                            ~ISTOKEN(Shifts(n)[k]) /\ Shifts(n)[k] \in nullable }, <)
    IN  [e \in DOMAIN kept |-> Shifts(n)[kept[e]]]

InitializeF ==
    /\ phase = "initialize_F"
    /\ phase' = "reads"
    /\ CallDigraph(ngotos,
           [k \in 0 .. ngotos - 1 |->
               LET n == toState[k] IN
               [e \in DOMAIN NullableShifts(n) |-> MapGoto(n, NullableShifts(n)[e])]],
           [k \in 0 .. ngotos - 1 |->
               DirectReads(toState[k]) \cup (IF k = 0 THEN {0} ELSE {})])
    /\ UNCHANGED << g, nullable, firstDerives, states, shift, reds, this, pending,
                    gotoVars, lookback, LA >>

(* The state reached from n over the first k symbols of the rule. *)
Path(n, r, k) ==
    LET at[e \in 0 .. k] ==
            IF e = 0 THEN n
            ELSE CHOOSE q \in ToSet(shift[at[e - 1]]) : AccessingSymbol(q) = Rhs(g, r)[e]
    IN  at[k]

RulesOfGoto(k) == RulesOf(g, AccessingSymbol(toState[k]))

(* Mutant of IncludedBy: only the last symbol of a rule is looked at. *)
IncludedBy_LastOnly(k) ==
    LET n == fromState[k]
        OfRule(r) ==
            LET s == Rhs(g, r)
            IN  IF s # << >> /\ ~ISTOKEN(Last(s))
                THEN << MapGoto(Path(n, r, Len(s) - 1), Last(s)) >> ELSE << >>
    IN  FlattenSeq([e \in 1 .. Cardinality(RulesOfGoto(k)) |->
                        OfRule(InOrder(RulesOfGoto(k), <)[e])])

(* build_relations(): from the end of each rule backwards, while what
   follows is nullable; the edges of goto k, before they are transposed. *)
IncludedBy(k) ==
    LET n == fromState[k]
        OfRule(r) ==
            LET s == Rhs(g, r)
                Walked == { p \in 1 .. Len(s) : /\ ~ISTOKEN(s[p])
                                                /\ \A q \in p + 1 .. Len(s) : s[q] \in nullable }
                back == Reverse(InOrder(Walked, <))
            IN  [e \in DOMAIN back |-> MapGoto(Path(n, r, back[e] - 1), s[back[e]])]
    IN  FlattenSeq([e \in 1 .. Cardinality(RulesOfGoto(k)) |->
                        OfRule(InOrder(RulesOfGoto(k), <)[e])])

Transpose(E, n) ==
    [v \in 0 .. n - 1 |->
        FlattenSeq([k \in 1 .. n |->
            [e \in 1 .. Cardinality({ x \in DOMAIN E[k - 1] : E[k - 1][x] = v }) |-> k - 1]])]

LookbackEdges ==
    UNION { { << Path(fromState[k], r, Len(Rhs(g, r))), r, k >> : r \in RulesOfGoto(k) } :
              k \in 0 .. ngotos - 1 }

BuildRelations ==
    /\ phase = "reads"
    /\ D!Terminated
    /\ phase' = "includes"
    /\ lookback' = [e \in LAentries |->
                       { k \in 0 .. ngotos - 1 : << e[1], e[2], k >> \in LookbackEdges }]
    /\ CallDigraph(ngotos, Transpose([k \in 0 .. ngotos - 1 |-> IncludedBy(k)], ngotos), F)
    /\ UNCHANGED << g, nullable, firstDerives, states, shift, reds, this, pending, gotoVars, LA >>

(* One step of digraph(), on reads or on includes. *)
RunDigraph ==
    /\ phase \in {"reads", "includes"}
    /\ D!Next
    /\ UNCHANGED << lr0Vars, gotoVars, lookback, LA >>

ComputeLookaheads ==
    /\ phase = "includes"
    /\ D!Terminated
    /\ phase' = "make_parser"
    /\ LA' = [e \in LAentries |-> UNION { F[k] : k \in lookback[e] }]
    /\ UNCHANGED << g, nullable, firstDerives, states, shift, reds, this, pending,
                    gotoVars, lookback, digraphVars >>

LalrDone == phase = "make_parser"

LalrNext == SetGotoMap \/ TooManyGotos \/ InitializeF \/ BuildRelations \/ RunDigraph \/ ComputeLookaheads
=============================================================================
