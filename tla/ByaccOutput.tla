----------------------------- MODULE ByaccOutput -----------------------------
(***************************************************************************)
(* byacc/output.c: the actions and gotos become vectors, pack_table()      *)
(* (module ByaccPack, instantiated on the variables of the same name)      *)
(* packs them, and the tables of the generated parser are written.         *)
(***************************************************************************)
EXTENDS ByaccMkpar

CONSTANTS MAXTABLE, InitialTable, Increment

ASSUME TableAssumption ==
    MAXTABLE \in Nat /\ InitialTable \in Nat \ {0} /\ Increment \in Nat \ {0}

VARIABLES
    conflicts,      \* S->conflicts, up to S->nconflicts
    most,           \* history: the most that was in use of conflicts[]
    conflictrow,    \* state |-> token |-> where its list begins, from 1, or 0
    actrow, actpos, \* i and p of token_actions(), p as a position in the list
    csym, cbase,    \* the token of the list, and where the list begins
    nvectors, vectors, nrows, order, next, place, entry, base, table, check,
    maxtable, lowzero, high, overflow,
    tables                      \* the tables of the generated parser

packVars == << nvectors, vectors, nrows, order, next, place, entry, base, table, check,
               maxtable, lowzero, high, overflow >>
listVars == << conflicts, most, conflictrow, actrow, actpos, csym, cbase >>
outputVars == << listVars, packVars, tables >>

P == INSTANCE ByaccPack WITH Packings <- {}

RULE_NUM_OFFSET == 2

(* symbol_value: tokens have the numbers yylex() returns; the goal has 0
   and the other variables 1, 2, ... *)
SymbolValue(x) == IF ISTOKEN(x) THEN g.value[x] ELSE x - start_symbol - 1

-----------------------------------------------------------------------------
(* token_actions(), for backtracking: the rival actions of a token become a
   list in conflicts[], a shift first and the reductions after a -1; it
   ends with a -1, and the next list may begin with that one.  A list that
   is already there is used again. *)
Listing == phase = "token_actions" /\ g.backtrack /\ actrow < nstates
RowEnds == actpos > Len(parser[actrow])
Act == parser[actrow][actpos]
ListEnds == csym # -1 /\ (~RowEnds => Act.symbol # csym)

StartActions ==
    /\ phase = "done"
    /\ phase' = "token_actions"
    /\ conflictrow' = [n \in DOMAIN states |-> [x \in 0 .. g.ntokens - 1 |-> 0]]
    /\ UNCHANGED << g, nullable, firstDerives, states, shift, reds, this, pending, lalrVars, mkparVars,
                    conflicts, most, actrow, actpos, csym, cbase, packVars, tables >>

(* find_conflict_base(): where list, from cbase, is first found. *)
Same(list, j) == \A k \in cbase + 1 .. Len(list) : list[j + k - cbase] = list[k]
ConflictBase(list) ==
    CHOOSE j \in 0 .. cbase : Same(list, j) /\ \A k \in 0 .. j - 1 : ~Same(list, k)

EndList ==
    /\ Listing
    /\ ListEnds
    /\ LET list == Append(conflicts, -1)
           found == ConflictBase(list)
           kept == IF found = cbase THEN Len(list)
                   ELSE IF list[cbase + 1] = -1 THEN cbase + 1 ELSE cbase
       IN  /\ conflictrow' = [conflictrow EXCEPT ![actrow][csym] = found + 1]
           /\ conflicts' = SubSeq(list, 1, kept)
           /\ cbase' = kept
           /\ most' = IF most < Len(list) THEN Len(list) ELSE most
    /\ csym' = -1
    /\ UNCHANGED << vars, actrow, actpos, packVars, tables >>

(* Mutant of MarkReductions: no -1 before a list of reductions only. *)
MarkReductions_Not == UNCHANGED cbase /\ conflicts' = Append(conflicts, Act.number - RULE_NUM_OFFSET)

(* The -1 may be the end of the list before. *)
MarkReductions ==
    IF cbase = Len(conflicts) /\ cbase = 0
    THEN UNCHANGED cbase /\ conflicts' = << -1, Act.number - RULE_NUM_OFFSET >>
    ELSE /\ cbase' = IF cbase = Len(conflicts) THEN cbase - 1 ELSE cbase
         /\ conflicts' = Append(conflicts, Act.number - RULE_NUM_OFFSET)

(* Mutant of IsRival: actions settled by precedence are listed, too. *)
IsRival_Settled == Act.suppressed >= 1

IsRival == Act.suppressed = 1

AddRival ==
    /\ Listing
    /\ ~RowEnds /\ ~ListEnds
    /\ IsRival
    /\ csym' = Act.symbol
    /\ \/ Act.action_code = SHIFT /\ conflicts' = Append(conflicts, Act.number) /\ UNCHANGED cbase
       \/ Act.action_code = REDUCE /\ Act.number = defred[actrow] /\ UNCHANGED << conflicts, cbase >>
       \/ Act.action_code = REDUCE /\ Act.number # defred[actrow] /\ MarkReductions
    /\ actpos' = actpos + 1
    /\ UNCHANGED << vars, most, conflictrow, actrow, packVars, tables >>

PassAction ==
    /\ Listing
    /\ ~RowEnds /\ ~ListEnds
    /\ ~IsRival
    /\ actpos' = actpos + 1
    /\ UNCHANGED << vars, conflicts, most, conflictrow, actrow, csym, cbase, packVars, tables >>

NextState ==
    /\ Listing
    /\ RowEnds /\ ~ListEnds
    /\ actrow' = actrow + 1
    /\ actpos' = 1
    /\ UNCHANGED << vars, conflicts, most, conflictrow, csym, cbase, packVars, tables >>

TokenActions == EndList \/ AddRival \/ PassAction \/ NextState

(* token_actions(): the vector of a row, in the order of the tokens. *)
RowVector(actionrow, offset) ==
    LET xs == InOrder({ x \in DOMAIN actionrow : actionrow[x] # 0 }, <)
    IN  [from |-> [k \in DOMAIN xs |-> SymbolValue(xs[k])],
         to |-> [k \in DOMAIN xs |-> actionrow[xs[k]] - offset]]

ActionRow(n, code) ==
    [x \in 0 .. g.ntokens - 1 |->
        LET ps == { p \in ToSet(parser[n]) :
                      /\ p.symbol = x /\ p.suppressed = 0 /\ p.action_code = code
                      /\ code = REDUCE => p.number # defred[n] }
        IN  IF ps = {} THEN 0 ELSE (CHOOSE p \in ps : TRUE).number]

(* default_goto(): the most frequent target of the gotos on a variable. *)
GotosOn(x) == { k \in 0 .. Len(InOrder(Gotos, GotoOrder)) - 1 : AccessingSymbol(toState[k]) = x }
StateCount(x, q) == Cardinality({ k \in GotosOn(x) : toState[k] = q })

DefaultGoto(x) ==
    IF GotosOn(x) = {} THEN 0
    ELSE CHOOSE q \in { toState[k] : k \in GotosOn(x) } :
            \A p \in { toState[k] : k \in GotosOn(x) } :
                \/ StateCount(x, p) < StateCount(x, q)
                \/ StateCount(x, p) = StateCount(x, q) /\ q <= p

(* save_column() *)
Column(x) ==
    LET ks == InOrder({ k \in GotosOn(x) : toState[k] # DefaultGoto(x) }, <)
    IN  [from |-> [e \in DOMAIN ks |-> fromState[ks[e]]], to |-> [e \in DOMAIN ks |-> toState[ks[e]]]]

EmptyVector == [from |-> << >>, to |-> << >>]

Vectors ==
    [v \in 0 .. 3 * nstates + (g.nsyms - g.ntokens) - 1 |->
        IF v < nstates THEN RowVector(ActionRow(v, SHIFT), 0)
        ELSE IF v < 2 * nstates THEN RowVector(ActionRow(v - nstates, REDUCE), RULE_NUM_OFFSET)
        ELSE IF v < 3 * nstates THEN RowVector(conflictrow[v - 2 * nstates], 1)
        ELSE LET x == v - 3 * nstates + start_symbol + 1
             IN  IF x < g.nsyms THEN Column(x) ELSE EmptyVector]

OutputInit ==
    /\ conflicts = << >> /\ most = 0 /\ conflictrow = << >>
    /\ actrow = 0 /\ actpos = 1 /\ csym = -1 /\ cbase = 0
    /\ nvectors = 0 /\ vectors = << >> /\ nrows = 0 /\ order = << >> /\ next = 1
    /\ place = 0 /\ entry = 1 /\ base = << >> /\ table = << >> /\ check = << >>
    /\ maxtable = 0 /\ lowzero = 0 /\ high = 0 /\ overflow = FALSE
    /\ tables = << >>

(* output_actions(), after token_actions() and up to the loop of pack_table() *)
OutputActions ==
    /\ phase = "token_actions"
    /\ ~Listing
    /\ phase' = "pack_table"
    /\ vectors' = Vectors
    /\ nvectors' = 3 * nstates + (g.nsyms - g.ntokens)
    /\ nrows' = 2 * nstates
    /\ order' = P!SortActions(vectors')
    /\ next' = 1
    /\ place' = 0 /\ entry' = 1
    /\ base' = [v \in DOMAIN vectors' |-> 0]
    /\ table' = [l \in 0 .. InitialTable - 1 |-> 0]
    /\ check' = [l \in 0 .. InitialTable - 1 |-> -1]
    /\ maxtable' = InitialTable
    /\ lowzero' = 0
    /\ high' = 0
    /\ overflow' = FALSE
    /\ UNCHANGED << g, nullable, firstDerives, states, shift, reds, this, pending, lalrVars, mkparVars, listVars, tables >>

PackTable ==
    /\ phase = "pack_table"
    /\ P!Next
    /\ UNCHANGED << lr0Vars, lalrVars, mkparVars, listVars, tables >>

(* The tables as the generated parser has them.  Rules and states are
   numbered from 0, rule 0 being $accept : goal $end. *)
Rules2 == 0 .. Cardinality(DOMAIN g.rules) - 1
Tables ==
    [defred |-> [n \in DOMAIN states |-> IF defred[n] = 0 THEN 0 ELSE defred[n] - RULE_NUM_OFFSET],
     lhs |-> [r \in Rules2 |-> SymbolValue(g.rules[r + RULE_NUM_OFFSET].lhs)],
     len |-> [r \in Rules2 |-> Len(Rhs(g, r + RULE_NUM_OFFSET))],
     dgoto |-> [x \in 0 .. g.nsyms - start_symbol - 2 |-> DefaultGoto(x + start_symbol + 1)],
     sindex |-> [n \in DOMAIN states |-> base[n]],
     rindex |-> [n \in DOMAIN states |-> base[nstates + n]],
     cindex |-> [n \in DOMAIN states |-> base[2 * nstates + n]],
     gindex |-> [x \in 0 .. g.nsyms - start_symbol - 2 |-> base[3 * nstates + x]],
     table |-> table, check |-> check, YYTABLESIZE |-> high,
     ctable |-> conflicts, YYFINAL |-> final_state, YYERRCODE |-> g.value[1],
     brackets |-> [r \in Rules2 |-> g.brackets[r + RULE_NUM_OFFSET]],
     tokens |-> { g.value[x] : x \in 2 .. g.ntokens - 1 }]

(* output_base(), output_table(), ...: the table must have less than
   MAXYYINT entries. *)
WriteTables ==
    /\ phase = "pack_table"
    /\ P!Packed
    /\ phase' = IF overflow \/ high >= MAXYYINT THEN "fatal" ELSE "written"
    /\ tables' = IF phase' = "written" THEN Tables ELSE << >>
    /\ UNCHANGED << g, nullable, firstDerives, states, shift, reds, this, pending, lalrVars,
                    mkparVars, listVars, packVars >>

OutputNext == StartActions \/ TokenActions \/ OutputActions \/ PackTable \/ WriteTables

-----------------------------------------------------------------------------
(***************************************************************************)
(* With -B the generated parser finds, for every state and token, the list *)
(* of all rival actions: a shift if the list does not begin with -1, then  *)
(* reductions up to the next -1.  Lists are shared, and one may begin with *)
(* the end of another.  In a state with a default reduction the parser     *)
(* reduces before it looks at a list.                                      *)
(***************************************************************************)
ListFrom(c) ==
    SubSeq(conflicts, c, (CHOOSE e \in c .. Len(conflicts) :
                             /\ conflicts[e] = -1
                             /\ \A m \in c .. e - 1 : conflicts[m] # -1) - 1)

Trials(n, x) ==
    LET b == tables.cindex[n]
        f == SymbolValue(x)
        c == table[b + f] + 1
    IN  IF b = 0 \/ b + f \notin 0 .. high THEN << >>
        ELSE IF check[b + f] # f THEN << >>
        ELSE IF conflicts[c] # -1 THEN << << SHIFT, conflicts[c] >> >> \o
                 [k \in 1 .. Len(ListFrom(c)) - 1 |-> << REDUCE, ListFrom(c)[k + 1] + RULE_NUM_OFFSET >>]
        ELSE [k \in 1 .. Len(ListFrom(c + 1)) |-> << REDUCE, ListFrom(c + 1)[k] + RULE_NUM_OFFSET >>]

RivalActions(n, x) ==
    LET rivals == InOrder({ k \in DOMAIN parser[n] : parser[n][k].symbol = x /\ parser[n][k].suppressed = 1 }, <)
    IN  [k \in DOMAIN rivals |-> << parser[n][rivals[k]].action_code, parser[n][rivals[k]].number >>]

ConflictListsExact ==
    phase = "written" /\ g.backtrack =>
        \A n \in DOMAIN states : defred[n] = 0 =>
            \A x \in 0 .. g.ntokens - 1 : Trials(n, x) = RivalActions(n, x)

(* conflicts[] is allocated for four entries a conflict: that is enough,
   also for the lists that are dropped when an equal one is found. *)
ConflictsFit == most <= 4 * (SRtotal + RRtotal)
=============================================================================
