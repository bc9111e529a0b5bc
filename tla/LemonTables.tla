----------------------------- MODULE LemonTables -----------------------------
(***************************************************************************)
(* lemon/lemon.c, from CompressTables() to ReportTable(): default          *)
(* reductions, shifts that are followed by a reduction, the new order of   *)
(* the states, and the tables the parser runs on.                          *)
(***************************************************************************)
EXTENDS LemonBuild, LemonActtab

VARIABLES
    pDfltReduce,    \* state |-> stp->pDfltReduce if stp->autoReduce, or -1
    sorted,         \* lem.sorted: the states in their new order
    nxstate,        \* the states before the last ones with autoReduce
    acttab,
    iOfst,          \* << state, isTkn >> |-> stp->iTknOfst or stp->iNtOfst
    todo,           \* ax[], the sets << state, isTkn >> not yet inserted
    yy              \* what is written

tableVars == << pDfltReduce, sorted, nxstate, acttab, iOfst, todo, yy >>

NoRule == -1
SHIFTREDUCE == "SHIFTREDUCE"
LhsStart(r) == g.rules[r].lhs = g.start

-----------------------------------------------------------------------------
(* Mutant of DefaultOf: the wildcard does not stop the default. *)
DefaultOf_Wildcard(s) ==
    LET rules == { s[k].arg : k \in { j \in DOMAIN s : s[j].type = REDUCE /\ ~LhsStart(s[j].arg) } }
        at(r) == { k \in DOMAIN s : s[k].type = REDUCE /\ s[k].arg = r }
    IN  IF rules = {} THEN NoRule
        ELSE CHOOSE r \in rules : \A q \in rules \ {r} :
                \/ Cardinality(at(r)) > Cardinality(at(q))
                \/ Cardinality(at(r)) = Cardinality(at(q)) /\ Min(at(r)) < Min(at(q))

(* The most frequent REDUCE action, the first one of several; none for the
   rules of the start symbol, or if the wildcard can be shifted. *)
DefaultOf(s) ==
    LET rules == { s[k].arg : k \in { j \in DOMAIN s : s[j].type = REDUCE /\ ~LhsStart(s[j].arg) } }
        at(r) == { k \in DOMAIN s : s[k].type = REDUCE /\ s[k].arg = r }
        usesWildcard == g.wildcard # 0 /\ \E k \in DOMAIN s : s[k].type = SHIFT /\ s[k].sp = g.wildcard
    IN  IF rules = {} \/ usesWildcard THEN NoRule
        ELSE CHOOSE r \in rules : \A q \in rules \ {r} :
                \/ Cardinality(at(r)) > Cardinality(at(q))
                \/ Cardinality(at(r)) = Cardinality(at(q)) /\ Min(at(r)) < Min(at(q))

(* The first action by the rule becomes that on {default}, symbol nsyms. *)
WithDefault(s, r) ==
    LET at == { k \in DOMAIN s : s[k].type = REDUCE /\ s[k].arg = r }
    IN  Action_sort({ IF k \notin at THEN s[k]
                      ELSE IF k = Min(at) THEN [s[k] EXCEPT !.sp = g.nsyms]
                      ELSE [s[k] EXCEPT !.type = "NOT_USED"] : k \in DOMAIN s })

(* Nothing else to do in this state; an ERROR action does not count. *)
AutoReduces(s, r) == \A k \in DOMAIN s : s[k].type # SHIFT /\ (s[k].type = REDUCE => s[k].arg = r)

TablesInit ==
    /\ pDfltReduce = << >> /\ sorted = << >> /\ nxstate = 0 /\ acttab = << >>
    /\ iOfst = << >> /\ todo = << >> /\ yy = << >>

(* CompressTables(), the first pass. *)
CompressTables ==
    /\ phase = "compress"
    /\ g.compress
    /\ LET best == [n \in DOMAIN acts |-> DefaultOf(acts[n])]
       IN  /\ acts' = [n \in DOMAIN acts |-> IF best[n] = NoRule THEN acts[n] ELSE WithDefault(acts[n], best[n])]
           /\ pDfltReduce' = [n \in DOMAIN acts |->
                                 IF best[n] # NoRule /\ AutoReduces(acts'[n], best[n]) THEN best[n] ELSE NoRule]
    /\ phase' = "shiftreduce"
    /\ UNCHANGED << g, precsym, lambda, firstset, basis, configs, shifts, work, fws, fplp, bplp, complete, i, progress,
                    nconflict, errorcnt, canReduce, sorted, nxstate, acttab, iOfst, todo, yy >>

(* The second pass: a SHIFT to an autoReduce state is a SHIFTREDUCE. *)
Shiftreduced(x) ==
    IF x.type = SHIFT /\ pDfltReduce[x.arg] # NoRule
    THEN [x EXCEPT !.type = SHIFTREDUCE, !.arg = pDfltReduce[x.arg]] ELSE x
ShiftReduce ==
    /\ phase = "shiftreduce"
    /\ acts' = [n \in DOMAIN acts |-> [k \in DOMAIN acts[n] |-> Shiftreduced(acts[n][k])]]
    /\ phase' = "units"
    /\ UNCHANGED << g, precsym, lambda, firstset, basis, configs, shifts, work, fws, fplp, bplp, complete, i, progress,
                    nconflict, errorcnt, canReduce, tableVars >>

(* The third pass: if the rule has one symbol, a nonterminal, and no code,
   the action is the one on its left-hand side; it is an assertion that
   there is one. *)
IsUnit(x) ==
    /\ x.type = SHIFTREDUCE
    /\ x.sp >= g.ntokens
    /\ ~g.rules[x.arg].code
    /\ Len(rhs(x.arg)) = 1
Units(n) == { k \in DOMAIN acts[n] : IsUnit(acts[n][k]) }
OnLhs(n, k) == { l \in DOMAIN acts[n] \ {k} : acts[n][l].sp = g.rules[acts[n][k].arg].lhs }
ReplaceUnit ==
    /\ phase = "units"
    /\ \E n \in DOMAIN acts :
          /\ Units(n) # {}
          /\ \A m \in DOMAIN acts : m < n => Units(m) = {}
          /\ LET k == Min(Units(n))
             IN  \/ /\ OnLhs(n, k) # {}
                    /\ LET x == acts[n][Min(OnLhs(n, k))]
                       IN  acts' = [acts EXCEPT ![n][k].type = x.type, ![n][k].arg = x.arg]
                    /\ UNCHANGED phase
                 \/ /\ OnLhs(n, k) = {}
                    /\ phase' = "abort"
                    /\ UNCHANGED acts
    /\ UNCHANGED << g, precsym, lambda, firstset, basis, configs, shifts, work, fws, fplp, bplp, complete, i, progress,
                    nconflict, errorcnt, canReduce, tableVars >>

-----------------------------------------------------------------------------
(* compute_action() gives a number, or -1; the names of the kinds of
   actions for the parser are those of lempar.c. *)
YY_MIN_SHIFTREDUCE == nstate
YY_MAX_SHIFTREDUCE == nstate + nrule - 1
YY_ERROR_ACTION == nstate + nrule
YY_ACCEPT_ACTION == YY_ERROR_ACTION + 1
YY_NO_ACTION == YY_ACCEPT_ACTION + 1
YY_MIN_REDUCE == YY_NO_ACTION + 1

IsLive(x) == x.type \in { SHIFT, SHIFTREDUCE, REDUCE, "ERROR", "ACCEPT" }
statenum(n) == (CHOOSE k \in DOMAIN sorted : sorted[k] = n) - 1

(* The reduction follows the goto; the error symbol is shifted. *)
compute_action(x) ==
    LET isGoto == x.sp >= g.ntokens /\ (g.errsym = 0 \/ x.sp # g.errsym)
    IN  CASE x.type = SHIFT -> statenum(x.arg)
          [] x.type = SHIFTREDUCE /\ isGoto -> YY_MIN_REDUCE + iRule(x.arg)
          [] x.type = SHIFTREDUCE /\ ~isGoto -> YY_MIN_SHIFTREDUCE + iRule(x.arg)
          [] x.type = REDUCE -> YY_MIN_REDUCE + iRule(x.arg)
          [] x.type = "ERROR" -> YY_ERROR_ACTION
          [] x.type = "ACCEPT" -> YY_ACCEPT_ACTION

OfTokens(n) == SelectSeq(acts[n], LAMBDA x : IsLive(x) /\ x.sp < g.ntokens)
OfNonterminals(n) == SelectSeq(acts[n], LAMBDA x : IsLive(x) /\ x.sp \in Variables(g))
nTknAct(n) == Len(OfTokens(n))
nNtAct(n) == Len(OfNonterminals(n))

(* stateResortCompare() *)
ResortLess(n, m) ==
    \/ nNtAct(n) > nNtAct(m)
    \/ nNtAct(n) = nNtAct(m) /\ nTknAct(n) > nTknAct(m)
    \/ nNtAct(n) = nNtAct(m) /\ nTknAct(n) = nTknAct(m) /\ n > m

(* The places, not the first, of the states that nxstate leaves out. *)
Dropped(order) ==
    { k \in 2 .. Len(order) : \A l \in k .. Len(order) : pDfltReduce # << >> /\ pDfltReduce[order[l]] # NoRule }

(* ResortStates(), and the order of the action sets in ReportTable(). *)
ResortStates ==
    /\ \/ phase = "units" /\ \A n \in DOMAIN acts : Units(n) = {}
       \/ phase = "compress" /\ ~g.compress
    /\ sorted' = << 0 >> \o InOrder(DOMAIN acts \ {0}, ResortLess)
    /\ nxstate' = nstate - Cardinality(Dropped(sorted'))
    /\ LET kept == SubSeq(sorted', 1, nxstate')
           nAction(x) == IF x[2] THEN nTknAct(x[1]) ELSE nNtAct(x[1])
           iOrder(x) == 2 * (CHOOSE k \in DOMAIN kept : kept[k] = x[1]) + (IF x[2] THEN 0 ELSE 1)
       IN  todo' = InOrder({ x \in ToSet(kept) \X BOOLEAN : nAction(x) > 0 },
                           LAMBDA x, y : nAction(x) > nAction(y) \/ (nAction(x) = nAction(y) /\ iOrder(x) < iOrder(y)))
    /\ acttab' = acttab_alloc(g.nsyms, g.ntokens)
    /\ phase' = "insert"
    /\ UNCHANGED << g, precsym, lambda, firstset, basis, configs, shifts, work, fws, fplp, bplp, complete, i, progress,
                    acts, nconflict, errorcnt, canReduce, pDfltReduce, iOfst, yy >>

-----------------------------------------------------------------------------
Transaction(x) ==
    LET s == IF x[2] THEN OfTokens(x[1]) ELSE OfNonterminals(x[1])
    IN  [k \in DOMAIN s |-> [lookahead |-> s[k].sp, action |-> compute_action(s[k])]]

InsertNext ==
    /\ phase = "insert"
    /\ todo # << >>
    /\ LET x == Head(todo)
           result == acttab_insert(acttab, Transaction(x), x[2])
       IN  /\ acttab' = result.table
           /\ iOfst' = [y \in DOMAIN iOfst \cup {x} |-> IF y = x THEN result.offset ELSE iOfst[y]]
    /\ todo' = Tail(todo)
    /\ UNCHANGED << phase, g, precsym, lambda, firstset, basis, configs, shifts, work, fws, fplp, bplp, complete, i, progress,
                    acts, nconflict, errorcnt, canReduce, pDfltReduce, sorted, nxstate, yy >>

(* The offsets of the kept states from 0 on, without the last ones that
   have none; NO_OFFSET in between is written as none. *)
Offsets(isTkn, none) ==
    LET with == { k \in 0 .. nxstate - 1 : << sorted[k + 1], isTkn >> \in DOMAIN iOfst }
    IN  [k \in 0 .. Max({-1} \cup with) |-> IF k \in with THEN iOfst[<< sorted[k + 1], isTkn >>] ELSE none]

DefaultAction(n) ==
    LET on == { k \in DOMAIN acts[n] : acts[n][k].sp = g.nsyms /\ IsLive(acts[n][k]) }
    IN  IF on = {} THEN YY_ERROR_ACTION ELSE YY_MIN_REDUCE + iRule(acts[n][Max(on)].arg)

WriteTables ==
    /\ phase = "insert"
    /\ todo = << >>
    /\ LET n == acttab_action_size(acttab)
           mnNtOfst == Min({0} \cup { iOfst[x] : x \in { y \in DOMAIN iOfst : ~y[2] } })
           lookahead(k) == IF k >= acttab.nAction THEN g.ntokens
                           ELSE IF acttab.aAction[k].lookahead < 0 THEN g.nsyms ELSE acttab.aAction[k].lookahead
       IN  yy' = [action |-> [k \in 0 .. n - 1 |-> IF acttab.aAction[k].action < 0 THEN YY_NO_ACTION
                                                   ELSE acttab.aAction[k].action],
                  lookahead |-> [k \in 0 .. Max({acttab.nAction, g.ntokens + n}) - 1 |-> lookahead(k)],
                  shift_ofst |-> Offsets(TRUE, n),
                  reduce_ofst |-> Offsets(FALSE, mnNtOfst - 1),
                  default |-> [k \in 0 .. nxstate - 1 |-> DefaultAction(sorted[k + 1])],
                  fallback |-> g.fallback,
                  rule |-> [k \in DOMAIN g.rules |->
                              LET r == SortedRules[k + 1] IN [lhs |-> g.rules[r].lhs, nrhs |-> Len(rhs(r))]],
                  ntoken |-> g.ntokens, errorsymbol |-> g.errsym, wildcard |-> g.wildcard,
                  min_shiftreduce |-> YY_MIN_SHIFTREDUCE, max_shiftreduce |-> YY_MAX_SHIFTREDUCE,
                  stacksize |-> g.stacksize, norecovery |-> g.norecovery,
                  error |-> YY_ERROR_ACTION, accept |-> YY_ACCEPT_ACTION, min_reduce |-> YY_MIN_REDUCE]
    /\ phase' = "written"
    /\ UNCHANGED << g, precsym, lambda, firstset, basis, configs, shifts, work, fws, fplp, bplp, complete, i, progress,
                    acts, nconflict, errorcnt, canReduce, pDfltReduce, sorted, nxstate, acttab, iOfst, todo >>

TablesNext ==
    \/ CompressTables \/ ShiftReduce \/ ReplaceUnit \/ ResortStates \/ InsertNext \/ WriteTables

=============================================================================
