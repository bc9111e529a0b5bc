-------------------------- MODULE LemonActtabCalls --------------------------
(***************************************************************************)
(* The calls of acttab_insert() that ReportTable() in lemon/lemon.c makes, *)
(* for any transactions: those of terminals with makeItSafe, those of      *)
(* nonterminals without.                                                   *)
(***************************************************************************)
EXTENDS LemonActtab

CONSTANTS nterminal, nsymbol,
          Transactions, \* what may be inserted
          MaxCalls      \* bound on the calls

VARIABLES table, calls  \* the calls so far, [actions, makeItSafe, offset]

Terminals == 0 .. nterminal - 1
Nonterminals == nterminal .. nsymbol - 1

(* What acttab_action() is called with for one state: one action for each
   lookahead, which are all terminals or all nonterminals. *)
IsTransaction(T) ==
    /\ T # << >>
    /\ \A j \in DOMAIN T : T[j].action \in Nat
    /\ \A j, k \in DOMAIN T : T[j].lookahead = T[k].lookahead => j = k
    /\ Lookaheads(T) \subseteq Terminals \/ Lookaheads(T) \subseteq Nonterminals

ASSUME ActtabAssumption ==
    /\ nterminal \in Nat \ {0} /\ nsymbol \in Nat /\ nterminal < nsymbol
    /\ \A T \in Transactions : T \in Seq([lookahead : Nat, action : Nat]) /\ IsTransaction(T)

ActtabInit ==
    /\ table = acttab_alloc(nsymbol, nterminal)
    /\ calls = {}

Insert(T) ==
    LET makeItSafe == Lookaheads(T) \subseteq Terminals
        result == acttab_insert(table, T, makeItSafe)
    IN  /\ table' = result.table
        /\ calls' = calls \cup { [actions |-> T, makeItSafe |-> makeItSafe, offset |-> result.offset] }

ActtabNext == Cardinality(calls) < MaxCalls /\ \E T \in Transactions : Insert(T)

ActtabSpec == ActtabInit /\ [][ActtabNext]_<< table, calls >>

-----------------------------------------------------------------------------
(* The test of the parser: the entry at offset + x has lookahead x.  That
   nAction may lie behind the array makes no entry there. *)
Found(call, x) ==
    LET k == call.offset + x
    IN  k \in DOMAIN table.aAction /\ k < table.nAction /\ table.aAction[k].lookahead = x

Symbols(call) == IF call.makeItSafe THEN Terminals ELSE Nonterminals

(***************************************************************************)
(* At the offset of a transaction the parser finds its actions, whatever   *)
(* was inserted before or after.  If they are those of terminals it finds  *)
(* nothing else: an entry of another state is never taken for one of it.   *)
(***************************************************************************)
OwnFound(call) ==
    \A j \in DOMAIN call.actions :
        LET x == call.actions[j].lookahead
        IN  Found(call, x) /\ table.aAction[call.offset + x] = call.actions[j]
OthersNotFound(call) == \A x \in Symbols(call) \ Lookaheads(call.actions) : ~Found(call, x)

LookupExact == \A call \in calls : OwnFound(call) /\ (call.makeItSafe => OthersNotFound(call))

(***************************************************************************)
(* "If the makeItSafe parameter is true, then the offset is chosen so that *)
(* it is impossible to overread the yy_lookaside[] table regardless of the *)
(* lookaside token": also for the tokens that the state has no action on.  *)
(***************************************************************************)
OffsetsAreSafe ==
    \A call \in { d \in calls : d.makeItSafe } :
        \A x \in Terminals : call.offset + x \in 0 .. table.nAction - 1

(***************************************************************************)
(* The same for nonterminals, on which error recovery relies when it asks  *)
(* a state for its action on the error symbol.  "If no holes are found, i  *)
(* is left at p->nAction, which means the transaction will be appended"    *)
(* (lemon.c:791), where no entry could be taken for one of it.             *)
(***************************************************************************)
GotosExact == \A call \in calls : OthersNotFound(call)
=============================================================================
