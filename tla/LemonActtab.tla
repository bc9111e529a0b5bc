----------------------------- MODULE LemonActtab -----------------------------
(***************************************************************************)
(* lemon/lemon.c, "acttable.c": the action table that holds the actions of *)
(* all states, laid over each other.  acttab_insert() puts a transaction,  *)
(* the actions of one state, where its entries are free and returns the    *)
(* offset at which the parser finds action x in entry  offset + x.  An     *)
(* entry tells by its lookahead that it is the one looked for, but not     *)
(* whose it is: a lookup is right because an offset is used only once, or  *)
(* for equal transactions.                                                 *)
(*                                                                         *)
(* A table p is [nterminal, nsymbol, aAction, nAction]; aAction is an      *)
(* array of nActionAlloc entries [lookahead, action] from 0 on.  A         *)
(* transaction is the sequence of the calls of acttab_action().            *)
(***************************************************************************)
EXTENDS Integers, Sequences, FiniteSets

Empty == [lookahead |-> -1, action |-> -1]

acttab_alloc(nsymbol, nterminal) ==
    [nsymbol |-> nsymbol, nterminal |-> nterminal, aAction |-> << >>, nAction |-> 0]

nActionAlloc(p) == Cardinality(DOMAIN p.aAction)

Lookaheads(T) == { T[j].lookahead : j \in DOMAIN T }
mnLookahead(T) == CHOOSE m \in Lookaheads(T) : \A x \in Lookaheads(T) : m <= x
mxLookahead(T) == CHOOSE m \in Lookaheads(T) : \A x \in Lookaheads(T) : x <= m

(* The index of the j-th entry if the least lookahead is put at i. *)
Place(T, j, i) == T[j].lookahead - mnLookahead(T) + i

(* The array is enlarged for the case that nothing fits before nAction. *)
Grown(p) ==
    LET n == p.nsymbol + 1
    IN  IF p.nAction + n < nActionAlloc(p) THEN p
        ELSE [p EXCEPT !.aAction = [k \in 0 .. p.nAction + n + nActionAlloc(p) + 20 - 1 |->
                                       IF k \in DOMAIN p.aAction THEN p.aAction[k] ELSE Empty]]

(* Mutant of IsDuplicate: what else the offset leads to is not counted. *)
IsDuplicate_Subset(p, T, i) ==
    /\ p.aAction[i].lookahead = mnLookahead(T)
    /\ \A j \in DOMAIN T : Place(T, j, i) \in 0 .. p.nAction - 1 /\ p.aAction[Place(T, j, i)] = T[j]

(* The transaction is in the table already, the least lookahead at i, and
   no other entry would be taken for one of it. *)
IsDuplicate(p, T, i) ==
    /\ p.aAction[i].lookahead = mnLookahead(T)
    /\ \A j \in DOMAIN T : Place(T, j, i) \in 0 .. p.nAction - 1 /\ p.aAction[Place(T, j, i)] = T[j]
    /\ Cardinality({ j \in 0 .. p.nAction - 1 : /\ p.aAction[j].lookahead >= 0
                                                /\ p.aAction[j].lookahead = j + mnLookahead(T) - i }) = Len(T)

(* Mutant of Fits: the offset may be that of another transaction. *)
Fits_SharedOffset(p, T, i) ==
    /\ p.aAction[i].lookahead < 0
    /\ \A j \in DOMAIN T : Place(T, j, i) >= 0 /\ p.aAction[Place(T, j, i)].lookahead < 0

(* The entries are free, and none in use would be taken for one of T. *)
Fits(p, T, i) ==
    /\ p.aAction[i].lookahead < 0
    /\ \A j \in DOMAIN T : Place(T, j, i) >= 0 /\ p.aAction[Place(T, j, i)].lookahead < 0
    /\ \A j \in 0 .. p.nAction - 1 : p.aAction[j].lookahead # j + mnLookahead(T) - i

(* end: with makeItSafe the offset is not negative. *)
FirstPlace(T, makeItSafe) == IF makeItSafe THEN mnLookahead(T) ELSE 0

(* The index for the least lookahead: the last duplicate, or the first hole.
   If there is neither, where the loop ends: nothing is asked of this place. *)
PlaceFor(p, T, makeItSafe) ==
    LET end == FirstPlace(T, makeItSafe)
        bound == nActionAlloc(p) - mxLookahead(T)
        duplicates == { i \in end .. p.nAction - 1 : IsDuplicate(p, T, i) }
        holes == { i \in end .. bound - 1 : Fits(p, T, i) }
    IN  IF duplicates # {} THEN CHOOSE i \in duplicates : \A k \in duplicates : k <= i
        ELSE IF holes # {} THEN CHOOSE i \in holes : \A k \in holes : i <= k
        ELSE IF end <= bound THEN bound ELSE end

(* Mutant of Size: the table is not padded for the largest terminal. *)
Size_NotPadded(p, T, i, makeItSafe) ==
    LET used == { p.nAction } \cup { Place(T, j, i) + 1 : j \in DOMAIN T }
    IN  CHOOSE n \in used : \A k \in used : k <= n

(* nAction afterwards: with makeItSafe the offset plus any terminal is in
   the table. *)
Size(p, T, i, makeItSafe) ==
    LET used == { p.nAction } \cup { Place(T, j, i) + 1 : j \in DOMAIN T }
                \cup (IF makeItSafe THEN { i + p.nterminal + 1 } ELSE {})
    IN  CHOOSE n \in used : \A k \in used : k <= n

(* The entries of T are written in their order. *)
Written(table, T, i) ==
    [k \in DOMAIN table |->
        LET here == { j \in DOMAIN T : Place(T, j, i) = k }
        IN  IF here = {} THEN table[k] ELSE T[CHOOSE j \in here : \A l \in here : l <= j]]

(* The new table and the offset. *)
acttab_insert(p, T, makeItSafe) ==
    LET q == Grown(p)
        i == PlaceFor(q, T, makeItSafe)
    IN  [table |-> [q EXCEPT !.aAction = Written(q.aAction, T, i), !.nAction = Size(q, T, i, makeItSafe)],
         offset |-> i - mnLookahead(T)]

(* The size without the entries behind the last one in use.  With nAction
   behind the end of the array the code reads on there. *)
acttab_action_size(p) ==
    CHOOSE n \in 0 .. p.nAction :
        /\ n > 0 => p.aAction[n - 1].lookahead >= 0
        /\ \A k \in n .. p.nAction - 1 : p.aAction[k].lookahead < 0
=============================================================================
