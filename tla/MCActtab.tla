------------------------------ MODULE MCActtab ------------------------------
EXTENDS LemonActtabCalls

(* One action for each symbol of a set; the shifts of terminals go to two
   states, all others to one. *)
InOrderOf(S) == [j \in 1 .. Cardinality(S) |-> CHOOSE x \in S : Cardinality({ y \in S : y < x }) = j - 1]
Actions(S, n) == [j \in 1 .. Cardinality(S) |-> [lookahead |-> InOrderOf(S)[j], action |-> n]]
MCTransactions == { Actions(S, n) : S \in SUBSET Terminals \ {{}}, n \in {1, 2} }
                  \cup { Actions(S, 1) : S \in SUBSET Nonterminals \ {{}} }

(* 17 nonterminals 3 .. 19: gotos on the last 15 of them, and on one alone
   in five states.  Those on one fill the table up to where it would grow,
   and each forbids the last of them, 19, one of the places that are left. *)
ManyGotos == { Actions(5 .. 19, 1) } \cup { Actions({x}, x) : x \in { 12, 14, 16, 18, 19 } }
=============================================================================
