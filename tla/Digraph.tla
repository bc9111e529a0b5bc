------------------------------- MODULE Digraph -------------------------------
(***************************************************************************)
(* byacc/lalr.c, digraph() and traverse(): the depth-first walk that      *)
(* computes, for a relation R on the gotos of the automaton and initial   *)
(* token sets F, the sets                                                  *)
(*                                                                         *)
(*      F[i]  :=  the union of the initial F[j] for all j with  i R* j     *)
(*                                                                         *)
(* byacc runs it twice for every grammar: on the reads relation (from the *)
(* end of initialize_F) and on the includes relation (compute_FOLLOWS).   *)
(*                                                                         *)
(* The recursion of traverse() is made explicit: stack[1..depth] are its  *)
(* live activations.  No goto is entered twice, so the locals height and  *)
(* rp of the activation for goto v are kept in height[v] and rp[v].        *)
(***************************************************************************)
EXTENDS Integers, Sequences

CONSTANTS
    Tokens,     \* the columns of the bit matrix F
    MAXYYINT,   \* the largest value of a Value_t (defs.h)
    Inputs      \* the calls: records [ngotos, R, F]

(***************************************************************************)
(* set_goto_map() only refuses more than MAXYYINT gotos, while digraph()   *)
(* also stores ngotos + 2 in a Value_t: the last two counts are assumed    *)
(* away here.                                                              *)
(***************************************************************************)
CallOK(in) ==
    /\ in.ngotos \in Nat
    /\ in.ngotos + 2 <= MAXYYINT
    /\ in.R \in [0 .. in.ngotos - 1 -> Seq(0 .. in.ngotos - 1)]
    /\ in.F \in [0 .. in.ngotos - 1 -> SUBSET Tokens]

ASSUME InputsAssumption == MAXYYINT \in Nat /\ \A in \in Inputs : CallOK(in)

VARIABLES
    ngotos,     \* S->fs3_ngotos
    R,          \* S->fs3_R: R[i] lists the gotos i points to (NULL is << >>)
    F0,         \* history: F when digraph() was called
    F,          \* S->fs3_F
    INDEX,      \* S->fs3_INDEX
    VERTICES,   \* S->fs3_VERTICES[1..top]
    top,        \* S->fs3_top
    i,          \* the loop variable of digraph()
    depth,      \* the number of live activations of traverse()
    stack,      \* their arguments, innermost last
    height,     \* local height of the activation for each goto
    rp          \* local rp of the activation, as a position in R[v]

vars == << ngotos, R, F0, F, INDEX, VERTICES, top, i, depth, stack, height, rp >>
input == << ngotos, R, F0 >>

Gotos == 0 .. ngotos - 1
infinity == ngotos + 2

New(v) == INDEX[v] = 0
Final(v) == INDEX[v] = infinity

-----------------------------------------------------------------------------
(* The entry of digraph(), up to the second loop. *)
Start(in) ==
    /\ ngotos = in.ngotos
    /\ R = in.R
    /\ F0 = in.F
    /\ F = in.F
    /\ INDEX = [v \in 0 .. in.ngotos - 1 |-> 0]
    /\ VERTICES = [k \in 0 .. in.ngotos |-> 0]
    /\ top = 0
    /\ i = 0
    /\ depth = 0
    /\ stack = [k \in 0 .. in.ngotos |-> 0]
    /\ height = [v \in 0 .. in.ngotos - 1 |-> 0]
    /\ rp = [v \in 0 .. in.ngotos - 1 |-> 0]

Init == \E in \in Inputs : Start(in)

cur == stack[depth]                 \* the goto being traversed
target == R[cur][rp[cur]]           \* the j the activation has read

(* A call traverse(v), up to the head of its while loop. *)
Enter(v) ==
    /\ top' = top + 1
    /\ VERTICES' = [VERTICES EXCEPT ![top + 1] = v]
    /\ INDEX' = [INDEX EXCEPT ![v] = top + 1]
    /\ height' = [height EXCEPT ![v] = top + 1]
    /\ rp' = [rp EXCEPT ![v] = 1]
    /\ depth' = depth + 1
    /\ stack' = [stack EXCEPT ![depth + 1] = v]
    /\ UNCHANGED << F, i >>

(* digraph() calls traverse() for an unvisited goto that has an edge ... *)
Root ==
    /\ depth = 0
    /\ i < ngotos
    /\ New(i)
    /\ R[i] # << >>
    /\ Enter(i)
    /\ UNCHANGED input

(* ... and goes on to the next goto otherwise. *)
Skip ==
    /\ depth = 0
    /\ i < ngotos
    /\ ~New(i) \/ R[i] = << >>
    /\ i' = i + 1
    /\ UNCHANGED << input, F, INDEX, VERTICES, top, depth, stack, height, rp >>

(* The next edge leads to an unvisited goto: traverse() calls itself. *)
Descend ==
    /\ depth > 0
    /\ rp[cur] <= Len(R[cur])
    /\ New(target)
    /\ Enter(target)
    /\ UNCHANGED input

(* Mutants of Merge: INDEX[i] is not lowered; rp stays at the same edge. *)
Merge_NotLowered ==
    /\ depth > 0
    /\ rp[cur] <= Len(R[cur])
    /\ ~New(target)
    /\ F' = [F EXCEPT ![cur] = @ \cup F[target]]
    /\ rp' = [rp EXCEPT ![cur] = @ + 1]
    /\ UNCHANGED << input, INDEX, VERTICES, top, i, depth, stack, height >>

Merge_SameEdge ==
    /\ depth > 0
    /\ rp[cur] <= Len(R[cur])
    /\ ~New(target)
    /\ INDEX' = [INDEX EXCEPT ![cur] =
                   IF INDEX[cur] > INDEX[target] THEN INDEX[target] ELSE @]
    /\ F' = [F EXCEPT ![cur] = @ \cup F[target]]
    /\ UNCHANGED << input, VERTICES, top, i, depth, stack, height, rp >>

(* The rest of the loop body: lower INDEX[i] and take over F[j]. *)
Merge ==
    /\ depth > 0
    /\ rp[cur] <= Len(R[cur])
    /\ ~New(target)
    /\ INDEX' = [INDEX EXCEPT ![cur] =
                   IF INDEX[cur] > INDEX[target] THEN INDEX[target] ELSE @]
    /\ F' = [F EXCEPT ![cur] = @ \cup F[target]]
    /\ rp' = [rp EXCEPT ![cur] = @ + 1]
    /\ UNCHANGED << input, VERTICES, top, i, depth, stack, height >>

(* The loop is over and i is not the root of its component: return. *)
Return ==
    /\ depth > 0
    /\ rp[cur] > Len(R[cur])
    /\ INDEX[cur] # height[cur]
    /\ depth' = depth - 1
    /\ UNCHANGED << input, F, INDEX, VERTICES, top, i, stack, height, rp >>

(* Mutant of Component: one goto too many is popped. *)
Component_OneMore == { VERTICES[k] : k \in height[cur] - 1 .. top }

(* i is the root: pop its component, give every member F[i], and return. *)
Component == { VERTICES[k] : k \in height[cur] .. top }

Close ==
    /\ depth > 0
    /\ rp[cur] > Len(R[cur])
    /\ INDEX[cur] = height[cur]
    /\ top' = height[cur] - 1
    /\ INDEX' = [v \in Gotos |-> IF v \in Component THEN infinity ELSE INDEX[v]]
    /\ F' = [v \in Gotos |-> IF v \in Component THEN F[cur] ELSE F[v]]
    /\ depth' = depth - 1
    /\ UNCHANGED << input, VERTICES, i, stack, height, rp >>

Next == Root \/ Skip \/ Descend \/ Merge \/ Return \/ Close

(* One thread of control and no waiting: the program runs on by itself. *)
Spec == Init /\ [][Next]_vars /\ WF_vars(Next)

Terminated == depth = 0 /\ i = ngotos

-----------------------------------------------------------------------------
InputOK ==
    /\ ngotos \in Nat
    /\ ngotos + 2 <= MAXYYINT
    /\ R \in [Gotos -> Seq(Gotos)]
    /\ F0 \in [Gotos -> SUBSET Tokens]

TypeOK ==
    /\ InputOK
    /\ F \in [Gotos -> SUBSET Tokens]
    /\ INDEX \in [Gotos -> 0 .. infinity]
    /\ VERTICES \in [0 .. ngotos -> 0 .. ngotos]
    /\ top \in 0 .. ngotos
    /\ i \in 0 .. ngotos
    /\ depth \in 0 .. top
    /\ stack \in [0 .. ngotos -> 0 .. ngotos]
    /\ height \in [Gotos -> 0 .. ngotos]
    /\ rp \in [Gotos -> Nat]

(* G holds the initial sets and is closed under the relation. *)
Solution(G) ==
    \A v \in Gotos :
        /\ F0[v] \subseteq G[v]
        /\ \A k \in 1 .. Len(R[v]) : G[R[v][k]] \subseteq G[v]

(***************************************************************************)
(* Soundness: traverse() never puts a token into a set that does not       *)
(* belong there, although it copies F[i] wholesale to every goto it pops:  *)
(* F stays below every solution of the equations.  An extra token would be *)
(* a spurious lookahead, and so a spurious conflict.                       *)
(***************************************************************************)
Sound ==
    \A G \in [Gotos -> SUBSET Tokens] :
        Solution(G) => \A v \in Gotos : F[v] \subseteq G[v]

(***************************************************************************)
(* Completeness: when digraph() returns, F solves the equations, for every *)
(* goto, those popped with a cycle and those never entered included.  A    *)
(* missing token would be a missed conflict.                               *)
(***************************************************************************)
Complete == Terminated => Solution(F)

(***************************************************************************)
(* A popped goto is final: its set never changes again, so a set merged    *)
(* from it into a later goto was the whole set.                            *)
(***************************************************************************)
FinalNeverChanges ==
    [][\A v \in Gotos : Final(v) => F'[v] = F[v] /\ INDEX'[v] = INDEX[v]]_vars

(* digraph() returns, whatever cycles the relation has. *)
Terminates == <>Terminated
=============================================================================
