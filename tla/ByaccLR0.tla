------------------------------ MODULE ByaccLR0 ------------------------------
(***************************************************************************)
(* byacc/lr0.c, closure.c and warshall.c: the LR(0) automaton.             *)
(*                                                                         *)
(* lr0() finds the nullable variables and then works through the list of   *)
(* states: the state at the head is expanded (closure, reductions, item    *)
(* sets by next symbol) and get_state() is called for each of the symbols  *)
(* in increasing order, which appends the states not yet known.            *)
(*                                                                         *)
(* The grammar g is what pack_grammar() leaves: rule 2 is                  *)
(* $accept : goal $end and symbol ntokens is $accept.  An item, a position *)
(* in ritem in the code, is << rule, symbols passed >>; positions are in   *)
(* the order of these pairs.                                               *)
(***************************************************************************)
EXTENDS GrammarTheory, FiniteSets, FiniteSetsExt, SequencesExt

CONSTANTS Grammars, MAXYYINT

(* What a rule of the file can be made of: all symbols but $end and
   $accept, the names get_name() refuses. *)
Usable(gr) == (1 .. gr.nsyms - 1) \ {gr.ntokens}
UserRule(gr) == [lhs : Vars(gr) \ {gr.ntokens}, rhs : Seq(Usable(gr))]

(* A grammar as pack_symbols() and pack_grammar() leave it. *)
GrammarOK(gr) ==
    /\ gr.ntokens \in Nat /\ gr.ntokens > 1
    /\ gr.nsyms \in Nat /\ gr.nsyms > gr.ntokens + 1
    /\ IsFiniteSet(DOMAIN gr.rules) /\ DOMAIN gr.rules = 2 .. Cardinality(DOMAIN gr.rules) + 1
    /\ gr.top = 2 /\ 2 \in DOMAIN gr.rules
    /\ gr.rules[2] = [lhs |-> gr.ntokens, rhs |-> << gr.ntokens + 1, 0 >>]
    /\ \A r \in DOMAIN gr.rules \ {2} : gr.rules[r] \in UserRule(gr)
    /\ DOMAIN gr.value = 0 .. gr.ntokens - 1 /\ gr.value[0] = 0
    /\ \A x \in DOMAIN gr.value : gr.value[x] \in Nat
    /\ DOMAIN gr.prec = 0 .. gr.nsyms - 1 /\ \A x \in DOMAIN gr.prec : gr.prec[x] \in Nat
    /\ DOMAIN gr.rprec = DOMAIN gr.rules /\ \A r \in DOMAIN gr.rprec : gr.rprec[r] \in Nat
    /\ gr.backtrack \in BOOLEAN /\ gr.lemon_prec_flag \in BOOLEAN

ASSUME GrammarsAssumption == MAXYYINT \in Nat /\ \A gr \in Grammars : GrammarOK(gr)

VARIABLES
    g,          \* the grammar (rlhs, rrhs, ritem, derives, ...)
    phase,      \* which part of main() is running
    nullable,   \* S->nullable, as a set
    firstDerives,  \* S->first_derives
    states,     \* core list: number |-> [accessing_symbol, items]
    shift,      \* shift_table: number |-> states shifted to, by symbol
    reds,       \* reduction_table: number |-> rules
    this,       \* number of S->fs4_this_state
    pending     \* shift_symbol[] of this state not yet looked up

lr0Vars == << g, phase, nullable, firstDerives, states, shift, reds, this, pending >>

start_symbol == g.ntokens
nstates == Cardinality(DOMAIN states)
Extend(f, x) == [n \in DOMAIN f \cup { Cardinality(DOMAIN f) } |->
                    IF n \in DOMAIN f THEN f[n] ELSE x]

-----------------------------------------------------------------------------
(* set_nullable(): passes over the rules until one adds nothing. *)
NullablePass(gr, N) ==
    LET rs == InOrder(DOMAIN gr.rules, <)
        upto[e \in 0 .. Cardinality(DOMAIN gr.rules)] ==
            IF e = 0 THEN N
            ELSE LET r == rs[e] IN
                 upto[e - 1] \cup
                     (IF \A k \in 1 .. Len(Rhs(gr, r)) : Rhs(gr, r)[k] \in upto[e - 1]
                      THEN { gr.rules[r].lhs } ELSE {})
    IN  upto[Cardinality(DOMAIN gr.rules)]

SetNullable(gr) ==
    LET pass[N \in SUBSET Vars(gr)] ==
            IF NullablePass(gr, N) = N THEN N ELSE pass[NullablePass(gr, N)]
    IN  pass[{}]

(* set_EFF(): the variables a variable's rules begin with. *)
EFF(gr) ==
    [A \in Vars(gr) |-> { B \in Vars(gr) : \E r \in RulesOf(gr, A) :
                            Rhs(gr, r) # << >> /\ Head(Rhs(gr, r)) = B }]

(* reflexive_transitive_closure(): Warshall's loop, then the diagonal. *)
Through(W, x, V) == [y \in V |-> IF x \in W[y] THEN W[y] \cup W[x] ELSE W[y]]

TransitiveClosure(M, V) ==
    LET xs == InOrder(V, <)
        upto[k \in 0 .. Cardinality(V)] ==
            IF k = 0 THEN M ELSE LET W == upto[k - 1] IN Through(W, xs[k], V)
    IN  upto[Cardinality(V)]

ReflexiveTransitiveClosure(M, V) ==
    LET T == TransitiveClosure(M, V) IN [y \in V |-> T[y] \cup { y }]

(* set_first_derives(): the rules whose lhs can come first in a variable. *)
FirstDerives(gr) ==
    LET eff == ReflexiveTransitiveClosure(EFF(gr), Vars(gr))
    IN  [A \in Vars(gr) |-> UNION { RulesOf(gr, B) : B \in eff[A] }]

NextSymbol(it) == IF it[2] < Len(Rhs(g, it[1])) THEN Rhs(g, it[1])[it[2] + 1] ELSE -it[1]

(* closure(): the nucleus and the first item of every rule it can begin. *)
closure(nucleus) ==
    LET ruleset == UNION { firstDerives[NextSymbol(it)] :
                             it \in { x \in nucleus : NextSymbol(x) >= start_symbol } }
    IN  nucleus \cup { << r, 0 >> : r \in ruleset }

(* save_reductions(): the completed rules of an item set, in item order. *)
reductions(itemset) ==
    InOrder({ it[1] : it \in { x \in itemset : NextSymbol(x) < 0 } }, <)

(* new_itemsets() and the sort in append_states(): symbol 0 is left out. *)
ShiftSymbols(itemset) ==
    InOrder({ NextSymbol(it) : it \in { x \in itemset : NextSymbol(x) > 0 } }, <)
Kernel(itemset, x) ==
    { << it[1], it[2] + 1 >> : it \in { y \in itemset : NextSymbol(y) = x } }

-----------------------------------------------------------------------------
LR0Init ==
    /\ g \in Grammars
    /\ phase = "lr0"
    /\ nullable = {}
    /\ firstDerives = << >>
    /\ states = << >>
    /\ shift = << >>
    /\ reds = << >>
    /\ this = 0
    /\ pending = << >>

(* The start of lr0() and generate_states(), up to the work loop. *)
InitializeStates ==
    /\ phase = "lr0"
    /\ phase' = "expand"
    /\ nullable' = SetNullable(g)
    /\ firstDerives' = FirstDerives(g)
    /\ states' = [n \in {0} |-> [accessing_symbol |-> 0,
                                 items |-> { << r, 0 >> : r \in RulesOf(g, start_symbol) }]]
    /\ shift' = [n \in {} |-> << >>]
    /\ reds' = [n \in {} |-> << >>]
    /\ UNCHANGED << g, this, pending >>

(* closure, save_reductions, new_itemsets and the sort for this_state. *)
Expand ==
    /\ phase = "expand"
    /\ this < nstates
    /\ LET itemset == closure(states[this].items)
       IN  /\ reds' = Extend(reds, reductions(itemset))
           /\ pending' = ShiftSymbols(itemset)
    /\ shift' = Extend(shift, << >>)
    /\ phase' = "shift"
    /\ UNCHANGED << g, nullable, firstDerives, states, this >>

(* get_state() for the next symbol: an old state or a new one. *)
SameKernel(n, kernel) == states[n].items = kernel

OldState ==
    /\ phase = "shift"
    /\ pending # << >>
    /\ LET kernel == Kernel(closure(states[this].items), Head(pending))
       IN  \E n \in 0 .. nstates - 1 :
              /\ SameKernel(n, kernel)
              /\ shift' = [shift EXCEPT ![this] = Append(@, n)]
    /\ pending' = Tail(pending)
    /\ UNCHANGED << g, phase, nullable, firstDerives, states, reds, this >>

NewState ==
    /\ phase = "shift"
    /\ pending # << >>
    /\ nstates < MAXYYINT
    /\ LET kernel == Kernel(closure(states[this].items), Head(pending))
       IN  /\ \A n \in 0 .. nstates - 1 : ~SameKernel(n, kernel)
           /\ states' = Extend(states, [accessing_symbol |-> Head(pending), items |-> kernel])
    /\ shift' = [shift EXCEPT ![this] = Append(@, nstates)]
    /\ pending' = Tail(pending)
    /\ UNCHANGED << g, phase, nullable, firstDerives, reds, this >>

(* fatal("too many states") *)
TooManyStates ==
    /\ phase = "shift"
    /\ pending # << >>
    /\ nstates >= MAXYYINT
    /\ LET kernel == Kernel(closure(states[this].items), Head(pending))
       IN  \A n \in 0 .. nstates - 1 : ~SameKernel(n, kernel)
    /\ phase' = "fatal"
    /\ UNCHANGED << g, nullable, firstDerives, states, shift, reds, this, pending >>

(* save_shifts() and on to the next state of the list. *)
NextStateOfList ==
    /\ phase = "shift"
    /\ pending = << >>
    /\ this' = this + 1
    /\ phase' = "expand"
    /\ UNCHANGED << g, nullable, firstDerives, states, shift, reds, pending >>

LR0Done == phase = "expand" /\ this = nstates

LR0Next == InitializeStates \/ Expand \/ OldState \/ NewState \/ TooManyStates \/ NextStateOfList
=============================================================================
