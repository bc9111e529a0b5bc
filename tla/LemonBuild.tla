----------------------------- MODULE LemonBuild -----------------------------
(***************************************************************************)
(* lemon/lemon.c, from FindRulePrecedences() to FindActions(): the LR(0)   *)
(* states with their propagation links, the follow sets, and the action    *)
(* lists with their conflicts resolved.  main() runs them in this order.   *)
(*                                                                         *)
(* A grammar g is what the reader and the numbering in main() leave:       *)
(*    ntokens, nsyms  lem.nterminal and lem.nsymbol; $ is 0                *)
(*    rules     0, 1, ... in the order of the file: [lhs, rhs, code], where *)
(*              rhs is a sequence of non-empty sequences; those of more    *)
(*              than one symbol are MULTITERMINALs                         *)
(*    start     the start symbol                                           *)
(*    errsym, wildcard  their symbols, or 0                                *)
(*    mark      rule |-> the terminal of its [MARK], or 0                  *)
(*    prec, assoc, fallback   terminal |-> precedence (-1 for none), ...   *)
(*    yaccPrec, ignorePrec, compress   the options -z and -u, and not -c   *)
(*    stacksize, norecovery  of the parser: %stack_size, YYNOERRORRECOVERY *)
(* A configuration is << state, rule, dot >>.                              *)
(***************************************************************************)
EXTENDS GrammarTheory, FiniteSetsExt, SequencesExt

VARIABLES
    g, phase,
    precsym,        \* rule |-> rp->precsym, 0 for none
    lambda, firstset,
    basis, configs, \* state |-> its configurations << rule, dot >>
    shifts,         \* state |-> the SHIFT actions in the order they were added
    work,           \* the calls of buildshifts(): [n, groups]
    fws, fplp, bplp, \* of every configuration; the links as sets of pairs
    complete,       \* the configurations with status COMPLETE
    i, progress,    \* of the loops over the states
    acts,           \* state |-> stp->ap, sorted
    nconflict, errorcnt, canReduce

buildVars == << g, phase, precsym, lambda, firstset, basis, configs, shifts, work, fws, fplp, bplp,
                complete, i, progress, acts, nconflict, errorcnt, canReduce >>

SHIFT == "SHIFT"
REDUCE == "REDUCE"
Variables(gr) == gr.ntokens .. gr.nsyms - 1
nrule == Cardinality(DOMAIN g.rules)
nstate == Cardinality(DOMAIN configs)
rhs(r) == g.rules[r].rhs
IsVar(s) == Len(s) = 1 /\ s[1] >= g.ntokens

(* rp->iRule: the rules with code come first, and lem.rule is sorted so. *)
iRule(r) ==
    LET code == { q \in DOMAIN g.rules : g.rules[q].code }
    IN  IF r \in code THEN Cardinality({ q \in code : q < r })
        ELSE Cardinality(code) + Cardinality({ q \in DOMAIN g.rules \ code : q < r })
SortedRules == InOrder(DOMAIN g.rules, LAMBDA q, r : iRule(q) < iRule(r))

-----------------------------------------------------------------------------
(* FindRulePrecedences(): the first terminal with a precedence, or with
   %yacc_prec the last terminal if it has one. *)
RulePrecedence(r) ==
    LET terminals == SelectSeq(FlattenSeq(rhs(r)), LAMBDA x : x < g.ntokens)
        withPrec == SelectSeq(terminals, LAMBDA x : g.prec[x] >= 0)
    IN  IF g.mark[r] # 0 \/ g.ignorePrec THEN g.mark[r]
        ELSE IF g.yaccPrec
             THEN IF terminals # << >> /\ g.prec[Last(terminals)] >= 0 THEN Last(terminals) ELSE 0
        ELSE IF withPrec # << >> THEN Head(withPrec) ELSE 0

FindRulePrecedences ==
    /\ phase = "precedences"
    /\ precsym' = [r \in DOMAIN g.rules |-> RulePrecedence(r)]
    /\ phase' = "first"
    /\ UNCHANGED << g, lambda, firstset, basis, configs, shifts, work, fws, fplp, bplp,
                    complete, i, progress, acts, nconflict, errorcnt, canReduce >>

(* FindFirstSets(): passes over the rules until one adds nothing. *)
LambdaPass(N) ==
    FoldLeft(LAMBDA S, r : IF \A k \in DOMAIN rhs(r) : IsVar(rhs(r)[k]) /\ rhs(r)[k][1] \in S
                           THEN S \cup { g.rules[r].lhs } ELSE S, N, SortedRules)
Lambdas ==
    LET pass[N \in SUBSET Variables(g)] == IF LambdaPass(N) = N THEN N ELSE pass[LambdaPass(N)]
    IN  pass[{}]

(* The scan of s from position from on reaches position k. *)
Passed(s, from, k, N) == \A j \in from .. k - 1 : IsVar(s[j]) /\ s[j][1] \in N

FirstOfRest(s, from, N, F) ==
    UNION { IF IsVar(s[k]) THEN F[s[k][1]] ELSE ToSet(s[k]) :
              k \in { j \in from .. Len(s) : Passed(s, from, j, N) } }

FirstPass(N, F) ==
    FoldLeft(LAMBDA G, r : [G EXCEPT ![g.rules[r].lhs] = @ \cup FirstOfRest(rhs(r), 1, N, G)], F, SortedRules)
FirstSets(N) ==
    LET pass[F \in [Variables(g) -> SUBSET (0 .. g.ntokens - 1)]] ==
            IF FirstPass(N, F) = F THEN F ELSE pass[FirstPass(N, F)]
    IN  pass[[A \in Variables(g) |-> {}]]

FindFirstSets ==
    /\ phase = "first"
    /\ lambda' = Lambdas
    /\ firstset' = FirstSets(lambda')
    /\ phase' = "start"
    /\ UNCHANGED << g, precsym, basis, configs, shifts, work, fws, fplp, bplp,
                    complete, i, progress, acts, nconflict, errorcnt, canReduce >>

-----------------------------------------------------------------------------
ConfigLess(c, d) == c[1] < d[1] \/ (c[1] = d[1] /\ c[2] < d[2])
AfterDot(c) == rhs(c[1])[c[2] + 1]
CanShift(c) == c[2] < Len(rhs(c[1]))
Predicts(c) == { << r, 0 >> : r \in { q \in DOMAIN g.rules : CanShift(c) /\ AfterDot(c) = << g.rules[q].lhs >> } }

(* Configlist_closure(): the configurations, what each of them adds to the
   follow sets of the ones it predicts, and the links if its rest is empty. *)
Closure(B) ==
    LET grow[S \in SUBSET ((DOMAIN g.rules) \X Nat)] ==
            LET T == S \cup UNION { Predicts(c) : c \in S } IN IF T = S THEN S ELSE grow[T]
    IN  grow[B]
Predictors(C, d) == { c \in C : d \in Predicts(c) }
FollowInClosure(C, d) == UNION { FirstOfRest(rhs(c[1]), c[2] + 2, lambda, firstset) : c \in Predictors(C, d) }
RestIsEmpty(c) == Passed(rhs(c[1]), c[2] + 2, Len(rhs(c[1])) + 1, lambda)
ClosureLinks(n, C) ==
    { << << n, p[1][1], p[1][2] >>, << n, p[2][1], p[2][2] >> >> :
        p \in { q \in C \X C : q[2] \in Predicts(q[1]) /\ RestIsEmpty(q[1]) } }

(* The symbols buildshifts() meets, in the order of the configurations. *)
Groups(C) ==
    FoldLeft(LAMBDA s, c : IF ~CanShift(c) \/ AfterDot(c) \in ToSet(s) THEN s ELSE Append(s, AfterDot(c)),
             << >>, InOrder(C, ConfigLess))

(* "Nonterminal has no rules" *)
Ruleless(C) == { c \in C : CanShift(c) /\ IsVar(AfterDot(c)) /\ AfterDot(c)[1] # g.errsym /\ Predicts(c) = {} }

(* getstate(), when no state has this basis; initial is what the follow
   sets of the basis begin with. *)
NewState(n, B, initial) ==
    LET C == Closure(B)
    IN  /\ basis' = [m \in 0 .. n |-> IF m = n THEN B ELSE basis[m]]
        /\ configs' = [m \in 0 .. n |-> IF m = n THEN C ELSE configs[m]]
        /\ fws' = [c \in DOMAIN fws \cup { << n, d[1], d[2] >> : d \in C } |->
                      IF c \in DOMAIN fws THEN fws[c]
                      ELSE FollowInClosure(C, << c[2], c[3] >>)
                           \cup (IF << c[2], c[3] >> \in B THEN initial ELSE {})]
        /\ fplp' = fplp \cup ClosureLinks(n, C)

NoGrammar ==
    [ntokens |-> 1, nsyms |-> 1, start |-> 0, rules |-> << >>, errsym |-> 0, wildcard |-> 0, mark |-> << >>,
     prec |-> [t \in {0} |-> -1], assoc |-> [t \in {0} |-> "UNK"], fallback |-> [t \in {0} |-> 0],
     yaccPrec |-> FALSE, ignorePrec |-> FALSE, compress |-> TRUE, stacksize |-> 100, norecovery |-> FALSE]

LemonInit ==
    /\ g = NoGrammar
    /\ phase = "read"
    /\ precsym = << >> /\ lambda = {} /\ firstset = << >>
    /\ basis = << >> /\ configs = << >> /\ shifts = << >> /\ work = << >>
    /\ fws = << >> /\ fplp = {} /\ bplp = {} /\ complete = {} /\ i = 0 /\ progress = FALSE
    /\ acts = << >> /\ nconflict = 0 /\ errorcnt = 0 /\ canReduce = {}

(* The right-hand sides the start symbol occurs on: an error each time, but
   lemon goes on. *)
OnRhs(A) ==
    MapThenSumSet(LAMBDA r : Cardinality({ k \in DOMAIN rhs(r) : rhs(r)[k] = << A >> }), DOMAIN g.rules)

FindStates ==
    /\ phase = "start"
    /\ LET B == { << r, 0 >> : r \in { q \in DOMAIN g.rules : g.rules[q].lhs = g.start } }
       IN  /\ NewState(0, B, {0})
           /\ work' = << [n |-> 0, groups |-> Groups(Closure(B))] >>
           /\ errorcnt' = errorcnt + OnRhs(g.start) + Cardinality(Ruleless(Closure(B)))
    /\ shifts' = [n \in {0} |-> << >>]
    /\ phase' = "states"
    /\ UNCHANGED << g, precsym, lambda, firstset, bplp, complete, i, progress, acts, nconflict, canReduce >>

(* The basis of the successor, and Action_add() for each of its symbols. *)
Successor(n, s) == { << c[1], c[2] + 1 >> : c \in { d \in configs[n] : CanShift(d) /\ AfterDot(d) = s } }
BackLinks(m, B, n) == { << << m, c[1], c[2] >>, << n, c[1], c[2] - 1 >> >> : c \in B }
ShiftsOn(s, n) == [e \in DOMAIN s |-> << s[e], n >>]

(* State_find() *)
SameBasis(m, B) == basis[m] = B

(* One turn of the loop of buildshifts(): getstate() finds the state or
   makes a new one and calls buildshifts() for it. *)
Buildshifts ==
    /\ phase = "states"
    /\ work # << >>
    /\ Last(work).groups # << >>
    /\ LET n == Last(work).n
           s == Head(Last(work).groups)
           B == Successor(n, s)
           rest == [work EXCEPT ![Len(work)].groups = Tail(@)]
       IN  \/ \E m \in DOMAIN basis :
                 /\ SameBasis(m, B)
                 /\ bplp' = bplp \cup BackLinks(m, B, n)
                 /\ shifts' = [shifts EXCEPT ![n] = @ \o ShiftsOn(s, m)]
                 /\ work' = rest
                 /\ UNCHANGED << basis, configs, fws, fplp, errorcnt >>
           \/ /\ \A m \in DOMAIN basis : ~SameBasis(m, B)
              /\ NewState(nstate, B, {})
              /\ bplp' = bplp \cup BackLinks(nstate, B, n)
              /\ shifts' = [m \in 0 .. nstate |-> IF m = nstate THEN << >>
                                                  ELSE IF m = n THEN shifts[n] \o ShiftsOn(s, nstate)
                                                  ELSE shifts[m]]
              /\ work' = Append(rest, [n |-> nstate, groups |-> Groups(Closure(B))])
              /\ errorcnt' = errorcnt + Cardinality(Ruleless(Closure(B)))
    /\ UNCHANGED << g, phase, precsym, lambda, firstset, complete, i, progress, acts, nconflict, canReduce >>

BuildshiftsReturns ==
    /\ phase = "states"
    /\ work # << >>
    /\ Last(work).groups = << >>
    /\ work' = Front(work)
    /\ UNCHANGED << g, phase, precsym, lambda, firstset, basis, configs, shifts, fws, fplp, bplp,
                    complete, i, progress, acts, nconflict, errorcnt, canReduce >>

-----------------------------------------------------------------------------
(* FindLinks(), and the start of FindFollowSets(). *)
FindLinks ==
    /\ phase = "states"
    /\ work = << >>
    /\ fplp' = fplp \cup { << l[2], l[1] >> : l \in bplp }
    /\ complete' = {}
    /\ progress' = FALSE
    /\ i' = 0
    /\ phase' = "follow"
    /\ UNCHANGED << g, precsym, lambda, firstset, basis, configs, shifts, work, fws, bplp,
                    acts, nconflict, errorcnt, canReduce >>

(* Mutant of Propagate: what a link has changed is not looked at again. *)
Propagate_KeepStatus(acc, c) ==
    IF c \in acc.complete THEN acc
    ELSE LET targets == { l[2] : l \in { k \in fplp : k[1] = c } }
             changed == { d \in targets : ~(acc.fws[c] \subseteq acc.fws[d]) }
         IN  [fws |-> [d \in DOMAIN acc.fws |-> IF d \in targets THEN acc.fws[d] \cup acc.fws[c] ELSE acc.fws[d]],
              complete |-> acc.complete \cup {c},
              progress |-> acc.progress \/ changed # {}]

(* The loop body of FindFollowSets() for one configuration. *)
Propagate(acc, c) ==
    IF c \in acc.complete THEN acc
    ELSE LET targets == { l[2] : l \in { k \in fplp : k[1] = c } }
             changed == { d \in targets : ~(acc.fws[c] \subseteq acc.fws[d]) }
         IN  [fws |-> [d \in DOMAIN acc.fws |-> IF d \in targets THEN acc.fws[d] \cup acc.fws[c] ELSE acc.fws[d]],
              complete |-> (acc.complete \ changed) \cup {c},
              progress |-> acc.progress \/ changed # {}]

FollowSetsOfState ==
    /\ phase = "follow"
    /\ i < nstate
    /\ LET order == InOrder(configs[i], ConfigLess)
           done == FoldLeft(Propagate, [fws |-> fws, complete |-> complete, progress |-> progress],
                            [k \in DOMAIN order |-> << i, order[k][1], order[k][2] >>])
       IN  /\ fws' = done.fws
           /\ complete' = done.complete
           /\ progress' = done.progress
    /\ i' = i + 1
    /\ UNCHANGED << g, phase, precsym, lambda, firstset, basis, configs, shifts, work, fplp, bplp,
                    acts, nconflict, errorcnt, canReduce >>

NextPass ==
    /\ phase = "follow"
    /\ i = nstate
    /\ progress
    /\ progress' = FALSE
    /\ i' = 0
    /\ UNCHANGED << g, phase, precsym, lambda, firstset, basis, configs, shifts, work, fws, fplp, bplp,
                    complete, acts, nconflict, errorcnt, canReduce >>

-----------------------------------------------------------------------------
Types == << SHIFT, "ACCEPT", REDUCE, "ERROR", "SSCONFLICT", "SRCONFLICT", "RRCONFLICT",
            "SH_RESOLVED", "RD_RESOLVED", "NOT_USED", "SHIFTREDUCE" >>
TypeNumber(t) == CHOOSE k \in DOMAIN Types : Types[k] = t

(* actioncmp(); of two shifts the one added last comes first. *)
ActionLess(a, b) ==
    LET key(x) == << x.sp, TypeNumber(x.type),
                     IF x.type \in {REDUCE, "SHIFTREDUCE"} THEN x.arg ELSE 0, -x.at, x.arg >>
        k == CHOOSE j \in 1 .. 6 : j = 6 \/ (key(a)[j] # key(b)[j] /\ \A l \in 1 .. j - 1 : key(a)[l] = key(b)[l])
    IN  k < 6 /\ key(a)[k] < key(b)[k]
Action_sort(S) == InOrder(S, ActionLess)

IsComplete(c) == c[2] = Len(rhs(c[1]))
ActionsOf(n) ==
    { [sp |-> shifts[n][k][1], type |-> SHIFT, arg |-> shifts[n][k][2], at |-> k] : k \in DOMAIN shifts[n] }
    \cup UNION { { [sp |-> t, type |-> REDUCE, arg |-> c[1], at |-> 0] : t \in fws[<< n, c[1], c[2] >>] } :
                   c \in { d \in configs[n] : IsComplete(d) } }
    \cup (IF n = 0 THEN { [sp |-> g.start, type |-> "ACCEPT", arg |-> 0, at |-> 0] } ELSE {})

(* FindActions(): the reduce actions, the accepting token, Action_sort(). *)
FindActions ==
    /\ phase = "follow"
    /\ i = nstate
    /\ ~progress
    /\ acts' = [n \in DOMAIN configs |-> Action_sort(ActionsOf(n))]
    /\ i' = 0
    /\ phase' = "resolve"
    /\ UNCHANGED << g, precsym, lambda, firstset, basis, configs, shifts, work, fws, fplp, bplp,
                    complete, progress, nconflict, errorcnt, canReduce >>

(* resolve_conflict(): the new types of the two actions, and whether the
   conflict counts.  In the last case an assertion fails. *)
Lost == { "SH_RESOLVED", "RD_RESOLVED", "SSCONFLICT", "SRCONFLICT", "RRCONFLICT" }
Result(x, y, n) == [x |-> x, y |-> y, count |-> n, ok |-> TRUE]

ByPrecedence(x, y, px, py) ==
    IF px > py THEN Result(x.type, "RD_RESOLVED", 0)
    ELSE IF px < py THEN Result("SH_RESOLVED", y.type, 0)
    ELSE IF g.assoc[x.sp] = "RIGHT" THEN Result(x.type, "RD_RESOLVED", 0)
    ELSE IF g.assoc[x.sp] = "LEFT" THEN Result("SH_RESOLVED", y.type, 0)
    ELSE Result("ERROR", y.type, 0)

PrecOf(sp) == IF sp # 0 /\ sp < g.ntokens THEN g.prec[sp] ELSE -1

(* Mutant of ReduceReduce: the conflict is not counted. *)
ReduceReduce_NotCounted(x, y) == Result(x.type, "RRCONFLICT", 0)
ReduceReduce(x, y) ==
    LET px == PrecOf(precsym[x.arg])
        py == PrecOf(precsym[y.arg])
    IN  IF px < 0 \/ py < 0 \/ px = py THEN Result(x.type, "RRCONFLICT", 1)
        ELSE IF px > py THEN Result(x.type, "RD_RESOLVED", 0)
        ELSE Result("RD_RESOLVED", y.type, 0)

resolve_conflict(x, y) ==
    IF x.type = SHIFT /\ y.type = SHIFT THEN Result(x.type, "SSCONFLICT", 1)
    ELSE IF x.type = SHIFT /\ y.type = REDUCE
         THEN IF PrecOf(x.sp) < 0 \/ PrecOf(precsym[y.arg]) < 0 THEN Result(x.type, "SRCONFLICT", 1)
              ELSE ByPrecedence(x, y, PrecOf(x.sp), PrecOf(precsym[y.arg]))
    ELSE IF x.type = REDUCE /\ y.type = REDUCE THEN ReduceReduce(x, y)
    ELSE [Result(x.type, y.type, 0) EXCEPT !.ok = (x.type \in Lost \/ y.type \in Lost)]

(* All pairs with the same lookahead, in the order of the two loops. *)
Pairs(s) ==
    InOrder({ p \in (DOMAIN s) \X (DOMAIN s) : p[1] < p[2] /\ s[p[1]].sp = s[p[2]].sp }, ConfigLess)
ResolvePair(acc, p) ==
    LET r == resolve_conflict(acc.acts[p[1]], acc.acts[p[2]])
    IN  [acts |-> [acc.acts EXCEPT ![p[1]].type = r.x, ![p[2]].type = r.y],
         count |-> acc.count + r.count, ok |-> acc.ok /\ r.ok]
ResolveState(n) == FoldLeft(ResolvePair, [acts |-> acts[n], count |-> 0, ok |-> TRUE], Pairs(acts[n]))

ResolveConflicts ==
    /\ phase = "resolve"
    /\ i < nstate
    /\ LET done == ResolveState(i)
       IN  /\ acts' = [acts EXCEPT ![i] = done.acts]
           /\ nconflict' = nconflict + done.count
           /\ phase' = IF done.ok THEN "resolve" ELSE "abort"
    /\ i' = i + 1
    /\ UNCHANGED << g, precsym, lambda, firstset, basis, configs, shifts, work, fws, fplp, bplp,
                    complete, progress, errorcnt, canReduce >>

(* "This rule can not be reduced." *)
FindUnreducible ==
    /\ phase = "resolve"
    /\ i = nstate
    /\ canReduce' = UNION { { a.arg : a \in { b \in ToSet(acts[n]) : b.type = REDUCE } } : n \in DOMAIN acts }
    /\ errorcnt' = errorcnt + Cardinality(DOMAIN g.rules \ canReduce')
    /\ phase' = "compress"
    /\ UNCHANGED << g, precsym, lambda, firstset, basis, configs, shifts, work, fws, fplp, bplp,
                    complete, i, progress, acts, nconflict >>

BuildNext ==
    \/ FindRulePrecedences \/ FindFirstSets \/ FindStates \/ Buildshifts \/ BuildshiftsReturns
    \/ FindLinks \/ FollowSetsOfState \/ NextPass \/ FindActions \/ ResolveConflicts \/ FindUnreducible

-----------------------------------------------------------------------------
(***************************************************************************)
(* The grammar in the terms of GrammarTheory: a rule with MULTITERMINALs   *)
(* stands for a rule for each choice, and $accept is symbol nsyms.         *)
(***************************************************************************)
PlainRhs(s) ==
    LET choose[k \in 0 .. Len(s)] ==
            IF k = 0 THEN { << >> } ELSE { Append(w, x) : w \in choose[k - 1], x \in ToSet(s[k]) }
    IN  choose[Len(s)]
Plain(gr) ==
    LET top == << Cardinality(DOMAIN gr.rules), << gr.start, 0 >> >>
        rules == UNION { { << r, w >> : w \in PlainRhs(gr.rules[r].rhs) } : r \in DOMAIN gr.rules }
    IN  [ntokens |-> gr.ntokens, nsyms |-> gr.nsyms + 1, top |-> top,
         rules |-> [p \in rules \cup {top} |->
                      [lhs |-> IF p = top THEN gr.nsyms ELSE gr.rules[p[1]].lhs, rhs |-> p[2]]]]

IsPlain == \A r \in DOMAIN g.rules : \A k \in DOMAIN rhs(r) : Len(rhs(r)[k]) = 1

(***************************************************************************)
(* The follow sets of the completed configurations are the LALR(1)         *)
(* lookaheads, and the states are the cores of the canonical LR(1)         *)
(* collection: lemon reaches them by propagation along links it records    *)
(* while it builds the states, and by moving the links of a state it finds *)
(* to exist already.                                                       *)
(***************************************************************************)
FollowSetsAreLALR ==
    phase = "resolve" /\ i = 0 /\ IsPlain /\ OnRhs(g.start) = 0 /\ ProductiveVars(Plain(g)) = Vars(Plain(g)) =>
        LET gr == Plain(g)
            C == Collection1(gr)
            Id(r) == CHOOSE p \in DOMAIN gr.rules : p[1] = r
            CoreOf(n) == { << Id(c[1]), c[2] >> : c \in configs[n] }
                         \cup (IF n = 0 THEN { << gr.top, 0 >> } ELSE {})
        IN  /\ { CoreOf(n) : n \in DOMAIN configs } = StatesLALR(gr, C) \ { { << gr.top, 1 >> } }
            /\ \A n \in DOMAIN configs : \A c \in { d \in configs[n] : IsComplete(d) } :
                  fws[<< n, c[1], c[2] >>] = LookaheadLALR(gr, C, CoreOf(n), Id(c[1]))

(***************************************************************************)
(* Without precedences the number of conflicts is the number of actions    *)
(* that lose: all but one of those of a state with the same lookahead.     *)
(* This is the number the README compares between the generators.          *)
(***************************************************************************)
CountsEveryConflict ==
    phase = "compress" /\ (\A t \in DOMAIN g.prec : g.prec[t] < 0) =>
        nconflict = MapThenSumSet(
            LAMBDA n : Len(acts[n]) - Cardinality({ a.sp : a \in ToSet(acts[n]) }), DOMAIN acts)

(***************************************************************************)
(* If resolve_conflict() gets to its last branch, "it must be because the  *)
(* parser conflict had already been resolved" (lemon.c:1352): one of the   *)
(* two actions has lost to another one before.                             *)
(***************************************************************************)
ConflictsResolved == phase # "abort"
=============================================================================
