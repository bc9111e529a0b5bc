------------------------------- MODULE GoYacc -------------------------------
(***************************************************************************)
(* go/yacc.go, from cpres() to callopt(): the states and lookaheads of the *)
(* third generator, its actions with their exceptions, its gotos, and the  *)
(* array that holds them.                                                  *)
(*                                                                         *)
(* stagen() does not find the states first and the lookaheads after that.  *)
(* It closes a state together with its lookaheads, hands them on to the    *)
(* states it leads to, and closes again those whose lookaheads have grown. *)
(* Rows are then written with the state closed once more.                  *)
(*                                                                         *)
(* The grammar is numbered like that of byacc: $end is 0, error is 1, and  *)
(* rule g.top is rule 0 of the code.                                       *)
(***************************************************************************)
EXTENDS GrammarTheory, FiniteSetsExt, SequencesExt

CONSTANTS
    ACTSIZE, NSTATES,
    yyFlag,         \* the Pact of a state without shifts, -1000
    NOMORE          \* what nxti() returns at the end, -1000

VARIABLES
    g,
    gopc,           \* where main() is
    pempty,         \* the EMPTY variables
    pfirst,
    statemem,       \* state |-> its kernel: items [prod, off, look]
    tystate,
    stateno,        \* the loop variable i of stagen() and output()
    more, first,    \* of stagen()
    nolook,
    wsets,          \* the closure: items [prod, off, flag, ws]
    u, work,        \* of closure()
    temp1,          \* variable |-> the state it leads to from state i
    amem, indgo,
    optst, defact, exca,
    zzsrconf, zzrrconf,
    yypgo,          \* variable |-> [entries, best]
    ggreed,         \* variable |-> how much room its gotos take; 0 when placed
    pgo, maxa

tables == << optst, defact, exca, zzsrconf, zzrrconf >>
optimizer == << ggreed, pgo, maxa >>
closureVars == << nolook, wsets, u, work >>

DONE == 0
MUSTDO == 1
MUSTLOOKAHEAD == 2
ERRCODE == 8190
ACCEPTCODE == 8191

nstate == Cardinality(DOMAIN statemem)
Variables == g.ntokens + 1 .. g.nsyms - 1
AllTokens == 0 .. g.ntokens - 1

(* pitem.first: the symbol behind the dot, or minus the rule. *)
SymbolOf(x) == IF x.off < Len(Rhs(g, x.prod)) THEN Rhs(g, x.prod)[x.off + 1] ELSE -x.prod
IsVariable(c) == c >= g.ntokens

-----------------------------------------------------------------------------
(* cempty(): one variable after the other. *)
Empty(gr) ==
    LET Found(E) == { r \in DOMAIN gr.rules \ {gr.top} :
                        /\ gr.rules[r].lhs \notin E
                        /\ ToSet(Rhs(gr, r)) \subseteq E }
        again[E \in SUBSET Vars(gr)] ==
            IF Found(E) = {} THEN E ELSE again[E \cup { gr.rules[Min(Found(E))].lhs }]
    IN  again[{}]

(* cpfir(): the tokens a rule shows, then passes over the rules. *)
Leading(s, E) == { k \in DOMAIN s : \A j \in 1 .. k - 1 : s[j] \in E }
Reflect(gr, E, F) ==
    FoldLeft(LAMBDA H, A : [H EXCEPT ![A] = @ \cup
                 UNION { UNION { IF IsToken(gr, Rhs(gr, r)[k]) THEN { Rhs(gr, r)[k] } ELSE H[Rhs(gr, r)[k]] :
                                   k \in Leading(Rhs(gr, r), E) } : r \in RulesOf(gr, A) }],
             F, InOrder(Vars(gr), <))
Firsts(gr, E) ==
    LET changes[F \in [Vars(gr) -> SUBSET (0 .. gr.ntokens - 1)]] ==
            IF Reflect(gr, E, F) = F THEN F ELSE changes[Reflect(gr, E, F)]
    IN  changes[[A \in Vars(gr) |-> {}]]

GoInit ==
    /\ gopc = "idle"
    /\ pempty = {} /\ pfirst = << >>
    /\ statemem = << >> /\ tystate = << >>
    /\ stateno = 0 /\ more = FALSE /\ first = TRUE
    /\ nolook = FALSE /\ wsets = << >> /\ u = 1 /\ work = FALSE
    /\ temp1 = << >> /\ amem = [k \in 0 .. ACTSIZE - 1 |-> 0] /\ indgo = << >>
    /\ optst = << >> /\ defact = << >> /\ exca = << >>
    /\ zzsrconf = 0 /\ zzrrconf = 0
    /\ yypgo = << >> /\ ggreed = << >> /\ pgo = << >> /\ maxa = 0

(* A variable that derives no tokens is an error. *)
Prepare ==
    /\ gopc = "idle"
    /\ pempty' = Empty(g)
    /\ pfirst' = Firsts(g, pempty')
    /\ statemem' = [n \in {0} |-> << [prod |-> g.top, off |-> 0, look |-> {}] >>]
    /\ tystate' = [n \in {0} |-> MUSTDO]
    /\ gopc' = IF Vars(g) \subseteq ProductiveVars(g) THEN "stagen" ELSE "exit"
    /\ UNCHANGED << stateno, more, first, closureVars, temp1, amem, indgo, tables, yypgo, optimizer >>

-----------------------------------------------------------------------------
(***************************************************************************)
(* closure(): items before a variable are flagged until they are closed,   *)
(* and again when their lookaheads have grown.                             *)
(***************************************************************************)
StartClosure(n) ==
    /\ wsets' = [k \in DOMAIN statemem[n] |->
                    [prod |-> statemem[n][k].prod, off |-> statemem[n][k].off,
                     flag |-> IsVariable(SymbolOf(statemem[n][k])), ws |-> statemem[n][k].look]]
    /\ u' = 1
    /\ work' = FALSE

Closing == gopc \in {"closure", "closure_of_row"}
Flagged == { k \in u .. Len(wsets) : wsets[k].flag }

(* What can follow the variable behind the dot. *)
Behind(x) ==
    LET rest == SubSeq(Rhs(g, x.prod), x.off + 2, Len(Rhs(g, x.prod)))
    IN  UNION { IF IsToken(g, rest[k]) THEN { rest[k] } ELSE pfirst[rest[k]] : k \in Leading(rest, pempty) }
        \cup (IF ToSet(rest) \subseteq pempty THEN x.ws ELSE {})

(* The items of one variable are closed together. *)
CloseItem ==
    /\ Closing
    /\ Flagged # {}
    /\ LET c == SymbolOf(wsets[Min(Flagged)])
           same == { k \in Flagged : SymbolOf(wsets[k]) = c }
           clset == IF nolook THEN {} ELSE UNION { Behind(wsets[k]) : k \in same }
           IsThere(r) == \E k \in DOMAIN wsets : wsets[k].prod = r /\ wsets[k].off = 0
           Grows(x) == x.off = 0 /\ x.prod \in RulesOf(g, c) /\ ~(clset \subseteq x.ws)
           new == InOrder({ r \in RulesOf(g, c) : ~IsThere(r) }, <)
           old == [k \in DOMAIN wsets |->
                      LET x == IF k \in same THEN [wsets[k] EXCEPT !.flag = FALSE] ELSE wsets[k]
                      IN  IF Grows(x) THEN [x EXCEPT !.ws = @ \cup clset, !.flag = IsVariable(SymbolOf(x))] ELSE x]
       IN  /\ wsets' = old \o [k \in DOMAIN new |->
                                 LET x == [prod |-> new[k], off |-> 0, flag |-> TRUE, ws |-> clset]
                                 IN  [x EXCEPT !.flag = IsVariable(SymbolOf(x))]]
           /\ work' = (work \/ (~nolook /\ (new # << >> \/ \E k \in DOMAIN wsets : Grows(wsets[k]))))
    /\ u' = Min(Flagged) + 1
    /\ UNCHANGED << gopc, pempty, pfirst, statemem, tystate, stateno, more, first, nolook, temp1, amem, indgo, tables, yypgo, optimizer >>

NextPass ==
    /\ Closing
    /\ Flagged = {}
    /\ work
    /\ u' = 1
    /\ work' = FALSE
    /\ UNCHANGED << gopc, pempty, pfirst, statemem, tystate, stateno, more, first, nolook, wsets, temp1, amem, indgo, tables, yypgo, optimizer >>

Closed ==
    /\ Closing
    /\ Flagged = {}
    /\ ~work
    /\ gopc' = IF gopc = "closure" THEN "gotos" ELSE "row"
    /\ UNCHANGED << pempty, pfirst, statemem, tystate, stateno, more, first, closureVars, temp1, amem, indgo, tables, yypgo, optimizer >>

-----------------------------------------------------------------------------
(* The loop of stagen() over the states, and over again while one was done. *)
MustDo == { n \in stateno .. nstate - 1 : tystate[n] = MUSTDO }

DoState ==
    /\ gopc = "stagen"
    /\ MustDo # {}
    /\ stateno' = Min(MustDo)
    /\ tystate' = [tystate EXCEPT ![stateno'] = DONE]
    /\ more' = TRUE
    /\ StartClosure(stateno')
    /\ temp1' = [A \in Variables |-> 0]
    /\ gopc' = "closure"
    /\ UNCHANGED << pempty, pfirst, statemem, first, nolook, amem, indgo, tables, yypgo, optimizer >>

LoopAgain ==
    /\ gopc = "stagen"
    /\ MustDo = {}
    /\ stateno' = 0
    /\ more' = FALSE
    /\ first' = FALSE
    /\ gopc' = IF more THEN "stagen" ELSE "output"
    /\ UNCHANGED << pempty, pfirst, statemem, tystate, closureVars, temp1, amem, indgo, tables, yypgo, optimizer >>

(* The gotos, one symbol after the other as the closure shows them; the
   flag says that an item has been used. *)
Unused == { k \in DOMAIN wsets : ~wsets[k].flag }
Use(ks) == wsets' = [k \in DOMAIN wsets |-> IF k \in ks THEN [wsets[k] EXCEPT !.flag = TRUE] ELSE wsets[k]]

(* A reduction that is not in the kernel needs the closure's lookaheads. *)
MarkLookahead(k) ==
    IF k > Len(statemem[stateno]) THEN [tystate EXCEPT ![stateno] = MUSTLOOKAHEAD] ELSE tystate

PassReduction ==
    /\ gopc = "gotos"
    /\ Unused # {}
    /\ SymbolOf(wsets[Min(Unused)]) <= 0
    /\ Use({ Min(Unused) })
    /\ tystate' = MarkLookahead(Min(Unused))
    /\ UNCHANGED << gopc, pempty, pfirst, statemem, stateno, more, first, nolook, u, work, temp1, amem, indgo, tables, yypgo, optimizer >>

(* putitem() for every item before c, and state(): the items are sorted and
   looked for among the states. *)
OnSymbol(c) == { k \in DOMAIN wsets : SymbolOf(wsets[k]) = c }
Kernel(c) ==
    InOrder({ [prod |-> wsets[k].prod, off |-> wsets[k].off + 1, look |-> wsets[k].ws] : k \in OnSymbol(c) },
            LAMBDA x, y : x.prod < y.prod \/ (x.prod = y.prod /\ x.off < y.off))
SameItems(s, t) ==
    [k \in DOMAIN s |-> << s[k].prod, s[k].off >>] = [k \in DOMAIN t |-> << t[k].prod, t[k].off >>]
Equal(kernel) == { n \in 1 .. nstate - 1 : SameItems(statemem[n], kernel) }

LeadTo(c, n) == temp1' = IF IsVariable(c) THEN [temp1 EXCEPT ![c] = n] ELSE temp1

(* Mutant of KnownState: a state is not closed again when its lookaheads grow. *)
KnownState_NotAgain(c) ==
    \E n \in Equal(Kernel(c)) :
        /\ statemem' = [statemem EXCEPT ![n] = [k \in DOMAIN @ |->
                           [@[k] EXCEPT !.look = @ \cup Kernel(c)[k].look]]]
        /\ UNCHANGED tystate
        /\ LeadTo(c, n)
        /\ UNCHANGED gopc

KnownState(c) ==
    \E n \in Equal(Kernel(c)) :
        /\ statemem' = [statemem EXCEPT ![n] = [k \in DOMAIN @ |->
                           [@[k] EXCEPT !.look = @ \cup Kernel(c)[k].look]]]
        /\ tystate' = IF statemem' = statemem THEN tystate ELSE [tystate EXCEPT ![n] = MUSTDO]
        /\ LeadTo(c, n)
        /\ UNCHANGED gopc

NewState(c) ==
    /\ Equal(Kernel(c)) = {}
    /\ IF nstate + 1 >= NSTATES
       THEN gopc' = "exit" /\ UNCHANGED << statemem, tystate, temp1 >>
       ELSE /\ statemem' = [n \in 0 .. nstate |-> IF n = nstate THEN Kernel(c) ELSE statemem[n]]
            /\ tystate' = [n \in 0 .. nstate |-> IF n = nstate THEN MUSTDO ELSE tystate[n]]
            /\ LeadTo(c, nstate)
            /\ UNCHANGED gopc

Goto ==
    /\ gopc = "gotos"
    /\ Unused # {}
    /\ LET c == SymbolOf(wsets[Min(Unused)])
       IN  /\ c > 0
           /\ KnownState(c) \/ NewState(c)
           /\ Use(OnSymbol(c))
    /\ UNCHANGED << pempty, pfirst, stateno, more, first, nolook, u, work, amem, indgo, tables, yypgo, optimizer >>

-----------------------------------------------------------------------------
(***************************************************************************)
(* apack(): the gotos of a state are laid into amem where entries of       *)
(* others are the same or missing; nothing says whose an entry is.         *)
(***************************************************************************)
Targets == { A \in Variables : temp1[A] # 0 }
At(place, A) == place + A - Min(Targets)

(* Mutant of HasRoom: entries are not compared. *)
HasRoom_Anywhere(place) == At(place, Max(Targets)) < ACTSIZE
HasRoom(place) ==
    /\ At(place, Max(Targets)) < ACTSIZE
    /\ \A A \in Targets : amem[At(place, A)] \in {0, temp1[A]}

Places == { place \in 0 .. ACTSIZE - 1 : HasRoom(place) }

EndOfState ==
    /\ gopc = "gotos"
    /\ Unused = {}
    /\ IF ~first \/ Targets = {}
       THEN /\ indgo' = IF first THEN Append(indgo, -1) ELSE indgo
            /\ gopc' = "stagen"
            /\ UNCHANGED amem
       ELSE IF Places = {}
       THEN gopc' = "exit" /\ UNCHANGED << amem, indgo >>
       ELSE /\ amem' = [k \in DOMAIN amem |->
                          IF \E A \in Targets : At(Min(Places), A) = k
                          THEN temp1[CHOOSE A \in Targets : At(Min(Places), A) = k] ELSE amem[k]]
            /\ indgo' = Append(indgo, At(Min(Places), g.ntokens))
            /\ gopc' = "stagen"
    /\ stateno' = stateno + 1
    /\ UNCHANGED << pempty, pfirst, statemem, tystate, more, first, closureVars, temp1, tables, yypgo, optimizer >>

(* amem[indgo[n] + c], c the variable's number without NTBASE. *)
GotoEntry(n, A) == amem[indgo[n + 1] + A - g.ntokens]

-----------------------------------------------------------------------------
(* output(): the state is closed again, with lookaheads if it must be. *)
TakeRow ==
    /\ gopc = "output"
    /\ stateno < nstate
    /\ nolook' = (tystate[stateno] # MUSTLOOKAHEAD)
    /\ StartClosure(stateno)
    /\ gopc' = "closure_of_row"
    /\ UNCHANGED << pempty, pfirst, statemem, tystate, stateno, more, first, temp1, amem, indgo, tables, yypgo, optimizer >>

(* precftn(): levels have six bits. *)
PLEVEL(level) == level % 64

Preferred(r, t) ==
    IF PLEVEL(g.prec[t]) = PLEVEL(g.rprec[r]) THEN g.assoc[t]
    ELSE IF PLEVEL(g.prec[t]) > PLEVEL(g.rprec[r]) THEN "RIGHT" ELSE "LEFT"

precftn(acc, r, t) ==
    IF PLEVEL(g.prec[t]) = 0 \/ PLEVEL(g.rprec[r]) = 0
    THEN [acc EXCEPT !.sr = @ + 1]
    ELSE [acc EXCEPT !.action = CASE Preferred(r, t) = "NONASSOC" -> ERRCODE
                                  [] Preferred(r, t) = "LEFT" -> -r
                                  [] OTHER -> @]

(* The rules to reduce, in the order of the closure, meet what is there. *)
Reductions(t) ==
    LET done == SelectSeq(wsets, LAMBDA x : SymbolOf(x) < 0 /\ t \in x.ws)
    IN  [k \in DOMAIN done |-> done[k].prod]

Shifted(t) ==
    IF stateno = 1 /\ t = 0 THEN ACCEPTCODE
    ELSE IF t > 0 /\ OnSymbol(t) # {} THEN CHOOSE n \in Equal(Kernel(t)) : TRUE
    ELSE 0

Settled(t) ==
    FoldLeft(LAMBDA acc, r : IF acc.action = 0 THEN [acc EXCEPT !.action = -r]
                             ELSE IF acc.action < 0
                             THEN [acc EXCEPT !.action = IF -@ > r THEN -r ELSE @, !.rr = @ + 1]
                             ELSE precftn(acc, r, t),
             [action |-> Shifted(t), sr |-> 0, rr |-> 0], Reductions(t))

(* addActions(): the most frequent reduction is the default, unless the
   error token is shifted. *)
Often(row, t) == Cardinality({ q \in AllTokens : row[q] = row[t] })
Reduced(row) == { t \in AllTokens : row[t] < 0 }
DefaultOf(row) ==
    IF row[1] > 0 \/ Reduced(row) = {} THEN 0
    ELSE -row[Min({ t \in Reduced(row) : \A q \in Reduced(row) : Often(row, q) <= Often(row, t) })]

IsShift(act) == act > 0 /\ act \notin {ACCEPTCODE, ERRCODE}
(* What stands in Exca: a rule, -1 to accept, 0 for an error. *)
Encoded(act) == IF act < 0 THEN -act ELSE IF act = ACCEPTCODE THEN -1 ELSE 0

WriteRow ==
    /\ gopc = "row"
    /\ LET settled == [t \in AllTokens |-> Settled(t)]
           row == [t \in AllTokens |-> settled[t].action]
           lastred == DefaultOf(row)
           exceptions == SelectSeq([k \in 1 .. g.ntokens |-> k - 1],
                             LAMBDA t : ~IsShift(row[t]) /\ row[t] # 0 /\ row[t] # -lastred)
       IN  /\ optst' = Append(optst, [t \in { q \in AllTokens : IsShift(row[q]) } |-> row[t]])
           /\ defact' = Append(defact, IF exceptions = << >> THEN lastred ELSE -2)
           /\ exca' = IF exceptions = << >> THEN exca
                      ELSE exca \o << << -1, stateno >> >>
                                \o [k \in DOMAIN exceptions |-> << exceptions[k], Encoded(row[exceptions[k]]) >>]
                                \o << << -2, lastred >> >>
           /\ zzsrconf' = zzsrconf + MapThenSumSet(LAMBDA t : settled[t].sr, AllTokens)
           /\ zzrrconf' = zzrrconf + MapThenSumSet(LAMBDA t : settled[t].rr, AllTokens)
    /\ stateno' = stateno + 1
    /\ gopc' = "output"
    /\ UNCHANGED << pempty, pfirst, statemem, tystate, more, first, closureVars, temp1, amem, indgo, yypgo, optimizer >>

-----------------------------------------------------------------------------
(* go2gen(): the variables that begin with A, and the states where one of
   them is behind a dot of the kernel. *)
BeginWith(A) ==
    LET Derive(S) == { A } \cup { g.rules[r].lhs : r \in { q \in DOMAIN g.rules :
                                     Rhs(g, q) # << >> /\ Head(Rhs(g, q)) \in S } }
    IN  LeastFixpoint(Derive, Vars(g))

GotosOn(A) ==
    [n \in DOMAIN statemem |->
        IF \E k \in DOMAIN statemem[n] : SymbolOf(statemem[n][k]) \in BeginWith(A)
        THEN GotoEntry(n, A) ELSE 0]

(* go2out(): the most frequent goto is the default. *)
GotosOfNext ==
    /\ gopc = "output"
    /\ stateno = nstate
    /\ DOMAIN yypgo # Variables
    /\ LET A == Min(Variables \ DOMAIN yypgo)
           to == GotosOn(A)
           from == { n \in DOMAIN to : to[n] # 0 }
           Times(n) == Cardinality({ m \in from : to[m] = to[n] })
           best == IF from = {} THEN 0
                   ELSE to[Min({ n \in from : \A m \in from : Times(m) <= Times(n) })]
           entry == [entries |-> [n \in { m \in from : to[m] # best } |-> to[n]], best |-> best]
       IN  yypgo' = [B \in DOMAIN yypgo \cup {A} |-> IF B = A THEN entry ELSE yypgo[B]]
    /\ gopc' = IF DOMAIN yypgo' = Variables THEN "callopt" ELSE "output"
    /\ UNCHANGED << pempty, pfirst, statemem, tystate, stateno, more, first, closureVars, temp1, amem, indgo, tables, optimizer >>

-----------------------------------------------------------------------------
(***************************************************************************)
(* callopt(): shifts and gotos are laid into one array, the longest first. *)
(* An entry does not say whose it is: the parser compares the symbol that  *)
(* leads to the state it finds.                                            *)
(***************************************************************************)
(* $unk is the third token. *)
Index(t) == IF t <= 1 THEN t + 1 ELSE t + 2
Shifts(n) == optst[n + 1]
Widest(S) == Max({0} \cup S)
maxoff == Widest({ Index(Min(DOMAIN Shifts(n))) : n \in { m \in DOMAIN statemem : Shifts(m) # << >> } }
                 \cup UNION { DOMAIN yypgo[A].entries : A \in Variables })

Callopt ==
    /\ gopc = "callopt"
    /\ tystate' = [n \in DOMAIN statemem |->
                     2 * Cardinality(DOMAIN Shifts(n)) + 2 * Widest({ Index(t) : t \in DOMAIN Shifts(n) })]
    /\ ggreed' = [A \in Variables |->
                     1 + 2 * Cardinality(DOMAIN yypgo[A].entries) + 2 * Widest(DOMAIN yypgo[A].entries)]
    /\ amem' = [k \in 0 .. ACTSIZE - 1 |-> 0]
    /\ indgo' = [k \in DOMAIN indgo |-> yyFlag]
    /\ pgo' = [A \in Variables |-> 0]
    /\ maxa' = 0
    /\ gopc' = "nxti"
    /\ UNCHANGED << pempty, pfirst, statemem, stateno, more, first, closureVars, temp1, tables, yypgo >>

(* nxti(): the last of the longest, states after variables; a variable is
   returned with a minus sign. *)
nxti ==
    LET longest == Max({ tystate[n] : n \in DOMAIN tystate } \cup { ggreed[A] : A \in Variables })
        longStates == { n \in DOMAIN tystate : tystate[n] = longest }
    IN  IF longest = 0 THEN NOMORE
        ELSE IF longStates # {} THEN Max(longStates)
        ELSE g.ntokens - Max({ A \in Variables : ggreed[A] = longest })

(* gin(): place p is looked at up to the first entry that is in use. *)
Entries(A) == yypgo[A].entries
Used(k) == k < ACTSIZE /\ amem[k] # 0
LookedAt(A, p) ==
    { p + n + 1 : n \in { m \in DOMAIN Entries(A) : \A l \in DOMAIN Entries(A) : l < m => ~Used(p + l + 1) } }
IsFree(A, p) == amem[p] = 0 /\ \A n \in DOMAIN Entries(A) : ~Used(p + n + 1)
Overflows(A, p) == amem[p] = 0 /\ \E k \in LookedAt(A, p) : k >= ACTSIZE

gin(A) ==
    LET stop == { p \in 0 .. ACTSIZE - 1 : IsFree(A, p) \/ Overflows(A, p) }
        p == Min(stop)
        seen == UNION { LookedAt(A, q) : q \in { r \in 0 .. p : amem[r] = 0 } }
    IN  /\ ggreed' = [ggreed EXCEPT ![A] = 0]
        /\ IF stop = {} \/ Overflows(A, p)
           THEN gopc' = "exit" /\ UNCHANGED << amem, pgo, maxa >>
           ELSE /\ amem' = [k \in DOMAIN amem |->
                              IF k = p THEN yypgo[A].best
                              ELSE IF k - p - 1 \in DOMAIN Entries(A) THEN Entries(A)[k - p - 1] ELSE amem[k]]
                /\ pgo' = [pgo EXCEPT ![A] = p]
                /\ maxa' = Max(seen \cup {maxa, p})
                /\ UNCHANGED gopc

(* stin(): entries may be there already, but a place may be that of another
   state only if both are the same. *)
Fits(n, off) ==
    \A t \in DOMAIN Shifts(n) :
        LET s == off + Index(t)
        IN  s \in 0 .. ACTSIZE /\ (Used(s) => amem[s] = Shifts(n)[t])
IsThere(n, off) == \A t \in DOMAIN Shifts(n) : Used(off + Index(t))
(* Mutant of MayShare: what is there already may be that of any state. *)
MayShare_Any(n, off) == IsThere(n, off) \/ \A m \in DOMAIN statemem : indgo[m + 1] # off
MayShare(n, off) ==
    LET owners == { m \in DOMAIN statemem : indgo[m + 1] = off }
    IN  owners # {} =>
            /\ IsThere(n, off)
            /\ Cardinality(DOMAIN Shifts(n)) = Cardinality(DOMAIN Shifts(Min(owners)))

(* The entry at ACTSIZE is taken for one of the array: the program ends
   there, too. *)
stin(n) ==
    LET places == { off \in -maxoff .. ACTSIZE - 1 : Fits(n, off) /\ MayShare(n, off) }
        off == Min(places)
        at == { off + Index(t) : t \in DOMAIN Shifts(n) }
    IN  /\ tystate' = [tystate EXCEPT ![n] = 0]
        /\ IF places = {} \/ ACTSIZE \in at
           THEN gopc' = "exit" /\ UNCHANGED << amem, indgo, maxa >>
           ELSE /\ amem' = [k \in DOMAIN amem |->
                              IF k \in at THEN Shifts(n)[CHOOSE t \in DOMAIN Shifts(n) : off + Index(t) = k] ELSE amem[k]]
                /\ indgo' = [indgo EXCEPT ![n + 1] = off]
                /\ maxa' = Widest(at \cup {maxa})
                /\ UNCHANGED gopc

PlaceGotos ==
    /\ gopc = "nxti"
    /\ nxti < 0 /\ nxti # NOMORE
    /\ gin(g.ntokens - nxti)
    /\ UNCHANGED << pempty, pfirst, statemem, tystate, stateno, more, first, closureVars, temp1, indgo, tables, yypgo >>

PlaceShifts ==
    /\ gopc = "nxti"
    /\ nxti >= 0
    /\ stin(nxti)
    /\ UNCHANGED << pempty, pfirst, statemem, stateno, more, first, closureVars, temp1, tables, yypgo, ggreed, pgo >>

Aoutput ==
    /\ gopc = "nxti"
    /\ nxti = NOMORE
    /\ gopc' = "done"
    /\ UNCHANGED << pempty, pfirst, statemem, tystate, stateno, more, first, closureVars, temp1, amem, indgo, tables, yypgo, optimizer >>

GoNext ==
    \/ Prepare \/ CloseItem \/ NextPass \/ Closed
    \/ DoState \/ LoopAgain \/ PassReduction \/ Goto \/ EndOfState
    \/ TakeRow \/ WriteRow \/ GotosOfNext
    \/ Callopt \/ PlaceGotos \/ PlaceShifts \/ Aoutput

-----------------------------------------------------------------------------
(* What $$Parse finds in the tables for state n: a shift, or the default,
   or what Exca says.  An action is coded as in output(). *)
Chk(n) == IF n = 0 THEN -1 ELSE Rhs(g, statemem[n][1].prod)[statemem[n][1].off]
Act(k, x) == IF k \in 0 .. maxa /\ Chk(amem[k]) = x THEN amem[k] ELSE 0

Exception(n, t) ==
    LET start == Min({ k \in DOMAIN exca : exca[k] = << -1, n >> })
        found == Min({ k \in start + 1 .. Len(exca) : exca[k][1] = t \/ exca[k][1] < 0 })
    IN  exca[found][2]

Decoded(act) == IF act = -1 THEN ACCEPTCODE ELSE IF act = 0 THEN ERRCODE ELSE -act

ParserAction(n, t) ==
    IF indgo[n + 1] > yyFlag /\ Act(indgo[n + 1] + Index(t), t) # 0
    THEN Act(indgo[n + 1] + Index(t), t)
    ELSE Decoded(IF defact[n + 1] = -2 THEN Exception(n, t) ELSE defact[n + 1])

ParserGoto(n, A) ==
    IF Act(pgo[A] + n + 1, A) # 0 THEN Act(pgo[A] + n + 1, A) ELSE amem[pgo[A]]
=============================================================================
