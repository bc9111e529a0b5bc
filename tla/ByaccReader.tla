----------------------------- MODULE ByaccReader -----------------------------
(***************************************************************************)
(* byacc/reader.c and symtab.c: from the grammar file to the tables the    *)
(* generator works on.                                                     *)
(*                                                                         *)
(* The reader appends to its arrays while it scans, so it only knows that  *)
(* an action was in the middle of a rule when the next symbol arrives:     *)
(* insert_empty_rule() then makes a variable $$n with an empty rule,       *)
(* gives it the number of the rule being read and moves that rule to the   *)
(* next number.  The label of the action's code is already written.        *)
(*                                                                         *)
(* The scanner is abstracted to the pieces it hands to the reader; an      *)
(* action of this module is the handling of one piece.  Tags, arguments    *)
(* of variables (btyacc) and the text of actions are left out.             *)
(***************************************************************************)
EXTENDS Integers, Sequences, FiniteSets, SequencesExt, TLC

CONSTANTS
    Identifiers,    \* names the file uses, "error" included
    Literals,       \* character tokens the file uses
    CharValue,      \* their character codes
    Declarations,   \* possible %token, %left, ... lines: [assoc, toks]
    Options,        \* settings of -u and -z: [ignore_prec_flag, lemon_prec_flag]
    MaxDeclarations, MaxPieces   \* bounds on the length of the file

Names == Identifiers \cup Literals
NULL == ""
UNDEFINED == -1

VARIABLES
    option,
    section,    \* "declarations", "rules", "done" or "fatal"
    symbols,    \* the list from first_symbol: names in order of creation
    bucket,     \* name |-> [class, value, prec, assoc]
    goal, prec,
    nrules, plhs, rprec, rassoc,    \* rule number |-> name, precedence, assoc
    pitem,      \* pitem[4..nitems-1]
    last_was_action, gensym,
    cases,      \* history: the k-th action of the file was labelled cases[k]
    written,    \* history: the rules as they are written in the file
    left,       \* pieces and declarations the file may still have
    packed      \* what pack_symbols() and pack_grammar() leave

symbolVars == << symbols, bucket, goal >>
ruleVars == << nrules, plhs, rprec, rassoc, pitem, last_was_action, gensym, cases, written >>
vars == << option, section, symbolVars, prec, ruleVars, left, packed >>

-----------------------------------------------------------------------------
(* make_bucket() and lookup(): a name not yet known gets a bucket at the
   end of the list; get_literal() also makes it a token. *)
Fresh == [class |-> "UNKNOWN", value |-> UNDEFINED, prec |-> 0, assoc |-> "TOKEN"]

Lookup(sy, x) == IF \E k \in DOMAIN sy : sy[k] = x THEN sy ELSE Append(sy, x)
Get(bu, x) ==
    LET b == IF x \in DOMAIN bu THEN bu[x] ELSE Fresh
        c == IF x \in Literals
             THEN [b EXCEPT !.class = "TERM",
                            !.value = IF @ = UNDEFINED THEN CharValue[x] ELSE @]
             ELSE b
    IN  (x :> c) @@ bu

IsTerm(bu, x) == bu[x].class = "TERM"

(* What the file says, next to what the reader makes of it. *)
Written(lhs) == Append(written, [lhs |-> lhs, rhs |-> << >>, prec |-> NULL])
WriteSymbol(x) == [written EXCEPT ![Len(written)].rhs = Append(@, [kind |-> "symbol", of |-> x])]
WriteAction == [written EXCEPT ![Len(written)].rhs =
                    Append(@, [kind |-> "action", of |-> Len(cases) + 1])]

-----------------------------------------------------------------------------
(* create_symbol_table() and initialize_grammar() *)
Init ==
    /\ option \in Options
    /\ section = "declarations"
    /\ symbols = << "error" >>
    /\ bucket = "error" :> [Fresh EXCEPT !.class = "TERM"]
    /\ goal = NULL
    /\ prec = 0
    /\ nrules = 3
    /\ plhs = << >> /\ rprec = << >> /\ rassoc = << >>
    /\ pitem = << >>
    /\ last_was_action = FALSE
    /\ gensym = 0
    /\ cases = << >>
    /\ written = << >>
    /\ left = [declarations |-> MaxDeclarations, pieces |-> MaxPieces]
    /\ packed = << >>

Spend(kind) == left[kind] > 0 /\ left' = [left EXCEPT ![kind] = @ - 1]

Fatal == section' = "fatal" /\ UNCHANGED << option, symbolVars, prec, ruleVars, packed >>

(* declare_tokens(assoc): a new level, unless it is %token; ignored with -u. *)
DeclareToken(bu, assoc, level, tok) ==
    LET b == Get(bu, tok.name)[tok.name]
        c == [b EXCEPT !.class = "TERM",
                       !.value = IF tok.value # UNDEFINED THEN tok.value ELSE @]
        d == IF assoc = "TOKEN" \/ option.ignore_prec_flag THEN c
             ELSE [c EXCEPT !.prec = level, !.assoc = assoc]
    IN  (tok.name :> d) @@ bu

DeclareTokens(decl) ==
    LET level == IF decl.assoc = "TOKEN" THEN prec ELSE prec + 1
    IN  /\ section = "declarations"
        /\ Spend("declarations")
        /\ IF \E k \in DOMAIN decl.toks : decl.toks[k].name = goal
           THEN Fatal                           \* tokenized_start()
           ELSE /\ prec' = level
                /\ symbols' = FoldLeft(LAMBDA sy, t : Lookup(sy, t.name), symbols, decl.toks)
                /\ bucket' = FoldLeft(LAMBDA bu, t : DeclareToken(bu, decl.assoc, level, t),
                                      bucket, decl.toks)
                /\ UNCHANGED << option, section, goal, ruleVars, packed >>

DeclareStart(x) ==
    /\ section = "declarations"
    /\ Spend("declarations")
    /\ LET bu == Get(bucket, x)
       IN  IF IsTerm(bu, x) THEN Fatal          \* terminal_start()
           ELSE /\ symbols' = Lookup(symbols, x)
                /\ bucket' = bu
                /\ goal' = x
                /\ UNCHANGED << option, section, prec, ruleVars, packed >>

(* start_rule() *)
StartRule(n, bu, x) ==
    /\ bucket' = [bu EXCEPT ![x].class = "NONTERM"]
    /\ plhs' = (n :> x) @@ plhs
    /\ rprec' = (n :> UNDEFINED) @@ rprec
    /\ rassoc' = (n :> "TOKEN") @@ rassoc
    /\ written' = Written(x)

(* The %% and advance_to_start(): the first left-hand side is the goal,
   unless %start named another. *)
AdvanceToStart(x) ==
    /\ section = "declarations"
    /\ LET bu == Get(bucket, x)
       IN  IF IsTerm(bu, x) THEN Fatal          \* terminal_start() or terminal_lhs()
           ELSE /\ section' = "rules"
                /\ symbols' = Lookup(symbols, x)
                /\ goal' = IF goal = NULL THEN x ELSE goal
                /\ StartRule(nrules, bu, x)
                /\ UNCHANGED << option, prec, nrules, pitem, last_was_action, gensym, cases, packed >>
    /\ UNCHANGED left

(* insert_empty_rule(), when an action turns out not to be the last piece. *)
GenSym == "$$" \o ToString(gensym + 1)

(* Mutants of InsertEmptyRule: precedence and associativity are not moved;
   the empty rule does not end before the rule being read. *)
InsertEmptyRule_PrecStays(extra) ==
    /\ gensym' = gensym + 1
    /\ nrules' = nrules + 1
    /\ plhs' = (nrules :> GenSym) @@ ((nrules + 1) :> plhs[nrules]) @@ plhs
    /\ rprec' = ((nrules + 1) :> UNDEFINED) @@ rprec
    /\ rassoc' = ((nrules + 1) :> "TOKEN") @@ rassoc
    /\ pitem' = LET start == CHOOSE k \in 0 .. Len(pitem) :
                                /\ k = 0 \/ pitem[k] = NULL
                                /\ \A j \in k + 1 .. Len(pitem) : pitem[j] # NULL
                IN  SubSeq(pitem, 1, start) \o << NULL >> \o SubSeq(pitem, start + 1, Len(pitem))
                    \o << GenSym >> \o extra

InsertEmptyRule_Behind(extra) ==
    /\ gensym' = gensym + 1
    /\ nrules' = nrules + 1
    /\ plhs' = (nrules :> GenSym) @@ ((nrules + 1) :> plhs[nrules]) @@ plhs
    /\ rprec' = (nrules :> 0) @@ ((nrules + 1) :> rprec[nrules]) @@ rprec
    /\ rassoc' = (nrules :> "TOKEN") @@ ((nrules + 1) :> rassoc[nrules]) @@ rassoc
    /\ pitem' = pitem \o << NULL, GenSym >> \o extra

(* The item is put in front of nothing: it follows what was read so far. *)
InsertEmptyRule(extra) ==
    /\ gensym' = gensym + 1
    /\ nrules' = nrules + 1
    /\ plhs' = (nrules :> GenSym) @@ ((nrules + 1) :> plhs[nrules]) @@ plhs
    /\ rprec' = (nrules :> 0) @@ ((nrules + 1) :> rprec[nrules]) @@ rprec
    /\ rassoc' = (nrules :> "TOKEN") @@ ((nrules + 1) :> rassoc[nrules]) @@ rassoc
    /\ pitem' = LET start == CHOOSE k \in 0 .. Len(pitem) :
                                /\ k = 0 \/ pitem[k] = NULL
                                /\ \A j \in k + 1 .. Len(pitem) : pitem[j] # NULL
                IN  SubSeq(pitem, 1, start) \o << NULL >> \o SubSeq(pitem, start + 1, Len(pitem))
                    \o << GenSym >> \o extra

(* add_symbol(), the symbol being part of the right-hand side *)
AddSymbol(x) ==
    /\ section = "rules"
    /\ Spend("pieces")
    /\ LET sy == Lookup(symbols, x)
           bu == Get(bucket, x)
       IN  IF last_was_action
           THEN /\ InsertEmptyRule(<< x >>)
                /\ symbols' = Append(sy, GenSym)
                /\ bucket' = (GenSym :> [Fresh EXCEPT !.class = "ACTION"]) @@ bu
           ELSE /\ pitem' = Append(pitem, x)
                /\ symbols' = sy
                /\ bucket' = bu
                /\ UNCHANGED << gensym, nrules, plhs, rprec, rassoc >>
    /\ last_was_action' = FALSE
    /\ written' = WriteSymbol(x)
    /\ UNCHANGED << option, section, goal, prec, cases, packed >>

(* end_rule() *)
EndRule ==
    /\ last_was_action' = FALSE
    /\ pitem' = Append(pitem, NULL)
    /\ nrules' = nrules + 1

(* add_symbol(), the symbol being followed by a colon *)
NewRule(x) ==
    /\ section = "rules"
    /\ Spend("pieces")
    /\ LET bu == Get(bucket, x)
       IN  IF IsTerm(bu, x) THEN Fatal          \* terminal_lhs()
           ELSE /\ EndRule
                /\ StartRule(nrules + 1, bu, x)
                /\ symbols' = Lookup(symbols, x)
                /\ UNCHANGED << option, section, goal, prec, gensym, cases, packed >>

(* | : another rule with the left-hand side of the one just ended *)
Alternative ==
    /\ section = "rules"
    /\ Spend("pieces")
    /\ EndRule
    /\ StartRule(nrules + 1, bucket, plhs[nrules])
    /\ UNCHANGED << option, section, symbols, goal, prec, gensym, cases, packed >>

(* Mutant of CopyAction: the label is the number before the empty rule. *)
CopyAction_EarlyLabel ==
    /\ section = "rules"
    /\ Spend("pieces")
    /\ IF last_was_action
       THEN /\ InsertEmptyRule(<< >>)
            /\ symbols' = Append(symbols, GenSym)
            /\ bucket' = (GenSym :> [Fresh EXCEPT !.class = "ACTION"]) @@ bucket
       ELSE UNCHANGED << gensym, nrules, plhs, rprec, rassoc, pitem, symbols, bucket >>
    /\ last_was_action' = TRUE
    /\ cases' = Append(cases, nrules)
    /\ written' = WriteAction
    /\ UNCHANGED << option, section, goal, prec, packed >>

(* copy_action(): the label is the number the rule has now. *)
CopyAction ==
    /\ section = "rules"
    /\ Spend("pieces")
    /\ IF last_was_action
       THEN /\ InsertEmptyRule(<< >>)
            /\ symbols' = Append(symbols, GenSym)
            /\ bucket' = (GenSym :> [Fresh EXCEPT !.class = "ACTION"]) @@ bucket
       ELSE UNCHANGED << gensym, nrules, plhs, rprec, rassoc, pitem, symbols, bucket >>
    /\ last_was_action' = TRUE
    /\ cases' = Append(cases, nrules')
    /\ written' = WriteAction
    /\ UNCHANGED << option, section, goal, prec, packed >>

(* mark_symbol(): %prec x; ignored with -u *)
MarkSymbol(x) ==
    /\ section = "rules"
    /\ Spend("pieces")
    /\ symbols' = Lookup(symbols, x)
    /\ bucket' = Get(bucket, x)
    /\ IF option.ignore_prec_flag THEN UNCHANGED << rprec, rassoc >>
       ELSE /\ rprec' = [rprec EXCEPT ![nrules] = bucket'[x].prec]
            /\ rassoc' = [rassoc EXCEPT ![nrules] = bucket'[x].assoc]
    /\ written' = [written EXCEPT ![Len(written)].prec = x]
    /\ UNCHANGED << option, section, goal, prec, nrules, plhs, pitem, last_was_action,
                    gensym, cases, packed >>

-----------------------------------------------------------------------------
(* check_symbols(): what is still unknown becomes a token. *)
Checked(bu) == [x \in DOMAIN bu |-> IF bu[x].class = "UNKNOWN" THEN [bu[x] EXCEPT !.class = "TERM"] ELSE bu[x]]

(* pack_symbols(): tokens 1 .. ntokens - 1 in the order of the list; then
   $accept, the goal and the other variables. *)
Tokens(bu) == SelectSeq(symbols, LAMBDA x : IsTerm(bu, x))
Variables(bu) == << goal >> \o SelectSeq(symbols, LAMBDA x : ~IsTerm(bu, x) /\ x # goal)

Index(bu, x) ==
    IF IsTerm(bu, x) THEN CHOOSE k \in DOMAIN Tokens(bu) : Tokens(bu)[k] = x
    ELSE Len(Tokens(bu)) + 1 + CHOOSE k \in DOMAIN Variables(bu) : Variables(bu)[k] = x

(* Mutant of SymbolValues: numbers the file has taken are not skipped. *)
SymbolValues_NoSkip(bu) ==
    LET toks == Tokens(bu)
        step(acc, x) ==
            IF bu[x].value # UNDEFINED THEN [acc EXCEPT !.value = Append(@, bu[x].value)]
            ELSE [n |-> acc.n + 1, value |-> Append(acc.value, acc.n)]
        error == IF bu["error"].value = UNDEFINED THEN 256 ELSE bu["error"].value
    IN  << error >> \o FoldLeft(step, [n |-> 257, value |-> << >>], Tail(toks)).value

(* The numbers yylex() returns: 256 for error and, from 257 on, what no
   token was declared with. *)
SymbolValues(bu) ==
    LET toks == Tokens(bu)
        taken == { bu[toks[k]].value : k \in DOMAIN toks }
        step(acc, x) ==
            IF bu[x].value # UNDEFINED THEN [acc EXCEPT !.value = Append(@, bu[x].value)]
            ELSE LET n == CHOOSE m \in acc.n .. acc.n + Len(toks) :
                              m \notin taken /\ \A l \in acc.n .. m - 1 : l \in taken
                 IN  [n |-> n + 1, value |-> Append(acc.value, n)]
        error == IF bu["error"].value = UNDEFINED THEN 256 ELSE bu["error"].value
    IN  << error >> \o FoldLeft(step, [n |-> 257, value |-> << >>], Tail(toks)).value

(* pack_grammar(): a rule without %prec takes the precedence of its last
   token or, with -z, of its first token that has one. *)
PackPrec(lemon_prec_flag, toks) ==
    FoldLeft(LAMBDA acc, b : IF acc.prec = 0 \/ ~lemon_prec_flag
                             THEN [prec |-> b.prec, assoc |-> b.assoc] ELSE acc,
             [prec |-> 0, assoc |-> "TOKEN"], toks)

Items(items, k) ==   \* the k-th right-hand side in pitem
    LET ends == SelectSeq([j \in DOMAIN items |-> j], LAMBDA j : items[j] = NULL)
    IN  SubSeq(items, IF k = 1 THEN 1 ELSE ends[k - 1] + 1, ends[k] - 1)

Pack(bu, items, n) ==
    LET toks == Tokens(bu)
        rhs(r) == Items(items, r - 2)
        derived(r) == PackPrec(option.lemon_prec_flag,
                          LET ts == SelectSeq(rhs(r), LAMBDA x : IsTerm(bu, x))
                          IN  [k \in DOMAIN ts |-> bu[ts[k]]])
    IN  [ntokens |-> Len(toks) + 1,
         nsyms |-> Len(symbols) + 2,
         top |-> 2,
         value |-> SymbolValues(bu),
         rules |-> [r \in 2 .. n - 1 |->
             IF r = 2 THEN [lhs |-> Len(toks) + 1, rhs |-> << Index(bu, goal), 0 >>]
             ELSE [lhs |-> Index(bu, plhs[r]),
                   rhs |-> [k \in DOMAIN rhs(r) |-> Index(bu, rhs(r)[k])]]],
         rprec |-> [r \in 3 .. n - 1 |-> IF rprec[r] = UNDEFINED THEN derived(r).prec ELSE rprec[r]],
         rassoc |-> [r \in 3 .. n - 1 |-> IF rprec[r] = UNDEFINED THEN derived(r).assoc ELSE rassoc[r]]]

(* The end of read_grammar(): end_rule(), check_symbols() and the packing. *)
LeaveLoop ==
    IF bucket[goal].class = "UNKNOWN"                   \* undefined_goal()
    THEN /\ section' = "fatal"
         /\ UNCHANGED << option, symbolVars, prec, ruleVars, packed >>
    ELSE /\ EndRule
         /\ section' = "done"
         /\ bucket' = Checked(bucket)
         /\ packed' = Pack(bucket', pitem', nrules')
         /\ UNCHANGED << option, symbols, goal, prec, plhs, rprec, rassoc, gensym, cases, written >>

(* The end of the file, or the second %%. *)
EndOfGrammar ==
    /\ section = "rules"
    /\ LeaveLoop
    /\ UNCHANGED left

(* mark_symbol(): for %empty it returns 1, as it does for %%, and the loop
   is left whatever the file has after it. *)
MarkEmpty ==
    /\ section = "rules"
    /\ Spend("pieces")
    /\ LeaveLoop

Next ==
    \/ \E decl \in Declarations : DeclareTokens(decl)
    \/ \E x \in Names \ Literals : DeclareStart(x) \/ AdvanceToStart(x)
    \/ \E x \in Names : AddSymbol(x) \/ NewRule(x) \/ MarkSymbol(x)
    \/ Alternative
    \/ CopyAction
    \/ EndOfGrammar
    \/ MarkEmpty

Spec == Init /\ [][Next]_vars

-----------------------------------------------------------------------------
(* The number a written rule was packed with: the rules of $$n variables
   are left out. *)
UserRules == { r \in 3 .. nrules - 1 : bucket[plhs[r]].class # "ACTION" }
RuleOf(w) == CHOOSE r \in UserRules : Cardinality({ s \in UserRules : s <= r }) = w

IsLast(w, k) == k = Len(written[w].rhs)

(* The symbols packed for written rule w, were the file's symbols and the
   empty rules of its mid-rule actions all that is there. *)
Expected(w) ==
    LET pieces == SelectSeq([k \in DOMAIN written[w].rhs |-> k],
                      LAMBDA k : ~(written[w].rhs[k].kind = "action" /\ IsLast(w, k)))
    IN  [k \in DOMAIN pieces |->
            LET p == written[w].rhs[pieces[k]]
            IN  IF p.kind = "symbol" THEN Index(bucket, p.of)
                ELSE packed.rules[cases[p.of]].lhs]

(***************************************************************************)
(* The packed rules are the written ones, in order, each with its symbols  *)
(* in order and with an empty rule of its own in the place of every        *)
(* mid-rule action, although rules change their numbers and items move     *)
(* while the file is read.                                                 *)
(***************************************************************************)
RulesAsWritten ==
    section = "done" =>
        /\ Cardinality(UserRules) = Len(written)
        /\ \A w \in DOMAIN written :
              LET r == packed.rules[RuleOf(w)]
              IN  r.lhs = Index(bucket, written[w].lhs) /\ r.rhs = Expected(w)

(***************************************************************************)
(* The code of an action is labelled with the rule at whose reduction it   *)
(* must run: the rule itself for a final action, and for one in the middle *)
(* an empty rule that no other action has.                                 *)
(***************************************************************************)
ActionsLabelled ==
    section = "done" =>
        \A w \in DOMAIN written : \A k \in DOMAIN written[w].rhs :
            LET p == written[w].rhs[k]
            IN  p.kind = "action" =>
                    IF IsLast(w, k) THEN cases[p.of] = RuleOf(w)
                    ELSE /\ cases[p.of] \in (3 .. nrules - 1) \ UserRules
                         /\ packed.rules[cases[p.of]].rhs = << >>
                         /\ \A j \in DOMAIN cases : cases[j] = cases[p.of] => j = p.of

(***************************************************************************)
(* %prec keeps its effect when its rule changes its number afterwards, and *)
(* a rule without it has the precedence of a token that is in it.          *)
(***************************************************************************)
PrecedenceOfRules ==
    section = "done" =>
        \A w \in DOMAIN written :
            LET r == RuleOf(w)
                toks == { x \in { written[w].rhs[k].of : k \in { j \in DOMAIN written[w].rhs :
                                       written[w].rhs[j].kind = "symbol" } } : IsTerm(bucket, x) }
            IN  IF written[w].prec # NULL /\ ~option.ignore_prec_flag
                THEN packed.rprec[r] = bucket[written[w].prec].prec
                ELSE /\ \E x \in toks \cup {NULL} :
                           packed.rprec[r] = IF x = NULL THEN 0 ELSE bucket[x].prec
                     /\ packed.rprec[r] = 0 /\ option.lemon_prec_flag =>
                           \A x \in toks : bucket[x].prec = 0

(***************************************************************************)
(* No token that was not given a number by the file gets one that another  *)
(* token has, whatever numbers above 256 the file has taken.               *)
(***************************************************************************)
NumbersDistinct ==
    section = "done" =>
        \A k, l \in DOMAIN packed.value :
            /\ k # l
            /\ bucket[Tokens(bucket)[k]].value = UNDEFINED
            /\ k > 1
            => packed.value[k] # packed.value[l]
=============================================================================
