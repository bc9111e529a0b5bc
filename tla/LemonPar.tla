------------------------------ MODULE LemonPar ------------------------------
(***************************************************************************)
(* lemon/lempar.c: Parse(), which the caller calls once for each token and *)
(* with 0 at the end, on the tables ReportTable() has written.  An action  *)
(* is a call, or one turn of the loop of Parse().                          *)
(*                                                                         *)
(* The three treatments of syntax errors are chosen by the grammar: with   *)
(* an error symbol, without it, and with YYNOERRORRECOVERY defined.        *)
(* %stack_size 0 means a stack that grows; with another size it does not.  *)
(* Semantic values and destructors are left out.                           *)
(***************************************************************************)
EXTENDS Integers, Sequences, FiniteSets, SequencesExt

CONSTANTS
    MaxTokens,      \* bound on the calls of Parse() before that with 0
    StackIncrement, \* 100: yyGrowStack() makes 2 * size + 100 of the size
    MallocFails     \* may malloc() and realloc() fail

VARIABLES
    yy,             \* the tables and numbers, with options; never changed
    pc,             \* "ParseInit", "caller", "Parse" or "assert"
    yystack,        \* yystack .. yytos, of [stateno, major]
    yystksz, yyerrcnt,
    yymajor, yyact, yyerrorhit,
    read,           \* history: the tokens of the calls
    shifted,        \* history: how many were shifted
    errors,         \* history: shifted at the calls of yy_syntax_error()
    outcome         \* history: the calls of the %parse_accept,
                    \* %parse_failure and %stack_overflow code

parVars == << pc, yystack, yystksz, yyerrcnt, yymajor, yyact, yyerrorhit, read, shifted, errors, outcome >>

YYNOCODE == -1
YY_MAX_SHIFT == Cardinality(DOMAIN yy.default) - 1
Entry(q, x) == [stateno |-> q, major |-> x]
Bottom == SubSeq(yystack, 1, 1)

ParInit ==
    /\ pc = "ParseInit"
    /\ yystack = << >> /\ yystksz = 0 /\ yyerrcnt = -1
    /\ yymajor = YYNOCODE /\ yyact = 0 /\ yyerrorhit = FALSE
    /\ read = << >> /\ shifted = 0 /\ errors = << >> /\ outcome = << >>

(* ParseInit(): if there is no memory the stack has the one entry that is
   part of the parser. *)
ParseInit ==
    /\ pc = "ParseInit"
    /\ \/ yy.stacksize > 0 /\ yystksz' = yy.stacksize
       \/ yy.stacksize = 0 /\ yystksz' = StackIncrement
       \/ yy.stacksize = 0 /\ MallocFails /\ yystksz' = 1
    /\ yystack' = << Entry(0, 0) >>
    /\ pc' = "caller"
    /\ UNCHANGED << yyerrcnt, yymajor, yyact, yyerrorhit, read, shifted, errors, outcome >>

(* The caller has the next token t. *)
Call(t) ==
    /\ pc = "caller"
    /\ 0 \notin ToSet(read)
    /\ IF Len(read) < MaxTokens THEN t \in 0 .. yy.ntoken - 1 ELSE t = 0
    /\ read' = Append(read, t)
    /\ yymajor' = t
    /\ yyact' = Last(yystack).stateno
    /\ yyerrorhit' = FALSE
    /\ pc' = "Parse"
    /\ UNCHANGED << yystack, yystksz, yyerrcnt, shifted, errors, outcome >>

-----------------------------------------------------------------------------
(* A lookup gives an action, or AssertFails. *)
AssertFails == -1
IsEntry(k, x) == k \in DOMAIN yy.lookahead /\ yy.lookahead[k] = x

Wildcard(ofst, x, q) ==
    IF yy.wildcard # 0 /\ IsEntry(ofst + yy.wildcard, yy.wildcard) /\ x > 0
    THEN yy.action[ofst + yy.wildcard] ELSE yy.default[q]

(* yy_find_shift_action() *)
yy_find_shift_action(x, q) ==
    IF q > YY_MAX_SHIFT THEN q
    ELSE IF q \notin DOMAIN yy.shift_ofst THEN AssertFails
    ELSE LET ofst == yy.shift_ofst[q]
             f == yy.fallback[x]
         IN  IF ofst < 0 \/ \E t \in 0 .. yy.ntoken - 1 : ofst + t \notin DOMAIN yy.lookahead THEN AssertFails
             ELSE IF IsEntry(ofst + x, x)
                  THEN IF ofst + x \in DOMAIN yy.action THEN yy.action[ofst + x] ELSE AssertFails
             ELSE IF f = 0 THEN Wildcard(ofst, x, q)
             ELSE IF yy.fallback[f] # 0 THEN AssertFails
             ELSE IF IsEntry(ofst + f, f) THEN yy.action[ofst + f]
             ELSE Wildcard(ofst, f, q)

(* yy_find_reduce_action() *)
yy_find_reduce_action(q, x) ==
    IF q \notin DOMAIN yy.reduce_ofst
    THEN IF yy.errorsymbol # 0 THEN yy.default[q] ELSE AssertFails
    ELSE LET k == yy.reduce_ofst[q] + x
         IN  IF k \in DOMAIN yy.action /\ IsEntry(k, x) THEN yy.action[k]
             ELSE IF yy.errorsymbol # 0 THEN yy.default[q] ELSE AssertFails

(* The action for the token, unless an assertion fails. *)
action == yy_find_shift_action(yymajor, yyact)
Turn == pc = "Parse" /\ action # AssertFails

(* Parse() goes on, or returns and forgets its local variables. *)
GoOn(q) == yyact' = q /\ UNCHANGED << pc, yymajor >>
Return == pc' = "caller" /\ yymajor' = YYNOCODE /\ yyact' = 0 /\ yyerrorhit' = FALSE

-----------------------------------------------------------------------------
(* Mutant of Room: a stack of a fixed size may be filled beyond its end. *)
Room_OneMore(n) ==
    \/ n <= yystksz /\ UNCHANGED yystksz
    \/ n > yystksz /\ yy.stacksize = 0 /\ yystksz' = 2 * yystksz + StackIncrement

(* There is room for an entry above n, perhaps after yyGrowStack(). *)
Room(n) ==
    \/ n < yystksz /\ UNCHANGED yystksz
    \/ n >= yystksz /\ yy.stacksize = 0 /\ yystksz' = 2 * yystksz + StackIncrement

(* There is none: yyStackOverflow(). *)
Overflow(n) ==
    /\ n >= yystksz
    /\ yy.stacksize > 0 \/ MallocFails
    /\ yystack' = Bottom
    /\ outcome' = Append(outcome, "overflow")
    /\ UNCHANGED yystksz

(* yy_shift(), onto the given stack: an action above YY_MAX_SHIFT leaves
   its reduction to the next turn. *)
yy_shift(stack, q, x) ==
    \/ /\ Room(Len(stack))
       /\ yystack' = Append(stack, Entry(IF q > YY_MAX_SHIFT THEN q + yy.min_reduce - yy.min_shiftreduce ELSE q, x))
       /\ UNCHANGED outcome
    \/ Overflow(Len(stack))

Shift ==
    /\ Turn
    /\ action <= yy.max_shiftreduce
    /\ yy_shift(yystack, action, yymajor)
    /\ yyerrcnt' = IF yy.norecovery THEN yyerrcnt ELSE yyerrcnt - 1
    /\ shifted' = shifted + 1
    /\ Return
    /\ UNCHANGED << read, errors >>

(* yy_reduce(): the goto is looked up, and pushed with the left-hand side. *)
rule == yy.rule[action - yy.min_reduce]
Popped == SubSeq(yystack, 1, Len(yystack) - rule.nrhs)
goto == yy_find_reduce_action(Last(Popped).stateno, rule.lhs)
IsGoto == goto \notin {AssertFails, yy.error} \cup YY_MAX_SHIFT + 1 .. yy.max_shiftreduce

Reduce ==
    /\ Turn
    /\ action >= yy.min_reduce
    /\ \/ /\ IF rule.nrhs = 0 THEN Room(Len(yystack)) ELSE UNCHANGED yystksz
          /\ IsGoto
          /\ yystack' = Append(Popped, Entry(goto, rule.lhs))
          /\ GoOn(goto)
          /\ UNCHANGED << yyerrorhit, outcome >>
       \/ rule.nrhs = 0 /\ Overflow(Len(yystack)) /\ Return
    /\ UNCHANGED << yyerrcnt, read, shifted, errors >>

(* yy_accept(): the start symbol, with this action as its state, is popped. *)
Accept ==
    /\ Turn
    /\ action = yy.accept
    /\ Len(yystack) = 2
    /\ yystack' = Front(yystack)
    /\ yyerrcnt' = -1
    /\ outcome' = Append(outcome, "accept")
    /\ Return
    /\ UNCHANGED << yystksz, read, shifted, errors >>

-----------------------------------------------------------------------------
IsError == Turn /\ action = yy.error
SyntaxError(quiet) == errors' = IF quiet THEN errors ELSE Append(errors, shifted)

(* yy_parse_failed() *)
Failed == yystack' = Bottom /\ outcome' = Append(outcome, "failure")

(* YYNOERRORRECOVERY: nothing but the report. *)
OnlyReport ==
    /\ IsError
    /\ yy.errorsymbol = 0
    /\ yy.norecovery
    /\ SyntaxError(FALSE)
    /\ Return
    /\ UNCHANGED << yystack, yystksz, yyerrcnt, read, shifted, outcome >>

(* Without an error symbol: the token is thrown away; $ is the end. *)
Discard ==
    /\ IsError
    /\ yy.errorsymbol = 0
    /\ ~yy.norecovery
    /\ SyntaxError(yyerrcnt > 0)
    /\ IF yymajor = 0 THEN Failed /\ yyerrcnt' = -1
       ELSE yyerrcnt' = 3 /\ UNCHANGED << yystack, outcome >>
    /\ Return
    /\ UNCHANGED << yystksz, read, shifted >>

(* Mutant of NoProgress: the token is not thrown away in the second error. *)
NoProgress_FirstTime == Last(yystack).major = yy.errorsymbol /\ ~yyerrorhit
NoProgress == Last(yystack).major = yy.errorsymbol \/ yyerrorhit

(* With an error symbol, if it has been shifted already: the same. *)
DiscardInRecovery ==
    /\ IsError
    /\ yy.errorsymbol # 0
    /\ NoProgress
    /\ SyntaxError(yyerrcnt >= 0)
    /\ yyerrcnt' = 3
    /\ Return
    /\ UNCHANGED << yystack, yystksz, read, shifted, outcome >>

(* The states that shift the error symbol; the loop ends above the first
   entry of the stack. *)
OnErrorsymbol(q) == yy_find_reduce_action(q, yy.errorsymbol)
Handlers == { k \in 2 .. Len(yystack) : OnErrorsymbol(yystack[k].stateno) <= yy.max_shiftreduce }

(* Otherwise the stack is popped to such a state, and the token is tried
   again behind the error symbol. *)
Recover ==
    /\ IsError
    /\ yy.errorsymbol # 0
    /\ ~NoProgress
    /\ SyntaxError(yyerrcnt >= 0)
    /\ yyerrcnt' = 3
    /\ \/ /\ Handlers = {} \/ yymajor = 0
          /\ Failed
          /\ Return
          /\ UNCHANGED yystksz
       \/ /\ Handlers # {} /\ yymajor # 0
          /\ LET k == CHOOSE k \in Handlers : \A l \in Handlers : l <= k
             IN  yy_shift(SubSeq(yystack, 1, k), OnErrorsymbol(yystack[k].stateno), yy.errorsymbol)
          /\ yyerrorhit' = TRUE
          /\ GoOn(Last(yystack').stateno)
    /\ UNCHANGED << read, shifted >>

(* An assert() stops the program. *)
AssertionFails ==
    /\ pc = "Parse"
    /\ \/ action \in { AssertFails, yy.accept + 1 }
       \/ Turn /\ action >= yy.min_reduce /\ ~IsGoto
       \/ Turn /\ action = yy.accept /\ Len(yystack) # 2
    /\ pc' = "assert"
    /\ UNCHANGED << yystack, yystksz, yyerrcnt, yymajor, yyact, yyerrorhit, read, shifted, errors, outcome >>

ParNext ==
    \/ ParseInit
    \/ \E t \in 0 .. yy.ntoken - 1 : Call(t)
    \/ Shift \/ Reduce \/ Accept \/ OnlyReport \/ Discard \/ DiscardInRecovery \/ Recover \/ AssertionFails
=============================================================================
