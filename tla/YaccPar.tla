------------------------------- MODULE YaccPar -------------------------------
(***************************************************************************)
(* byacc/yaccpar.skel: yyparse(), the parser byacc generates without -B,   *)
(* running on the tables of output.c.  An action of this module is the     *)
(* code from one label, or one test, to the next goto.                     *)
(*                                                                         *)
(* yylex() and the user's actions are the environment: the first returns   *)
(* any token until it returns 0, the second end in any way that            *)
(* ActionOutcomes has.  Semantic values are left out.                      *)
(***************************************************************************)
EXTENDS Integers, Sequences, SequencesExt

CONSTANTS
    YYMAXDEPTH, YYINITSTACKSIZE,
    ActionOutcomes, \* a subset of {"done", "YYERROR", "YYABORT", "YYACCEPT"}
    MallocFails,    \* may realloc() fail
    OtherTokens,    \* values yylex() may return that no token has
    MaxTokens,      \* bound on the tokens yylex() returns
    MaxErrors       \* bound on yynerrs for the YYERRORs of actions

VARIABLES
    tables,         \* yydefred, yysindex, ...: what output.c wrote; never changed
    pc,             \* the label reached
    yystack,        \* s_base .. s_mark
    stacksize,
    yychar, yyerrflag, yynerrs,
    yyn,            \* the rule to reduce, at yyreduce
    read,           \* history: what yylex() returned
    shifted,        \* history: the tokens shifted
    errors,         \* history: Len(shifted) at the syntax errors reported
    jumped          \* history: an action has left by one of the macros

parserVars == << pc, yystack, stacksize, yychar, yyerrflag, yynerrs, yyn,
                 read, shifted, errors, jumped >>

YYEMPTY == -1
YYEOF == 0
yystate == Last(yystack)

(* yyn = index[state]; yyn != 0, yyn + c in the table and checked. *)
Found(index, c) == index # 0 /\ index + c \in 0 .. tables.YYTABLESIZE /\ tables.check[index + c] = c
At(index, c) == tables.table[index + c]

-----------------------------------------------------------------------------
(* Mutant of Larger: YYMAXDEPTH does not bound the doubling. *)
Larger_Unbounded == stacksize * 2

(* yygrowstack(): the outcomes of a push of state q that goes on to next. *)
Larger == IF stacksize * 2 > YYMAXDEPTH THEN YYMAXDEPTH ELSE stacksize * 2

Push(stack, q, next) ==
    IF Len(stack) < stacksize
    THEN yystack' = Append(stack, q) /\ pc' = next /\ UNCHANGED stacksize
    ELSE \/ /\ stacksize < YYMAXDEPTH
            /\ stacksize' = Larger
            /\ yystack' = Append(stack, q)
            /\ pc' = next
         \/ /\ stacksize >= YYMAXDEPTH \/ MallocFails
            /\ yystack' = stack
            /\ pc' = "yyoverflow"
            /\ UNCHANGED stacksize

Init ==
    /\ pc = "yyparse"
    /\ yystack = << >>
    /\ stacksize = 0
    /\ yychar = YYEMPTY
    /\ yyerrflag = 0
    /\ yynerrs = 0
    /\ yyn = 0
    /\ read = << >> /\ shifted = << >> /\ errors = << >> /\ jumped = FALSE

(* yyparse(), up to yyloop: the stack is allocated. *)
StartParser ==
    /\ pc = "yyparse"
    /\ \/ /\ stacksize' = YYINITSTACKSIZE
          /\ yystack' = << 0 >>
          /\ pc' = "yyloop"
       \/ /\ MallocFails
          /\ pc' = "yyoverflow"
          /\ UNCHANGED << yystack, stacksize >>
    /\ UNCHANGED << yychar, yyerrflag, yynerrs, yyn, read, shifted, errors, jumped >>

(* yychar = YYLEX *)
Tokens == tables.tokens \cup OtherTokens \cup {YYEOF}
NextToken(c) ==
    /\ Len(read) >= MaxTokens => c = YYEOF
    /\ yychar' = c
    /\ read' = Append(read, c)

DefaultReduce ==
    /\ pc = "yyloop"
    /\ tables.defred[yystate] # 0
    /\ pc' = "yyreduce"
    /\ yyn' = tables.defred[yystate]
    /\ UNCHANGED << yystack, stacksize, yychar, yyerrflag, yynerrs, read, shifted, errors, jumped >>

Lex ==
    /\ pc = "yyloop"
    /\ tables.defred[yystate] = 0
    /\ yychar < 0
    /\ \E c \in Tokens : NextToken(c)
    /\ UNCHANGED << pc, yystack, stacksize, yyerrflag, yynerrs, yyn, shifted, errors, jumped >>

Ready == pc = "yyloop" /\ tables.defred[yystate] = 0 /\ yychar >= 0

Shift ==
    /\ Ready
    /\ Found(tables.sindex[yystate], yychar)
    /\ Push(yystack, At(tables.sindex[yystate], yychar), "yyloop")
    /\ IF pc' = "yyoverflow" THEN UNCHANGED << yychar, yyerrflag, shifted >>
       ELSE /\ yychar' = YYEMPTY
            /\ yyerrflag' = IF yyerrflag > 0 THEN yyerrflag - 1 ELSE 0
            /\ shifted' = Append(shifted, yychar)
    /\ UNCHANGED << yynerrs, yyn, read, errors, jumped >>

Reduce ==
    /\ Ready
    /\ ~Found(tables.sindex[yystate], yychar)
    /\ Found(tables.rindex[yystate], yychar)
    /\ pc' = "yyreduce"
    /\ yyn' = At(tables.rindex[yystate], yychar)
    /\ UNCHANGED << yystack, stacksize, yychar, yyerrflag, yynerrs, read, shifted, errors, jumped >>

(* No action: yyerror() is called unless the parser is recovering. *)
SyntaxError ==
    /\ Ready
    /\ ~Found(tables.sindex[yystate], yychar)
    /\ ~Found(tables.rindex[yystate], yychar)
    /\ IF yyerrflag # 0 THEN UNCHANGED << yynerrs, errors >>
       ELSE yynerrs' = yynerrs + 1 /\ errors' = Append(errors, Len(shifted))
    /\ pc' = "yyinrecovery"
    /\ UNCHANGED << yystack, stacksize, yychar, yyerrflag, yyn, read, shifted, jumped >>

(* Mutant of StartRecovery: two tokens end the recovery. *)
StartRecovery_Short ==
    /\ pc = "yyinrecovery"
    /\ yyerrflag < 3
    /\ yyerrflag' = 2
    /\ pc' = "discard states"
    /\ UNCHANGED << yystack, stacksize, yychar, yynerrs, yyn, read, shifted, errors, jumped >>

StartRecovery ==
    /\ pc = "yyinrecovery"
    /\ yyerrflag < 3
    /\ yyerrflag' = 3
    /\ pc' = "discard states"
    /\ UNCHANGED << yystack, stacksize, yychar, yynerrs, yyn, read, shifted, errors, jumped >>

(* Mutant of DiscardToken: the token is not discarded. *)
DiscardToken_Kept ==
    /\ pc = "yyinrecovery"
    /\ yyerrflag >= 3
    /\ pc' = IF yychar = YYEOF THEN "yyabort" ELSE "yyloop"
    /\ UNCHANGED << yystack, stacksize, yychar, yyerrflag, yynerrs, yyn, read, shifted, errors, jumped >>

DiscardToken ==
    /\ pc = "yyinrecovery"
    /\ yyerrflag >= 3
    /\ IF yychar = YYEOF THEN pc' = "yyabort" /\ UNCHANGED yychar
       ELSE pc' = "yyloop" /\ yychar' = YYEMPTY
    /\ UNCHANGED << yystack, stacksize, yyerrflag, yynerrs, yyn, read, shifted, errors, jumped >>

ShiftError ==
    /\ pc = "discard states"
    /\ Found(tables.sindex[yystate], tables.YYERRCODE)
    /\ Push(yystack, At(tables.sindex[yystate], tables.YYERRCODE), "yyloop")
    /\ UNCHANGED << yychar, yyerrflag, yynerrs, yyn, read, shifted, errors, jumped >>

DiscardState ==
    /\ pc = "discard states"
    /\ ~Found(tables.sindex[yystate], tables.YYERRCODE)
    /\ IF Len(yystack) = 1 THEN pc' = "yyabort" /\ UNCHANGED yystack
       ELSE yystack' = Front(yystack) /\ UNCHANGED pc
    /\ UNCHANGED << stacksize, yychar, yyerrflag, yynerrs, yyn, read, shifted, errors, jumped >>

-----------------------------------------------------------------------------
(* yyreduce, after an action that ends normally. *)
Rest == SubSeq(yystack, 1, Len(yystack) - tables.len[yyn])
(* Mutant of GotoState: looked up from the state on top before the pop. *)
GotoState_OldTop ==
    LET index == tables.gindex[tables.lhs[yyn]]
    IN  IF Found(index, yystate) THEN At(index, yystate) ELSE tables.dgoto[tables.lhs[yyn]]

GotoState ==
    LET s == Last(Rest)
        index == tables.gindex[tables.lhs[yyn]]
    IN  IF Found(index, s) THEN At(index, s) ELSE tables.dgoto[tables.lhs[yyn]]

OfGoal == Last(Rest) = 0 /\ tables.lhs[yyn] = 0

Goto ==
    /\ pc = "yyreduce"
    /\ "done" \in ActionOutcomes
    /\ ~OfGoal
    /\ Push(Rest, GotoState, "yyloop")
    /\ UNCHANGED << yychar, yyerrflag, yynerrs, yyn, read, shifted, errors, jumped >>

(* Mutant of FinalState: accepted whatever follows. *)
FinalState_AnyEnd ==
    /\ pc = "yyreduce"
    /\ "done" \in ActionOutcomes
    /\ OfGoal
    /\ yystack' = Append(Rest, tables.YYFINAL)
    /\ pc' = "yyaccept"
    /\ UNCHANGED << stacksize, yychar, yyerrflag, yynerrs, yyn, read, shifted, errors, jumped >>

(* A reduction to the goal in state 0: the parser looks for the end. *)
FinalState ==
    /\ pc = "yyreduce"
    /\ "done" \in ActionOutcomes
    /\ OfGoal
    /\ yystack' = Append(Rest, tables.YYFINAL)
    /\ IF yychar < 0 THEN \E c \in Tokens : NextToken(c)
       ELSE UNCHANGED << yychar, read >>
    /\ pc' = IF yychar' = YYEOF THEN "yyaccept" ELSE "yyloop"
    /\ UNCHANGED << stacksize, yyerrflag, yynerrs, yyn, shifted, errors, jumped >>

(* YYERROR, YYABORT and YYACCEPT leave the action where it stands: the
   right-hand side is still on the stack. *)
ActionJumps ==
    /\ pc = "yyreduce"
    /\ \/ "YYERROR" \in ActionOutcomes /\ yynerrs < MaxErrors /\ pc' = "yyinrecovery" /\ yynerrs' = yynerrs + 1
       \/ "YYABORT" \in ActionOutcomes /\ pc' = "yyabort" /\ UNCHANGED yynerrs
       \/ "YYACCEPT" \in ActionOutcomes /\ pc' = "yyaccept" /\ UNCHANGED yynerrs
    /\ jumped' = TRUE
    /\ UNCHANGED << yystack, stacksize, yychar, yyerrflag, yyn, read, shifted, errors >>

(* yyerror("yacc stack overflow") *)
Overflow ==
    /\ pc = "yyoverflow"
    /\ pc' = "yyabort"
    /\ UNCHANGED << yystack, stacksize, yychar, yyerrflag, yynerrs, yyn, read, shifted, errors, jumped >>

Next ==
    \/ StartParser \/ DefaultReduce \/ Lex \/ Shift \/ Reduce
    \/ SyntaxError \/ StartRecovery \/ DiscardToken \/ ShiftError \/ DiscardState
    \/ Goto \/ FinalState \/ ActionJumps \/ Overflow

Returned == pc \in {"yyaccept", "yyabort"}
=============================================================================
