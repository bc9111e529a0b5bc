------------------------------ MODULE BtYaccPar ------------------------------
(***************************************************************************)
(* byacc/btyaccpar.c: yyparse() as byacc -B generates it.  Where the       *)
(* tables have rival actions the parser saves its state and tries them one *)
(* after the other without running actions in braces.  The tokens of the   *)
(* trial are queued.  When a trial accepts, the parser goes back to where  *)
(* it began and follows the alternatives that led there.                   *)
(*                                                                         *)
(* Values are modelled here: the value of a token is its position in the   *)
(* input, an action in braces joins the values of its right-hand side.     *)
(***************************************************************************)
EXTENDS YaccPar

CONSTANTS
    YYLVQUEUEGROWTH,
    MaxSaved        \* the saved states there is memory for

VARIABLES
    yyvs,           \* l_base .. l_mark: the values of the states on the stack
    yylval,
    saved,          \* yyps->save and what hangs on it, the latest last
    yypath,         \* the states of the successful trial, the next one first
    queue,          \* yylexemes and yylvals, up to yylve
    lvp,            \* yylvp, yylexp: the tokens of the queue already read
    yylvlim,        \* the entries allocated
    yyerrctx        \* the error farthest ahead, << >> if there is none

btVars == << yyvs, yylval, saved, yypath, queue, lvp, yylvlim, yyerrctx >>
queueVars == << queue, lvp, yylvlim >>
trialVars == << saved, yypath, queue, lvp, yylvlim, yyerrctx >>

Trial == saved # << >>

BtInit ==
    /\ Init
    /\ yyvs = << >> /\ yylval = << >>
    /\ saved = << >> /\ yypath = << >>
    /\ queue = << >> /\ lvp = 0 /\ yylvlim = 0
    /\ yyerrctx = << >>

(* yyNewState(0), then the stacks. *)
BtStart ==
    \/ StartParser /\ yyvs' = [k \in DOMAIN yystack' |-> << >>] /\ UNCHANGED << yylval, trialVars >>
    \/ /\ pc = "yyparse"
       /\ MallocFails
       /\ pc' = "yyenomem"
       /\ UNCHANGED << yystack, stacksize, yychar, yyerrflag, yynerrs, yyn, read, shifted, errors, jumped, btVars >>

-----------------------------------------------------------------------------
(***************************************************************************)
(* The next token: from the queue, or from yylex(), through the queue      *)
(* during a trial.                                                         *)
(***************************************************************************)
Reread ==
    /\ lvp < Len(queue)
    /\ yychar' = queue[lvp + 1].token
    /\ yylval' = queue[lvp + 1].value
    /\ lvp' = lvp + 1
    /\ UNCHANGED << queue, yylvlim, read >>

Fresh(c) == NextToken(c) /\ yylval' = << Len(read) + 1 >>

(* Mutant of Queued: the queue is not enlarged when it is full. *)
Queued_NotEnlarged ==
    /\ lvp = Len(queue)
    /\ Trial
    /\ \E c \in Tokens : Fresh(c) /\ queue' = Append(queue, [token |-> c, value |-> yylval'])
    /\ lvp' = lvp + 1
    /\ UNCHANGED yylvlim

Queued ==
    /\ lvp = Len(queue)
    /\ Trial
    /\ \E c \in Tokens : Fresh(c) /\ queue' = Append(queue, [token |-> c, value |-> yylval'])
    /\ lvp' = lvp + 1
    /\ yylvlim' = IF lvp = yylvlim THEN yylvlim + YYLVQUEUEGROWTH ELSE yylvlim

Unqueued ==
    /\ lvp = Len(queue)
    /\ ~Trial
    /\ \E c \in Tokens : Fresh(c)
    /\ UNCHANGED queueVars

GetToken == Reread \/ Queued \/ Unqueued

CannotEnlarge == MallocFails /\ Trial /\ lvp = Len(queue) /\ lvp = yylvlim

BtLex ==
    /\ pc = "yyloop"
    /\ tables.defred[yystate] = 0
    /\ yychar < 0
    /\ \/ GetToken /\ UNCHANGED pc
       \/ CannotEnlarge /\ pc' = "yyenomem" /\ UNCHANGED << yychar, yylval, read, queueVars >>
    /\ UNCHANGED << yystack, stacksize, yyerrflag, yynerrs, yyn, shifted, errors, jumped,
                    yyvs, saved, yypath, yyerrctx >>

-----------------------------------------------------------------------------
(***************************************************************************)
(* A conflict.  yyctable, numbered from 0, has a shift or -1 where         *)
(* yytable says, then the reductions, then -1.                             *)
(***************************************************************************)
yyctable(ctry) == tables.ctable[ctry + 1]
Conflict == Ready /\ Found(tables.cindex[yystate], yychar)
Entry == At(tables.cindex[yystate], yychar)

Record(ctry, pos) == [stack |-> yystack, vs |-> yyvs, shifted |-> shifted, ctry |-> ctry, lexeme |-> pos]

(* Take alternative ctry, with lookahead c and pos tokens of the queue read. *)
Take(ctry, c, pos) ==
    IF ctry = Entry
    THEN /\ Push(yystack, yyctable(ctry), "yyloop")
         /\ lvp' = IF c >= 0 THEN pos ELSE pos + 1
         /\ IF pc' = "yyoverflow"
            THEN yychar' = c /\ UNCHANGED << yyvs, yyerrflag, shifted >>
            ELSE /\ yyvs' = Append(yyvs, yylval)
                 /\ yychar' = YYEMPTY
                 /\ yyerrflag' = IF yyerrflag > 0 THEN yyerrflag - 1 ELSE 0
                 /\ shifted' = Append(shifted, yychar)
         /\ UNCHANGED yyn
    ELSE /\ pc' = "yyreduce"
         /\ yyn' = yyctable(ctry)
         /\ lvp' = pos
         /\ yychar' = c
         /\ UNCHANGED << yystack, stacksize, yyvs, yyerrflag, shifted >>

(* Mutant of FollowPath: the first alternative again. *)
FollowPath_First ==
    /\ Conflict
    /\ yypath # << >>
    /\ yypath' = Tail(yypath)
    /\ IF Last(Head(yypath).stack) # yystate
       THEN /\ pc' = "yyabort"
            /\ UNCHANGED << yystack, stacksize, yyvs, lvp, yychar, yyerrflag, shifted, yyn >>
       ELSE Take(IF yyctable(Entry) = -1 THEN Entry + 1 ELSE Entry, yychar, lvp)
    /\ UNCHANGED << yynerrs, read, errors, jumped, yylval, saved, queue, yylvlim, yyerrctx >>

(* A trial was successful: its choice is made again. *)
FollowPath ==
    /\ Conflict
    /\ yypath # << >>
    /\ yypath' = Tail(yypath)
    /\ IF Last(Head(yypath).stack) # yystate
       THEN /\ pc' = "yyabort"
            /\ UNCHANGED << yystack, stacksize, yyvs, lvp, yychar, yyerrflag, shifted, yyn >>
       ELSE Take(Head(yypath).ctry, yychar, lvp)
    /\ UNCHANGED << yynerrs, read, errors, jumped, yylval, saved, queue, yylvlim, yyerrctx >>

(* The token is put back: into a new queue if nothing is queued. *)
NewQueue == ~Trial /\ lvp = Len(queue)

StartTrial ==
    /\ Conflict
    /\ yypath = << >>
    /\ Len(saved) < MaxSaved
    /\ LET ctry == IF yyctable(Entry) = -1 THEN Entry + 1 ELSE Entry
           pos == IF NewQueue THEN 0 ELSE lvp - 1
       IN  /\ saved' = Append(saved, Record(ctry, pos))
           /\ queue' = IF NewQueue THEN << [token |-> yychar, value |-> yylval] >> ELSE queue
           /\ yylvlim' = IF ~Trial /\ yylvlim = 0 THEN YYLVQUEUEGROWTH ELSE yylvlim
           /\ Take(ctry, YYEMPTY, pos)
    /\ UNCHANGED << yynerrs, read, errors, jumped, yylval, yypath, yyerrctx >>

(* No room for the state, or for the first queue. *)
CannotSave ==
    /\ Conflict
    /\ yypath = << >>
    /\ MallocFails \/ Len(saved) >= MaxSaved
    /\ pc' = "yyenomem"
    /\ UNCHANGED << yystack, stacksize, yychar, yyerrflag, yynerrs, yyn, read, shifted, errors, jumped, btVars >>

-----------------------------------------------------------------------------
BtShift ==
    /\ ~Conflict
    /\ Shift
    /\ yyvs' = IF pc' = "yyoverflow" THEN yyvs ELSE Append(yyvs, yylval)
    /\ UNCHANGED << yylval, trialVars >>

BtReduce == ~Conflict /\ Reduce /\ UNCHANGED btVars

NoAction ==
    /\ Ready
    /\ ~Conflict
    /\ ~Found(tables.sindex[yystate], yychar)
    /\ ~Found(tables.rindex[yystate], yychar)

(* An error in the tables.  It is the end of a trial only if the parser is
   not recovering. *)
TableError == ~Conflict /\ (~Trial \/ yyerrflag # 0) /\ SyntaxError /\ UNCHANGED btVars

TrialError ==
    /\ NoAction
    /\ Trial /\ yyerrflag = 0
    /\ pc' = "yyerrhandler"
    /\ UNCHANGED << yystack, stacksize, yychar, yyerrflag, yynerrs, yyn, read, shifted, errors, jumped, btVars >>

(* yyerrlab: YYERROR in the action of rule yyn. *)
RestVs == SubSeq(yyvs, 1, Len(yyvs) - tables.len[yyn])
Yyerrlab ==
    /\ yystack' = Rest
    /\ yyvs' = RestVs
    /\ pc' = IF Trial THEN "yyerrhandler" ELSE "yyinrecovery"

-----------------------------------------------------------------------------
(***************************************************************************)
(* yyerrhandler: the latest alternative has failed.  The error farthest    *)
(* ahead is remembered for the case that all do.                           *)
(***************************************************************************)
Farthest ==
    IF yyerrctx = << >> THEN Record(0, lvp)
    ELSE IF yyerrctx[1].lexeme < lvp THEN Record(0, lvp) ELSE yyerrctx[1]

Restore(s) ==
    /\ yystack' = s.stack
    /\ yyvs' = s.vs
    /\ shifted' = s.shifted
    /\ lvp' = s.lexeme

(* "We tried shift, try reduce now" *)
NextAlternative ==
    /\ pc = "yyerrhandler"
    /\ LET save == Last(saved)
           ctry == save.ctry + 1
       IN  /\ yyctable(ctry) >= 0
           /\ Restore(save)
           /\ pc' = "yyreduce"
           /\ yyn' = yyctable(ctry)
           /\ saved' = [saved EXCEPT ![Len(saved)].ctry = ctry]
    /\ yychar' = YYEMPTY
    /\ yyerrctx' = << Farthest >>
    /\ UNCHANGED << stacksize, yyerrflag, yynerrs, read, errors, jumped, yylval, yypath, queue, yylvlim >>

(* None is left here, but at an earlier conflict there may be. *)
Exhausted == pc = "yyerrhandler" /\ yyctable(Last(saved).ctry + 1) < 0

DropConflict ==
    /\ Exhausted
    /\ Len(saved) > 1
    /\ Restore(Last(saved))
    /\ saved' = Front(saved)
    /\ yychar' = YYEMPTY
    /\ yyerrctx' = << Farthest >>
    /\ UNCHANGED << pc, stacksize, yyerrflag, yynerrs, yyn, read, errors, jumped, yylval, yypath, queue, yylvlim >>

(* All have failed: the syntax error is reported where it is farthest
   ahead, on the last token read there.  If none was read, because actions
   have failed everywhere, it is what lies before the queue. *)
TrialFailed ==
    /\ Exhausted
    /\ Len(saved) = 1
    /\ Restore(Farthest)
    /\ IF lvp' > 0 THEN yychar' = queue[lvp'].token /\ yylval' = queue[lvp'].value
       ELSE yychar' \in Tokens \cup {YYEMPTY} /\ yylval' = << >>
    /\ saved' = << >>
    /\ yyerrctx' = << >>
    /\ yynerrs' = yynerrs + 1
    /\ errors' = Append(errors, Len(shifted'))
    /\ pc' = "yyinrecovery"
    /\ UNCHANGED << stacksize, yyerrflag, yyn, read, jumped, yypath, queue, yylvlim >>

(* yyNewState() for the error context *)
CannotRemember ==
    /\ pc = "yyerrhandler"
    /\ MallocFails
    /\ yyerrctx # << Farthest >>
    /\ pc' = "yyenomem"
    /\ UNCHANGED << yystack, stacksize, yychar, yyerrflag, yynerrs, yyn, read, shifted, errors, jumped, btVars >>

-----------------------------------------------------------------------------
(* Error recovery, as without -B, in a trial too. *)
BtRecovery ==
    \/ (StartRecovery \/ DiscardToken) /\ UNCHANGED btVars
    \/ /\ ShiftError
       /\ yyvs' = IF pc' = "yyoverflow" THEN yyvs ELSE Append(yyvs, yylval)
       /\ UNCHANGED << yylval, trialVars >>
    \/ /\ DiscardState
       /\ yyvs' = SubSeq(yyvs, 1, Len(yystack'))
       /\ UNCHANGED << yylval, trialVars >>

-----------------------------------------------------------------------------
(***************************************************************************)
(* yyreduce.  tables.brackets says which rules have an action in brackets, *)
(* and the macro it executes: such an action runs in trials as well.       *)
(***************************************************************************)
MacroOf(r) == IF r \in DOMAIN tables.brackets THEN tables.brackets[r] ELSE "none"
Reducing(macro) == pc = "yyreduce" /\ MacroOf(yyn) = macro

(* $$ = $1 is set before the action, which a trial leaves out. *)
yyval ==
    LET rhs == SubSeq(yyvs, Len(RestVs) + 1, Len(yyvs))
    IN  IF rhs = << >> THEN << >> ELSE IF Trial THEN rhs[1] ELSE FlattenSeq(rhs)

(* YYVALID and YYVALID_NESTED; outside a trial they do nothing. *)
Validates == Trial /\ (Reducing("YYVALID") \/ (Reducing("YYVALID_NESTED") /\ Len(saved) = 1))

BtGoto ==
    /\ ~Reducing("YYERROR") /\ ~Validates
    /\ Goto
    /\ yyvs' = IF pc' = "yyoverflow" THEN RestVs ELSE Append(RestVs, yyval)
    /\ UNCHANGED << yylval, trialVars >>

BtFinalState ==
    /\ ~Reducing("YYERROR") /\ ~Validates
    /\ pc = "yyreduce"
    /\ "done" \in ActionOutcomes
    /\ OfGoal
    /\ yystack' = Append(Rest, tables.YYFINAL)
    /\ yyvs' = Append(RestVs, yyval)
    /\ IF yychar >= 0
       THEN /\ pc' = IF yychar = YYEOF THEN "yyaccept" ELSE "yyloop"
            /\ UNCHANGED << yychar, read, yylval, queueVars >>
       ELSE \/ GetToken /\ pc' = IF yychar' = YYEOF THEN "yyaccept" ELSE "yyloop"
            \/ CannotEnlarge /\ pc' = "yyenomem" /\ UNCHANGED << yychar, read, yylval, queueVars >>
    /\ UNCHANGED << stacksize, yyerrflag, yynerrs, yyn, shifted, errors, jumped, saved, yypath, yyerrctx >>

(* The macros in an action in braces, which a trial does not run. *)
BraceActionJumps ==
    /\ Reducing("none")
    /\ ~Trial /\ ~jumped
    /\ \/ "YYERROR" \in ActionOutcomes /\ Yyerrlab
       \/ "YYABORT" \in ActionOutcomes /\ pc' = "yyabort" /\ UNCHANGED << yystack, yyvs >>
       \/ "YYACCEPT" \in ActionOutcomes /\ pc' = "yyaccept" /\ UNCHANGED << yystack, yyvs >>
    /\ jumped' = TRUE
    /\ UNCHANGED << stacksize, yychar, yyerrflag, yynerrs, yyn, read, shifted, errors, yylval, trialVars >>

(* [YYERROR;] and [YYVALID;] *)
BracketActionFails ==
    /\ Reducing("YYERROR")
    /\ Yyerrlab
    /\ jumped' = (jumped \/ ~Trial)
    /\ UNCHANGED << stacksize, yychar, yyerrflag, yynerrs, yyn, read, shifted, errors, yylval, trialVars >>

BracketActionValidates ==
    /\ Validates
    /\ pc' = "yyvalid"
    /\ UNCHANGED << yystack, stacksize, yychar, yyerrflag, yynerrs, yyn, read, shifted, errors, jumped, btVars >>

(* yyvalid: "Reduction declares that this path is valid. Set yypath and do
   a full parse".  yyaccept in a trial comes here too. *)
AtValid == pc = "yyvalid" \/ (pc = "yyaccept" /\ Trial)

(* Mutant of Valid: the queue is not read again. *)
Valid_QueueStays ==
    /\ AtValid
    /\ yypath = << >>
    /\ pc' = "yyloop"
    /\ yypath' = saved
    /\ saved' = << >>
    /\ yyerrctx' = << >>
    /\ yychar' = YYEMPTY
    /\ yystack' = Head(saved).stack /\ yyvs' = Head(saved).vs /\ shifted' = Head(saved).shifted
    /\ UNCHANGED << stacksize, yyerrflag, yynerrs, yyn, read, errors, jumped, yylval, queue, yylvlim, lvp >>

Valid ==
    /\ AtValid
    /\ IF yypath # << >>
       THEN /\ pc' = "yyabort"
            /\ UNCHANGED << yypath, saved, yyerrctx, yychar, yystack, yyvs, shifted, lvp >>
       ELSE /\ pc' = "yyloop"
            /\ yypath' = saved
            /\ saved' = << >>
            /\ yyerrctx' = << >>
            /\ yychar' = YYEMPTY
            /\ Restore(Head(saved))
    /\ UNCHANGED << stacksize, yyerrflag, yynerrs, yyn, read, errors, jumped, yylval, queue, yylvlim >>

(* yyoverflow, yyenomem *)
NoMemory ==
    /\ pc \in {"yyoverflow", "yyenomem"}
    /\ pc' = "yyabort"
    /\ UNCHANGED << yystack, stacksize, yychar, yyerrflag, yynerrs, yyn, read, shifted, errors, jumped, btVars >>

BtNext ==
    \/ BtStart
    \/ DefaultReduce /\ UNCHANGED btVars
    \/ BtLex
    \/ FollowPath \/ StartTrial \/ CannotSave
    \/ BtShift \/ BtReduce \/ TableError \/ TrialError
    \/ NextAlternative \/ DropConflict \/ TrialFailed \/ CannotRemember
    \/ BtRecovery
    \/ BtGoto \/ BtFinalState
    \/ BraceActionJumps \/ BracketActionFails \/ BracketActionValidates
    \/ Valid \/ NoMemory

(* The parser alone, on tables that do not change. *)
BtSpec == BtInit /\ [][BtNext /\ UNCHANGED tables]_<< tables, parserVars, btVars >>

BtReturned == pc = "yyabort" \/ (pc = "yyaccept" /\ ~Trial)

-----------------------------------------------------------------------------
(***************************************************************************)
(* The queue of tokens stays in what was allocated, and everything that    *)
(* points into it does: the position of the parser, and those of the saved *)
(* states and of the path, which are in order.  They may be before its     *)
(* begin only if an [action] executes YYERROR, which fails a trial before  *)
(* it has read a token.                                                    *)
(***************************************************************************)
NoVeto == \A r \in DOMAIN tables.brackets : tables.brackets[r] # "YYERROR"

QueueInBounds ==
    /\ lvp <= Len(queue) /\ Len(queue) <= yylvlim
    /\ \A k \in DOMAIN saved : saved[k].lexeme < Len(queue)
    /\ \A k \in DOMAIN saved : k > 1 => saved[k - 1].lexeme <= saved[k].lexeme
    /\ \A k \in DOMAIN yypath : yypath[k].lexeme < Len(queue)
    /\ NoVeto => /\ lvp >= 0
                 /\ \A k \in DOMAIN saved : saved[k].lexeme >= 0
                 /\ \A k \in DOMAIN yypath : yypath[k].lexeme >= 0
=============================================================================
