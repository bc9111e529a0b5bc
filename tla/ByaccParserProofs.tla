-------------------------- MODULE ByaccParserProofs --------------------------
(***************************************************************************)
(* Theorems about the parser byacc generates, for every grammar and from   *)
(* the first step of the generator: the queue and the lists of rivals of a *)
(* parser of byacc -B, and the reports of errors, the stack, the bounds    *)
(* and the language of one without.  The tables are written before the     *)
(* parser starts, and never again; they are sound (ByaccOutputProofs).     *)
(***************************************************************************)
EXTENDS ByaccParser, ByaccOutputProofs

T == INSTANCE BtYaccParProofs

parserState == << parserVars, btVars >>

(* What the backtracking parser has before it starts, and another always. *)
NoQueue == saved = << >> /\ yypath = << >> /\ queue = << >> /\ lvp = 0 /\ yylvlim = 0

SystemInv ==
    /\ phase # "written" => B!BtInit
    /\ phase = "written" => IF g.backtrack THEN T!QueueInv ELSE NoQueue

(* The generator has done its work when the tables are written. *)
LEMMA WrittenOnce ==
    ASSUME Generate
    PROVE  phase # "written" /\ UNCHANGED parserState
<1>1. UNCHANGED parserState BY DEF Generate, parserState
<1>2. LR0Next => phase # "written"
  BY DEF LR0Next, InitializeStates, Expand, OldState, NewState, TooManyStates, NextStateOfList
<1>3. LalrNext => phase # "written"
  BY DEF LalrNext, SetGotoMap, TooManyGotos, InitializeF, BuildRelations, RunDigraph,
         ComputeLookaheads, LR0Done
<1>4. MkparNext => phase # "written"
  BY DEF MkparNext, ListActions, RemoveConflicts, NextRow, Finish, LalrDone
<1>5. OutputNext => phase # "written"
  BY DEF OutputNext, StartActions, TokenActions, EndList, AddRival, PassAction, NextState, Listing,
         OutputActions, PackTable, WriteTables
<1>6. LR0Next \/ LalrNext \/ MkparNext \/ OutputNext BY DEF Generate, Next
<1> QED BY <1>1, <1>2, <1>3, <1>4, <1>5, <1>6

-----------------------------------------------------------------------------
LEMMA SystemInit == ParserInit => SystemInv
<1> SUFFICES ASSUME ParserInit PROVE SystemInv OBVIOUS
<1>1. B!BtInit BY DEF ParserInit
<1>2. phase = "lr0" BY DEF ParserInit, Init, LR0Init
<1> QED BY <1>1, <1>2 DEF SystemInv

(* Before it starts, the parser has no queue. *)
LEMMA Started ==
    B!BtInit => T!QueueInv /\ NoQueue
<1> SUFFICES ASSUME B!BtInit PROVE T!QueueInv /\ NoQueue OBVIOUS
<1>1. T!BtInit BY DEF B!BtInit, T!BtInit, B!Init, T!Init, B!YYEMPTY, T!YYEMPTY
<1>2. T!QueueInv BY <1>1, T!QueueInit
<1>3. NoQueue BY DEF B!BtInit, NoQueue
<1> QED BY <1>2, <1>3

(* B and T are two instances of one module: their steps are the same, once all
   they are defined by is written out. *)
LEMMA SameNext == B!BtNext => T!BtNext
BY DEF B!Last, T!Last, B!Front, T!Front, B!FlattenSeq, T!FlattenSeq,
  B!YYEMPTY, T!YYEMPTY, B!YYEOF, T!YYEOF, B!yystate, T!yystate, B!Found, T!Found, B!At,
  T!At, B!Larger, T!Larger, B!Push, T!Push, B!StartParser, T!StartParser, B!Tokens,
  T!Tokens, B!NextToken, T!NextToken, B!DefaultReduce, T!DefaultReduce, B!Ready,
  T!Ready, B!Shift, T!Shift, B!Reduce, T!Reduce, B!SyntaxError, T!SyntaxError,
  B!StartRecovery, T!StartRecovery, B!DiscardToken, T!DiscardToken, B!ShiftError,
  T!ShiftError, B!DiscardState, T!DiscardState, B!Rest, T!Rest, B!GotoState,
  T!GotoState, B!OfGoal, T!OfGoal, B!Goto, T!Goto, B!queueVars, T!queueVars,
  B!trialVars, T!trialVars, B!Trial, T!Trial, B!BtStart, T!BtStart, B!Reread, T!Reread,
  B!Fresh, T!Fresh, B!Queued, T!Queued, B!Unqueued, T!Unqueued, B!GetToken, T!GetToken,
  B!CannotEnlarge, T!CannotEnlarge, B!BtLex, T!BtLex, B!yyctable, T!yyctable,
  B!Conflict, T!Conflict, B!Entry, T!Entry, B!Record, T!Record, B!Take, T!Take,
  B!FollowPath, T!FollowPath, B!NewQueue, T!NewQueue, B!StartTrial, T!StartTrial,
  B!CannotSave, T!CannotSave, B!BtShift, T!BtShift, B!BtReduce, T!BtReduce, B!NoAction,
  T!NoAction, B!TableError, T!TableError, B!TrialError, T!TrialError, B!RestVs,
  T!RestVs, B!Yyerrlab, T!Yyerrlab, B!Farthest, T!Farthest, B!Restore, T!Restore,
  B!NextAlternative, T!NextAlternative, B!Exhausted, T!Exhausted, B!DropConflict,
  T!DropConflict, B!TrialFailed, T!TrialFailed, B!CannotRemember, T!CannotRemember,
  B!BtRecovery, T!BtRecovery, B!MacroOf, T!MacroOf, B!Reducing, T!Reducing, B!yyval,
  T!yyval, B!Validates, T!Validates, B!BtGoto, T!BtGoto, B!BtFinalState,
  T!BtFinalState, B!BraceActionJumps, T!BraceActionJumps, B!BracketActionFails,
  T!BracketActionFails, B!BracketActionValidates, T!BracketActionValidates, B!AtValid,
  T!AtValid, B!Valid, T!Valid, B!NoMemory, T!NoMemory, B!BtNext, T!BtNext, B!btVars,
  T!btVars

-----------------------------------------------------------------------------
LEMMA SystemStep ==
    ASSUME YYLVQUEUEGROWTH \in Nat \ {0}, SystemInv, [ParserNext]_allVars
    PROVE  SystemInv'
<1>1. CASE UNCHANGED parserState /\ phase # "written"
  <2>1. B!BtInit BY <1>1 DEF SystemInv
  <2>2. B!BtInit' BY <2>1, <1>1 DEF B!BtInit, B!Init, parserState, parserVars, btVars
  <2>3. T!QueueInv' /\ NoQueue' BY <2>2, Started, PTL
  <2> QED BY <2>2, <2>3 DEF SystemInv
<1>2. CASE Generate BY <1>1, <1>2, WrittenOnce
<1>3. CASE UNCHANGED << vars, outputVars >> /\ phase = "written"
           /\ (g.backtrack => B!BtNext \/ UNCHANGED parserState)
           /\ (~g.backtrack => UNCHANGED btVars)
  <2>1. phase' = phase /\ g' = g /\ tables' = tables
    BY <1>3 DEF vars, lr0Vars, outputVars
  <2>2. CASE g.backtrack
    <3>1. T!QueueInv BY <1>3, <2>2 DEF SystemInv
    <3>2. CASE B!BtNext
      <4>1. T!BtNext BY <3>2, SameNext
      <4>2. T!QueueInv' BY <2>1, <3>1, <4>1, T!QueueStep
      <4> QED BY <1>3, <2>1, <2>2, <4>2 DEF SystemInv
    <3>3. CASE UNCHANGED parserState
      <4>1. UNCHANGED << tables, T!parserVars, T!btVars >>
        BY <2>1, <3>3 DEF parserState, parserVars, btVars, T!parserVars, T!btVars
      <4>2. T!QueueInv' BY <3>1, <4>1, T!QueueStep
      <4> QED BY <1>3, <2>1, <2>2, <4>2 DEF SystemInv
    <3> QED BY <1>3, <2>2, <3>2, <3>3
  <2>3. CASE ~g.backtrack
    <3>1. NoQueue BY <1>3, <2>3 DEF SystemInv
    <3>2. NoQueue' BY <1>3, <2>3, <3>1 DEF NoQueue, btVars
    <3> QED BY <1>3, <2>1, <2>3, <3>2 DEF SystemInv
  <2> QED BY <2>2, <2>3
<1>4. CASE Parse BY <1>3, <1>4 DEF Parse
<1>5. CASE UNCHANGED allVars
  <2>1. UNCHANGED parserState /\ UNCHANGED << vars, outputVars >> /\ UNCHANGED btVars
    BY <1>5 DEF allVars, parserState
  <2> QED BY <1>1, <1>3, <2>1
<1> QED BY <1>2, <1>4, <1>5 DEF ParserNext

LEMMA SystemImplies == SystemInv => QueueInBounds
<1> SUFFICES ASSUME SystemInv, phase = "written" PROVE B!QueueInBounds BY DEF QueueInBounds
<1>1. CASE g.backtrack
  <2>1. T!QueueInBounds BY <1>1, T!InvImplies DEF SystemInv
  <2> QED BY <2>1 DEF T!QueueInBounds, B!QueueInBounds, T!NoVeto, B!NoVeto
<1>2. CASE ~g.backtrack
  <2>1. NoQueue BY <1>2 DEF SystemInv
  <2>2. Len(<< >>) = 0 /\ DOMAIN << >> = {} BY T!EmptyIs
  <2> QED BY <2>1, <2>2 DEF NoQueue, B!QueueInBounds
<1> QED BY <1>1, <1>2

(***************************************************************************)
(* For every set of grammars, every input, any depth of conflicts and      *)
(* trials and any outcome of malloc(): the tokens a parser of byacc -B     *)
(* queues are never more than it has room for, and wherever it returns to, *)
(* after a trial or to begin the full parse, is in the queue, in order     *)
(* (btyaccpar.c:524, 610, 784).                                            *)
(***************************************************************************)
THEOREM QueueSafeForAllGrammars ==
    ASSUME YYLVQUEUEGROWTH \in Nat \ {0}
    PROVE  ParserSpec => []QueueInBounds
<1>1. ParserInit => SystemInv BY SystemInit
<1>2. SystemInv /\ [ParserNext]_allVars => SystemInv' BY SystemStep
<1>3. SystemInv => QueueInBounds BY SystemImplies
<1> QED BY <1>1, <1>2, <1>3, PTL DEF ParserSpec
-----------------------------------------------------------------------------
(***************************************************************************)
(* Error recovery without -B.  While yyerrflag counts down, three tokens   *)
(* less what it still has to count have been shifted since the last error  *)
(* reported; only between a report and StartRecovery is there none.        *)
(***************************************************************************)
Spaced == \A k \in 1 .. Len(errors) - 1 : errors[k + 1] >= errors[k] + 3

Countdown ==
    errors # << >> =>
        /\ errors[Len(errors)] <= Len(shifted)
        /\ pc # "yyinrecovery" => errors[Len(errors)] + 3 <= Len(shifted) + yyerrflag

QuietInv ==
    /\ T!IsSeq(shifted)
    /\ errors \in Seq(Nat)
    /\ yyerrflag \in 0 .. 3
    /\ Spaced
    /\ Countdown

QuietSystem ==
    /\ phase # "written" => B!BtInit
    /\ phase = "written" /\ ~g.backtrack => QuietInv

LEMMA QuietAtStart == B!BtInit => QuietInv
<1> SUFFICES ASSUME B!BtInit PROVE QuietInv OBVIOUS
<1>1. shifted = << >> /\ errors = << >> /\ yyerrflag = 0 BY DEF B!BtInit, B!Init
<1>2. Len(<< >>) = 0 /\ << >> \in Seq(Nat) OBVIOUS
<1> QED BY <1>1, <1>2, T!EmptyIs DEF QuietInv, Spaced, Countdown

(* A report of an error keeps the distance if there is one. *)
LEMMA ReportKeepsSpaced ==
    ASSUME NEW s \in Seq(Nat), NEW n \in Nat,
           \A k \in 1 .. Len(s) - 1 : s[k + 1] >= s[k] + 3,
           s # << >> => s[Len(s)] + 3 <= n
    PROVE  /\ Append(s, n) \in Seq(Nat) /\ Append(s, n) # << >>
           /\ Append(s, n)[Len(Append(s, n))] = n
           /\ \A k \in 1 .. Len(Append(s, n)) - 1 : Append(s, n)[k + 1] >= Append(s, n)[k] + 3
<1> DEFINE t == Append(s, n)
<1>1. Len(s) \in Nat /\ t \in Seq(Nat) /\ Len(t) = Len(s) + 1 OBVIOUS
<1>2. t[Len(s) + 1] = n /\ \A k \in 1 .. Len(s) : t[k] = s[k] OBVIOUS
<1>3. ASSUME NEW k \in 1 .. Len(t) - 1 PROVE t[k + 1] >= t[k] + 3
  <2>1. k \in 1 .. Len(s) BY <1>1
  <2>2. CASE k = Len(s)
    <3>1. s # << >> BY <2>1
    <3> QED BY <1>2, <2>1, <2>2, <3>1
  <2>3. CASE k # Len(s)
    <3>1. k \in 1 .. Len(s) - 1 /\ k + 1 \in 1 .. Len(s) BY <1>1, <2>1, <2>3
    <3> QED BY <1>2, <2>1, <3>1
  <2> QED BY <2>2, <2>3
<1>4. t # << >> /\ t[Len(t)] = n BY <1>1, <1>2
<1> HIDE DEF t
<1>5. t \in Seq(Nat) /\ t # << >> /\ t[Len(t)] = n /\ \A k \in 1 .. Len(t) - 1 : t[k + 1] >= t[k] + 3
  BY <1>1, <1>3, <1>4
<1> QED BY <1>5 DEF t

LEMMA QuietStep ==
    ASSUME QuietInv, Y!Next
    PROVE  QuietInv'
<1> DEFINE last == errors[Len(errors)]
<1>1. Len(shifted) \in Nat /\ Len(errors) \in Nat /\ yyerrflag \in Nat
  BY T!SeqFacts DEF QuietInv
<1>2. errors # << >> => last \in Nat BY DEF QuietInv
<1>3. ASSUME UNCHANGED << yyerrflag, shifted, errors >>, pc = "yyinrecovery" => yyerrflag = 3 \/ pc' = "yyinrecovery"
      PROVE  QuietInv'
  <2>1. errors # << >> /\ pc' # "yyinrecovery" => last + 3 <= Len(shifted) + yyerrflag
    BY <1>1, <1>2, <1>3 DEF QuietInv, Countdown
  <2> QED BY <1>3, <2>1 DEF QuietInv, Countdown, Spaced
<1>4. CASE Y!Shift
  <2>1. CASE pc' = "yyoverflow" BY <1>3, <1>4, <2>1 DEF Y!Shift, Y!Ready
  <2>2. CASE pc' # "yyoverflow"
    <3>1. /\ pc = "yyloop"
          /\ errors' = errors /\ shifted' = Append(shifted, yychar)
          /\ yyerrflag' = IF yyerrflag > 0 THEN yyerrflag - 1 ELSE 0
      BY <1>4, <2>2 DEF Y!Shift, Y!Ready
    <3>2. T!IsSeq(shifted') /\ Len(shifted') = Len(shifted) + 1 BY <3>1, T!AppendFacts DEF QuietInv
    <3>3. yyerrflag' \in 0 .. 3 /\ Len(shifted) + yyerrflag <= Len(shifted') + yyerrflag'
      BY <1>1, <3>1, <3>2 DEF QuietInv
    <3>4. errors # << >> => last <= Len(shifted') /\ last + 3 <= Len(shifted') + yyerrflag'
      <4>1. errors # << >> => last <= Len(shifted) /\ last + 3 <= Len(shifted) + yyerrflag
        BY <3>1 DEF QuietInv, Countdown
      <4> HIDE DEF last
      <4> QED BY <1>1, <1>2, <3>2, <3>3, <4>1
    <3> QED BY <3>1, <3>2, <3>3, <3>4 DEF QuietInv, Countdown, Spaced
  <2> QED BY <2>1, <2>2
<1>5. CASE Y!SyntaxError
  <2>1. CASE yyerrflag # 0 BY <1>3, <1>5, <2>1 DEF Y!SyntaxError
  <2>2. CASE yyerrflag = 0
    <3>1. /\ pc = "yyloop" /\ pc' = "yyinrecovery"
          /\ errors' = Append(errors, Len(shifted)) /\ UNCHANGED << shifted, yyerrflag >>
      BY <1>5, <2>2 DEF Y!SyntaxError, Y!Ready
    <3>2. errors # << >> => last + 3 <= Len(shifted) BY <1>1, <2>2, <3>1 DEF QuietInv, Countdown
    <3>3. \A k \in 1 .. Len(errors) - 1 : errors[k + 1] >= errors[k] + 3 BY DEF QuietInv, Spaced
    <3>4. errors \in Seq(Nat) BY DEF QuietInv
    <3>5. /\ errors' \in Seq(Nat) /\ errors' # << >> /\ errors'[Len(errors')] = Len(shifted)
          /\ \A k \in 1 .. Len(errors') - 1 : errors'[k + 1] >= errors'[k] + 3
      BY <1>1, <3>1, <3>2, <3>3, <3>4, ReportKeepsSpaced
    <3> QED BY <1>1, <3>1, <3>5 DEF QuietInv, Countdown, Spaced
  <2> QED BY <2>1, <2>2
<1>6. CASE Y!StartRecovery
  <2>1. yyerrflag' = 3 /\ UNCHANGED << shifted, errors >> BY <1>6 DEF Y!StartRecovery
  <2>2. errors # << >> => last <= Len(shifted) BY DEF QuietInv, Countdown
  <2>3. errors # << >> => last + 3 <= Len(shifted) + 3 BY <1>1, <1>2, <2>2
  <2> QED BY <2>1, <2>2, <2>3 DEF QuietInv, Countdown, Spaced
<1>7. CASE Y!DiscardToken
  <2>1. yyerrflag = 3 BY <1>7 DEF QuietInv, Y!DiscardToken
  <2> QED BY <1>3, <1>7, <2>1 DEF Y!DiscardToken
<1>8. CASE Y!StartParser BY <1>3, <1>8 DEF Y!StartParser
<1>9. CASE Y!DefaultReduce BY <1>3, <1>9 DEF Y!DefaultReduce
<1>10. CASE Y!Lex BY <1>3, <1>10 DEF Y!Lex
<1>11. CASE Y!Reduce BY <1>3, <1>11 DEF Y!Reduce, Y!Ready
<1>12. CASE Y!ShiftError BY <1>3, <1>12 DEF Y!ShiftError
<1>13. CASE Y!DiscardState BY <1>3, <1>13 DEF Y!DiscardState
<1>14. CASE Y!Goto BY <1>3, <1>14 DEF Y!Goto
<1>15. CASE Y!FinalState BY <1>3, <1>15 DEF Y!FinalState
<1>16. CASE Y!ActionJumps BY <1>3, <1>16 DEF Y!ActionJumps
<1>17. CASE Y!Overflow BY <1>3, <1>17 DEF Y!Overflow
<1> QED BY <1>4, <1>5, <1>6, <1>7, <1>8, <1>9, <1>10, <1>11, <1>12, <1>13, <1>14, <1>15, <1>16, <1>17
        DEF Y!Next

LEMMA QuietSystemStep ==
    ASSUME QuietSystem, [ParserNext]_allVars
    PROVE  QuietSystem'
<1>1. CASE UNCHANGED parserState /\ phase # "written"
  <2>1. B!BtInit BY <1>1 DEF QuietSystem
  <2>2. B!BtInit' BY <1>1, <2>1 DEF B!BtInit, B!Init, parserState, parserVars, btVars
  <2>3. QuietInv' BY <2>2, QuietAtStart, PTL
  <2> QED BY <2>2, <2>3 DEF QuietSystem
<1>2. CASE Generate BY <1>1, <1>2, WrittenOnce
<1>3. CASE UNCHANGED << vars, outputVars >> /\ phase = "written"
           /\ (~g.backtrack => Y!Next \/ UNCHANGED parserState)
  <2>1. phase' = phase /\ g' = g BY <1>3 DEF vars, lr0Vars
  <2>2. CASE ~g.backtrack
    <3>1. QuietInv BY <1>3, <2>2 DEF QuietSystem
    <3>2. Y!Next => QuietInv' BY <3>1, QuietStep
    <3>3. UNCHANGED parserState => QuietInv'
      BY <3>1 DEF QuietInv, Spaced, Countdown, parserState, parserVars
    <3> QED BY <1>3, <2>1, <2>2, <3>2, <3>3 DEF QuietSystem
  <2> QED BY <1>3, <2>1, <2>2 DEF QuietSystem
<1>4. CASE Parse BY <1>3, <1>4 DEF Parse
<1>5. CASE UNCHANGED allVars
  <2>1. UNCHANGED parserState /\ UNCHANGED << vars, outputVars >> BY <1>5 DEF allVars, parserState
  <2> QED BY <1>1, <1>3, <2>1
<1> QED BY <1>2, <1>4, <1>5 DEF ParserNext

(***************************************************************************)
(* For every set of grammars and every input, the syntax errors for which  *)
(* a parser without -B calls yyerror() are at least three shifted tokens   *)
(* apart, however often it fails in between and however actions end, if    *)
(* none of them executes yyerrok (yaccpar.skel:222, 231, 240).             *)
(***************************************************************************)
THEOREM QuietForAllGrammars == ParserSpec => []RecoveryQuiet
<1>1. ParserInit => QuietSystem
  <2> SUFFICES ASSUME ParserInit PROVE QuietSystem OBVIOUS
  <2>1. B!BtInit /\ phase = "lr0" BY DEF ParserInit, Init, LR0Init
  <2> QED BY <2>1 DEF QuietSystem
<1>2. QuietSystem /\ [ParserNext]_allVars => QuietSystem' BY QuietSystemStep
<1>3. QuietSystem => RecoveryQuiet
  <2>1. CASE phase = "written" BY <2>1 DEF QuietSystem, QuietInv, Spaced, RecoveryQuiet
  <2>2. CASE phase # "written"
    <3>1. QuietSystem => QuietInv BY <2>2, QuietAtStart DEF QuietSystem
    <3> QED BY <3>1 DEF QuietInv, Spaced, RecoveryQuiet
  <2> QED BY <2>1, <2>2
<1> QED BY <1>1, <1>2, <1>3, PTL DEF ParserSpec
-----------------------------------------------------------------------------
LEMMA TablesAtStart == ParserInit => TablesInv
<1> QED BY TablesStart DEF ParserInit

(* The parser leaves the tables and all they come from as they are. *)
LEMMA GeneratorSteps == [ParserNext]_allVars => [GeneratorStep]_<< vars, outputVars >>
<1>1. Generate => GeneratorStep BY DEF Generate, GeneratorStep
<1>2. Parse => UNCHANGED << vars, outputVars >> BY DEF Parse
<1>3. UNCHANGED allVars => UNCHANGED << vars, outputVars >> BY DEF allVars
<1> QED BY <1>1, <1>2, <1>3 DEF ParserNext

LEMMA TablesKept == TablesInv /\ [ParserNext]_allVars => TablesInv'
BY GeneratorSteps, TablesStep

(***************************************************************************)
(* For every set of grammars whose tokens have numbers of their own, with  *)
(* -B: in the tables as they are packed, the parser finds for a state and  *)
(* a token all the rival actions and only those, a shift first, though     *)
(* token_actions() takes a list back when it finds an equal one and lets   *)
(* one begin with the end of another (output.c:415-530).                   *)
(***************************************************************************)
THEOREM ConflictListsForAllGrammars ==
    ASSUME DistinctValues
    PROVE  ParserSpec => []ConflictListsExact
<1>1. ParserInit => TablesInv BY TablesAtStart
<1>2. TablesInv /\ [ParserNext]_allVars => TablesInv' BY TablesKept
<1>3. TablesInv => ConflictListsExact
  <2> SUFFICES ASSUME TablesInv, phase = "written", g.backtrack,
                      NEW n \in DOMAIN states, defred[n] = 0, NEW x \in 0 .. g.ntokens - 1
               PROVE  Trials(n, x) = RivalActions(n, x)
    BY DEF ConflictListsExact
  <2>1. Generated /\ ListInv /\ TablesPacked /\ actrow >= nstates BY DEF TablesInv, Finished
  <2> QED BY <2>1, ListsAreExact
<1> QED BY <1>1, <1>2, <1>3, PTL DEF ParserSpec

(***************************************************************************)
(* For every set of grammars, four entries for a conflict are enough for   *)
(* the lists of rivals, those included that are taken back: conflicts[] is *)
(* written to without a test of its size (output.c:415-530).               *)
(***************************************************************************)
THEOREM ConflictsFitForAllGrammars == ParserSpec => []ConflictsFit
<1>1. ParserInit => TablesInv /\ FitInv BY TablesAtStart, FitStart DEF ParserInit
<1>2. TablesInv /\ FitInv /\ [ParserNext]_allVars => TablesInv' /\ FitInv'
  BY GeneratorSteps, TablesStep, FitStep
<1>3. FitInv => ConflictsFit BY DEF FitInv
<1> QED BY <1>1, <1>2, <1>3, PTL DEF ParserSpec

-----------------------------------------------------------------------------
(***************************************************************************)
(* The parser: whatever a step pushes is a state that the one below leads  *)
(* to, and in yyreduce the rule is completed in the state on top.          *)
(***************************************************************************)
InUse == {"yyloop", "yyreduce", "yyinrecovery", "discard states"}

StackOK(label, s, r, c) ==
    /\ s = << >> \/ IsPath(s)
    /\ label \in InUse => s # << >>
    /\ label = "yyreduce" => Reduces(s[Len(s)], r)
    /\ c \in Nat \cup {-1}

LEMMA PathStart == ASSUME Built PROVE IsPath(<< 0 >>) /\ Len(<< 0 >>) = 1 /\ << 0 >> # << >>
<1>1. 0 \in DOMAIN states BY DEF Built, LR0Inv, AutomatonOK, Numbered
<1>2. << 0 >> \in Seq(DOMAIN states) BY <1>1
<1>3. Len(<< 0 >>) = 1 /\ << 0 >>[1] = 0 /\ << 0 >> # << >> OBVIOUS
<1>4. 1 .. Len(<< 0 >>) - 1 = {} BY <1>3
<1> QED BY <1>2, <1>3, <1>4 DEF IsPath

LEMMA PathPart ==
    ASSUME NEW s, IsPath(s), NEW m \in 1 .. Len(s)
    PROVE  LET u == SubSeq(s, 1, m) IN IsPath(u) /\ Len(u) = m /\ u[Len(u)] = s[m]
<1>1. s \in Seq(DOMAIN states) /\ Len(s) \in Nat BY DEF IsPath
<1> DEFINE u == SubSeq(s, 1, m)
<1>2. u \in Seq(DOMAIN states) /\ Len(u) = m /\ \A k \in 1 .. m : u[k] = s[k] BY <1>1
<1>3. m \in Nat /\ 1 \in 1 .. m /\ m \in 1 .. m BY <1>1
<1> HIDE DEF u
<1>4. u # << >> BY <1>2, <1>3
<1>5. ASSUME NEW k \in 1 .. Len(u) - 1 PROVE Leads(u[k], u[k + 1])
  <2>1. k \in 1 .. m /\ k + 1 \in 1 .. m /\ k \in 1 .. Len(s) - 1 BY <1>1, <1>2, <1>3
  <2>2. Leads(s[k], s[k + 1]) BY <2>1 DEF IsPath
  <2> QED BY <1>2, <2>1, <2>2
<1>6. u[1] = 0 BY <1>2, <1>3 DEF IsPath
<1>7. IsPath(u) /\ Len(u) = m /\ u[Len(u)] = s[m] BY <1>2, <1>3, <1>4, <1>5, <1>6 DEF IsPath
<1> QED BY <1>7 DEF u

LEMMA PathGrows ==
    ASSUME Built, NEW s, IsPath(s), NEW q, Leads(s[Len(s)], q)
    PROVE  IsPath(Append(s, q)) /\ Len(Append(s, q)) = Len(s) + 1 /\ Append(s, q) # << >>
<1>1. s \in Seq(DOMAIN states) /\ Len(s) \in Nat /\ Len(s) >= 1 BY DEF IsPath
<1>2. s[Len(s)] \in DOMAIN states BY <1>1
<1>3. q \in DOMAIN states BY <1>2, Transitions
<1> DEFINE u == Append(s, q)
<1>4. /\ u \in Seq(DOMAIN states) /\ Len(u) = Len(s) + 1
      /\ u[Len(s) + 1] = q /\ \A k \in 1 .. Len(s) : u[k] = s[k]
  BY <1>1, <1>3
<1> HIDE DEF u
<1>5. u # << >> BY <1>1, <1>4
<1>6. ASSUME NEW k \in 1 .. Len(u) - 1 PROVE Leads(u[k], u[k + 1])
  <2>1. k \in 1 .. Len(s) BY <1>1, <1>4
  <2>2. CASE k = Len(s) BY <1>4, <2>1, <2>2
  <2>3. CASE k # Len(s)
    <3>1. k \in 1 .. Len(s) - 1 /\ k + 1 \in 1 .. Len(s) BY <1>1, <2>1, <2>3
    <3> QED BY <1>4, <2>1, <3>1 DEF IsPath
  <2> QED BY <2>2, <2>3
<1>7. u[1] = 0 BY <1>1, <1>4 DEF IsPath
<1>8. IsPath(u) /\ Len(u) = Len(s) + 1 /\ u # << >> BY <1>4, <1>5, <1>6, <1>7 DEF IsPath
<1> QED BY <1>8 DEF u

(* What a push leaves, whether it succeeds or not. *)
LEMMA PushKeeps ==
    ASSUME Built, NEW s, IsPath(s), NEW q, Leads(s[Len(s)], q), Y!Push(s, q, "yyloop")
    PROVE  IsPath(yystack') /\ yystack' # << >> /\ pc' \in {"yyloop", "yyoverflow"}
<1>1. s # << >> BY DEF IsPath
<1>2. yystack' \in {s, Append(s, q)} /\ pc' \in {"yyloop", "yyoverflow"} BY DEF Y!Push
<1> QED BY <1>1, <1>2, PathGrows

(* The stack without the right-hand side of the rule, in yyreduce. *)
LEMMA AfterPop ==
    ASSUME Built, TablesSound(tables), IsPath(yystack), Reduces(yystack[Len(yystack)], yyn)
    PROVE  /\ IsPath(Y!Rest) /\ Y!Last(Y!Rest) = Y!Rest[Len(Y!Rest)]
           /\ Leads(Y!Rest[Len(Y!Rest)], Y!GotoState)
           /\ Accessing(Y!GotoState) = g.rules[yyn + 2].lhs
           /\ Len(Y!Rest) = Len(yystack) - Len(Rhs(g, yyn + 2))
           /\ \A k \in 1 .. Len(Y!Rest) : Y!Rest[k] = yystack[k]
           /\ Len(Y!Rest) \in 1 .. Len(yystack)
<1>1. PICK r : r = yyn + 2 OBVIOUS
<1>2. yyn \in Nat /\ r \in Completed(Itemset(yystack[Len(yystack)])) BY <1>1 DEF Reduces
<1>3. /\ r \in DOMAIN g.rules /\ r # 2 /\ Len(Rhs(g, r)) \in Nat /\ Len(yystack) \in Nat
      /\ Len(Rhs(g, r)) < Len(yystack)
      /\ g.rules[r].lhs \in Nexts(Itemset(yystack[Len(yystack) - Len(Rhs(g, r))]))
  BY <1>2, ReduceOnPath
<1>4. tables.len[yyn] = Len(Rhs(g, r))
  <2>1. r - 2 = yyn BY <1>1, <1>2
  <2> QED BY <1>3, <2>1 DEF TablesSound
<1>5. PICK m : m = Len(yystack) - tables.len[yyn] OBVIOUS
<1>6. m \in 1 .. Len(yystack) /\ m = Len(yystack) - Len(Rhs(g, r)) BY <1>3, <1>4, <1>5
<1>7. Y!Rest = SubSeq(yystack, 1, m) BY <1>5 DEF Y!Rest
<1>8. IsPath(Y!Rest) /\ Len(Y!Rest) = m /\ Y!Rest[Len(Y!Rest)] = yystack[m] BY <1>6, <1>7, PathPart
<1>9. Y!Last(Y!Rest) = Y!Rest[Len(Y!Rest)] BY DEF Y!Last
<1>10. PICK n : n = yystack[m] OBVIOUS
<1>11. n \in DOMAIN states BY <1>6, <1>10 DEF IsPath
<1>12. Leads(n, GotoIn(tables, n, yyn)) /\ Accessing(GotoIn(tables, n, yyn)) = g.rules[r].lhs
  <2>1. GotosSound(tables, n) BY <1>11 DEF TablesSound
  <2>2. r - 2 = yyn BY <1>1, <1>2
  <2> QED BY <1>3, <1>6, <1>10, <2>1, <2>2 DEF GotosSound
<1>13. Y!GotoState = GotoIn(tables, n, yyn)
  BY <1>8, <1>9, <1>10 DEF Y!GotoState, GotoIn, Y!Found, Found, Y!At
<1>14. \A k \in 1 .. m : Y!Rest[k] = yystack[k]
  <2>1. yystack \in Seq(DOMAIN states) BY DEF IsPath
  <2> QED BY <1>6, <1>7, <2>1
<1> QED BY <1>1, <1>6, <1>8, <1>9, <1>10, <1>12, <1>13, <1>14


(* What the parser can find in the row of the state on top. *)
LEMMA OnTop ==
    ASSUME Built, TablesSound(tables), NEW s, IsPath(s), NEW n, n = s[Len(s)]
    PROVE  /\ n \in DOMAIN states
           /\ tables.defred[n] # 0 => Reduces(n, tables.defred[n])
           /\ \A c \in Nat : Y!Found(tables.sindex[n], c) =>
                 /\ Leads(n, Y!At(tables.sindex[n], c))
                 /\ \E x \in 1 .. g.ntokens - 1 : g.value[x] = c
           /\ \A c \in Nat : Y!Found(tables.rindex[n], c) => Reduces(n, Y!At(tables.rindex[n], c))
<1>1. s \in Seq(DOMAIN states) /\ Len(s) \in Nat /\ s # << >> BY DEF IsPath
<1>2. n \in DOMAIN states BY <1>1
<1>3. ActionsSound(tables, n) BY <1>2 DEF TablesSound
<1>4. g.ntokens \in Nat BY NumbersFacts DEF NumbersOK
<1>5. ASSUME NEW c \in Nat, Y!Found(tables.sindex[n], c)
      PROVE  /\ Leads(n, Y!At(tables.sindex[n], c))
             /\ \E x \in 1 .. g.ntokens - 1 : g.value[x] = c
  <2>1. Found(tables, tables.sindex[n], c) BY <1>5 DEF Found, Y!Found
  <2>2. PICK q : q = Y!At(tables.sindex[n], c) OBVIOUS
  <2>3. Leads(n, q) /\ \E x \in 0 .. g.ntokens - 1 : Accessing(q) = x /\ g.value[x] = c
    BY <1>3, <2>1, <2>2 DEF ActionsSound, Y!At
  <2>4. Accessing(q) \in 1 .. g.nsyms - 1 BY <1>2, <2>3, Transitions
  <2> QED BY <1>4, <2>2, <2>3, <2>4
<1>6. ASSUME NEW c \in Nat, Y!Found(tables.rindex[n], c)
      PROVE  Reduces(n, Y!At(tables.rindex[n], c))
  <2>1. Found(tables, tables.rindex[n], c) BY <1>6 DEF Found, Y!Found
  <2> QED BY <1>3, <2>1 DEF ActionsSound, Y!At
<1> QED BY <1>2, <1>3, <1>5, <1>6 DEF ActionsSound

LEMMA TokensAreNumbers ==
    ASSUME TablesSound(tables), NEW c \in Y!Tokens
    PROVE  c \in Nat
BY ParserAssumption DEF TablesSound, Y!Tokens, Y!YYEOF

LEMMA StackStep ==
    ASSUME Built, TablesSound(tables), StackOK(pc, yystack, yyn, yychar), Y!Next
    PROVE  StackOK(pc', yystack', yyn', yychar')
<1> DEFINE n == yystack[Len(yystack)]
<1>0. n = Y!yystate BY DEF Y!yystate, Y!Last
<1>1. pc \in InUse => IsPath(yystack) BY DEF StackOK
<1>2. pc \in InUse =>
         /\ tables.defred[n] # 0 => Reduces(n, tables.defred[n])
         /\ \A c \in Nat : Y!Found(tables.sindex[n], c) => Leads(n, Y!At(tables.sindex[n], c))
         /\ \A c \in Nat : Y!Found(tables.rindex[n], c) => Reduces(n, Y!At(tables.rindex[n], c))
  BY <1>1, OnTop
<1>3. yychar \in Nat \cup {-1} /\ (yychar >= 0 => yychar \in Nat) BY DEF StackOK
<1> HIDE DEF n
<1>4. CASE Y!StartParser
  BY <1>4, PathStart DEF Y!StartParser, StackOK, InUse
<1>5. CASE Y!DefaultReduce
  <2>1. /\ pc = "yyloop" /\ pc' = "yyreduce" /\ UNCHANGED << yystack, yychar >>
        /\ tables.defred[n] # 0 /\ yyn' = tables.defred[n]
    BY <1>0, <1>5 DEF Y!DefaultReduce
  <2> QED BY <1>2, <2>1 DEF StackOK, InUse, n
<1>6. CASE Y!Lex
  <2>1. pc = "yyloop" /\ UNCHANGED << pc, yystack, yyn >> /\ yychar' \in Y!Tokens
    BY <1>6 DEF Y!Lex, Y!NextToken
  <2> QED BY <2>1, TokensAreNumbers DEF StackOK, InUse
<1>7. CASE Y!Shift
  <2>1. /\ pc = "yyloop" /\ yychar \in Nat /\ Y!Found(tables.sindex[n], yychar)
        /\ Y!Push(yystack, Y!At(tables.sindex[n], yychar), "yyloop")
        /\ yychar' \in {yychar, -1}
    BY <1>0, <1>3, <1>7 DEF Y!Shift, Y!Ready, Y!YYEMPTY
  <2>2. PICK q : q = Y!At(tables.sindex[n], yychar) OBVIOUS
  <2>3. Leads(yystack[Len(yystack)], q) BY <1>2, <2>1, <2>2 DEF InUse, n
  <2>4. IsPath(yystack') /\ yystack' # << >> /\ pc' \in {"yyloop", "yyoverflow"}
    BY <1>1, <2>1, <2>2, <2>3, PushKeeps DEF InUse
  <2> QED BY <1>3, <2>1, <2>4 DEF StackOK, InUse
<1>8. CASE Y!Reduce
  <2>1. /\ pc = "yyloop" /\ pc' = "yyreduce" /\ UNCHANGED << yystack, yychar >>
        /\ yychar \in Nat /\ Y!Found(tables.rindex[n], yychar) /\ yyn' = Y!At(tables.rindex[n], yychar)
    BY <1>0, <1>3, <1>8 DEF Y!Reduce, Y!Ready
  <2> QED BY <1>2, <2>1 DEF StackOK, InUse, n
<1>9. CASE Y!SyntaxError
  <2>1. pc = "yyloop" /\ pc' = "yyinrecovery" /\ UNCHANGED << yystack, yychar >>
    BY <1>9 DEF Y!SyntaxError, Y!Ready
  <2> QED BY <2>1 DEF StackOK, InUse
<1>10. CASE Y!StartRecovery
  BY <1>10 DEF Y!StartRecovery, StackOK, InUse
<1>11. CASE Y!DiscardToken
  <2>1. /\ pc = "yyinrecovery" /\ pc' \in {"yyabort", "yyloop"} /\ UNCHANGED yystack
        /\ yychar' \in {yychar, -1}
    BY <1>11 DEF Y!DiscardToken, Y!YYEMPTY
  <2> QED BY <1>3, <2>1 DEF StackOK, InUse
<1>12. CASE Y!ShiftError
  <2>1. /\ pc = "discard states" /\ Y!Found(tables.sindex[n], tables.YYERRCODE)
        /\ Y!Push(yystack, Y!At(tables.sindex[n], tables.YYERRCODE), "yyloop")
        /\ UNCHANGED yychar
    BY <1>0, <1>12 DEF Y!ShiftError
  <2>2. PICK q : q = Y!At(tables.sindex[n], tables.YYERRCODE) OBVIOUS
  <2>3. tables.YYERRCODE \in Nat BY DEF TablesSound
  <2>4. Leads(yystack[Len(yystack)], q) BY <1>2, <2>1, <2>2, <2>3 DEF InUse, n
  <2>5. IsPath(yystack') /\ yystack' # << >> /\ pc' \in {"yyloop", "yyoverflow"}
    BY <1>1, <2>1, <2>2, <2>4, PushKeeps DEF InUse
  <2> QED BY <1>3, <2>1, <2>5 DEF StackOK, InUse
<1>13. CASE Y!DiscardState
  <2>1. pc = "discard states" /\ UNCHANGED yychar /\ IsPath(yystack) BY <1>1, <1>13 DEF Y!DiscardState, InUse
  <2>2. CASE Len(yystack) = 1
    <3>1. pc' = "yyabort" /\ UNCHANGED yystack BY <1>13, <2>2 DEF Y!DiscardState
    <3> QED BY <1>3, <2>1, <3>1 DEF StackOK, InUse
  <2>3. CASE Len(yystack) # 1
    <3>1. yystack' = SubSeq(yystack, 1, Len(yystack) - 1) /\ UNCHANGED pc
      BY <1>13, <2>3 DEF Y!DiscardState, Y!Front
    <3>2. Len(yystack) - 1 \in 1 .. Len(yystack)
      <4>1. yystack \in Seq(DOMAIN states) /\ yystack # << >> BY <2>1 DEF IsPath
      <4>2. PICK l : l = Len(yystack) OBVIOUS
      <4>3. l \in Nat /\ l # 0 BY <4>1, <4>2
      <4>4. l - 1 \in 1 .. l BY <2>3, <4>2, <4>3
      <4> QED BY <4>2, <4>4
    <3>3. IsPath(yystack') BY <2>1, <3>1, <3>2, PathPart
    <3>4. yystack' # << >> BY <3>3 DEF IsPath
    <3> QED BY <1>3, <2>1, <3>1, <3>3, <3>4 DEF StackOK, InUse
  <2> QED BY <2>2, <2>3
<1>14. CASE Y!Goto \/ Y!FinalState
  <2>1. pc = "yyreduce" /\ IsPath(yystack) /\ Reduces(yystack[Len(yystack)], yyn)
    BY <1>1, <1>14 DEF Y!Goto, Y!FinalState, InUse, StackOK
  <2>2. PICK u : u = Y!Rest OBVIOUS
  <2>3. /\ IsPath(u) /\ Y!Last(Y!Rest) = u[Len(u)] /\ Leads(u[Len(u)], Y!GotoState)
    BY <2>1, <2>2, AfterPop
  <2>4. CASE Y!Goto
    <3>1. Y!Push(u, Y!GotoState, "yyloop") /\ UNCHANGED yychar BY <2>2, <2>4 DEF Y!Goto
    <3>2. PICK q : q = Y!GotoState OBVIOUS
    <3>3. IsPath(yystack') /\ yystack' # << >> /\ pc' \in {"yyloop", "yyoverflow"}
      BY <2>3, <3>1, <3>2, PushKeeps
    <3> QED BY <1>3, <3>1, <3>3 DEF StackOK, InUse
  <2>5. CASE Y!FinalState
    <3>1. /\ u[Len(u)] = 0 /\ yystack' = Append(u, tables.YYFINAL)
          /\ pc' \in {"yyaccept", "yyloop"} /\ (yychar' \in Y!Tokens \/ UNCHANGED yychar)
      BY <2>2, <2>3, <2>5 DEF Y!FinalState, Y!OfGoal, Y!NextToken
    <3>2. Leads(u[Len(u)], tables.YYFINAL) BY <3>1 DEF TablesSound
    <3>3. IsPath(yystack') /\ yystack' # << >> BY <2>3, <3>1, <3>2, PathGrows
    <3> QED BY <1>3, <3>1, <3>3, TokensAreNumbers DEF StackOK, InUse
  <2> QED BY <1>14, <2>4, <2>5
<1>15. CASE Y!ActionJumps
  <2>1. pc = "yyreduce" /\ pc' \in {"yyinrecovery", "yyabort", "yyaccept"} /\ UNCHANGED << yystack, yychar >>
    BY <1>15 DEF Y!ActionJumps
  <2> QED BY <2>1 DEF StackOK, InUse
<1>16. CASE Y!Overflow BY <1>16 DEF Y!Overflow, StackOK, InUse
<1> QED BY <1>4, <1>5, <1>6, <1>7, <1>8, <1>9, <1>10, <1>11, <1>12, <1>13, <1>14, <1>15, <1>16 DEF Y!Next


StackInv == StackOK(pc, yystack, yyn, yychar)

StackSystem ==
    /\ TablesInv
    /\ phase # "written" => B!BtInit
    /\ phase = "written" /\ ~g.backtrack => StackInv

LEMMA StackAtStart == B!BtInit => StackInv
BY DEF B!BtInit, B!Init, B!YYEMPTY, StackInv, StackOK, InUse

LEMMA SameStackOK ==
    ASSUME UNCHANGED << g, firstDerives, states, shift >>, NEW label, NEW s, NEW r, NEW c,
           StackOK(label, s, r, c)
    PROVE  StackOK(label, s, r, c)'
<1>1. /\ \A m : Completed(Itemset(m))' = Completed(Itemset(m))
      /\ \A n, q : Leads(n, q)' <=> Leads(n, q)
  BY SameOrigin
<1>2. IsPath(s) => IsPath(s)' BY <1>1 DEF IsPath
<1>3. \A n : Reduces(n, r) => Reduces(n, r)' BY <1>1 DEF Reduces
<1> QED BY <1>2, <1>3 DEF StackOK

LEMMA StackSystemStep ==
    ASSUME StackSystem, [ParserNext]_allVars
    PROVE  StackSystem'
<1>1. TablesInv' BY TablesKept DEF StackSystem
<1>2. CASE UNCHANGED parserState /\ phase # "written"
  <2>1. B!BtInit BY <1>2 DEF StackSystem
  <2>2. B!BtInit' BY <1>2, <2>1 DEF B!BtInit, B!Init, parserState, parserVars, btVars
  <2>3. StackInv' BY <2>2, StackAtStart, PTL
  <2> QED BY <1>1, <2>2, <2>3 DEF StackSystem
<1>3. CASE Generate BY <1>2, <1>3, WrittenOnce
<1>4. CASE UNCHANGED << vars, outputVars >> /\ phase = "written"
           /\ (~g.backtrack => Y!Next \/ UNCHANGED parserState)
  <2>1. phase' = phase /\ UNCHANGED << g, firstDerives, states, shift >>
    BY <1>4 DEF vars, lr0Vars
  <2>2. CASE ~g.backtrack
    <3>1. StackOK(pc, yystack, yyn, yychar) BY <1>4, <2>2 DEF StackSystem, StackInv
    <3>2. StackOK(pc', yystack', yyn', yychar')
      <4>1. Built /\ TablesSound(tables)
        BY <1>4, <2>2 DEF StackSystem, TablesInv, Finished, Generated
      <4>2. Y!Next => StackOK(pc', yystack', yyn', yychar') BY <3>1, <4>1, StackStep
      <4>3. UNCHANGED parserState => StackOK(pc', yystack', yyn', yychar')
        BY <3>1 DEF parserState, parserVars
      <4> QED BY <1>4, <2>2, <4>2, <4>3
    <3>3. PICK label, s, r, c : label = pc' /\ s = yystack' /\ r = yyn' /\ c = yychar' OBVIOUS
    <3>4. StackOK(label, s, r, c)' BY <2>1, <3>2, <3>3, SameStackOK
    <3>5. StackInv' BY <3>3, <3>4 DEF StackInv
    <3> QED BY <1>1, <1>4, <2>1, <3>5 DEF StackSystem
  <2> QED BY <1>1, <1>4, <2>1, <2>2 DEF StackSystem
<1>5. CASE Parse BY <1>4, <1>5 DEF Parse
<1>6. CASE UNCHANGED allVars
  <2>1. UNCHANGED parserState /\ UNCHANGED << vars, outputVars >> BY <1>6 DEF allVars, parserState
  <2> QED BY <1>2, <1>4, <2>1
<1> QED BY <1>3, <1>5, <1>6 DEF ParserNext

LEMMA StackFollows ==
    ASSUME Built, StackInv
    PROVE  StackIsPath
<1> SUFFICES ASSUME yystack # << >> PROVE
             /\ yystack[1] = 0
             /\ \A k \in 1 .. Len(yystack) - 1 : yystack[k + 1] \in ToSet(shift[yystack[k]])
             /\ pc = "yyreduce" => IsSuffixOf(Rhs(g, yyn + RULE_NUM_OFFSET), Symbols(yystack))
    BY DEF StackIsPath
<1>1. IsPath(yystack) /\ yystack \in Seq(DOMAIN states) /\ Len(yystack) \in Nat BY DEF StackInv, StackOK, IsPath
<1>2. ASSUME NEW k \in 1 .. Len(yystack) - 1 PROVE yystack[k + 1] \in ToSet(shift[yystack[k]])
  <2>1. Leads(yystack[k], yystack[k + 1]) BY <1>1 DEF IsPath
  <2>2. k \in 1 .. Len(yystack) BY <1>1
  <2>3. yystack[k] \in DOMAIN states BY <1>1, <2>2
  <2>4. PICK n : n = yystack[k] OBVIOUS
  <2>5. shift[n] \in Seq(DOMAIN states) BY <2>3, <2>4, Transitions
  <2>6. DOMAIN shift[n] = 1 .. Len(shift[n]) BY <2>5
  <2> QED BY <2>1, <2>4, <2>6 DEF Leads, ToSet
<1>3. ASSUME pc = "yyreduce" PROVE IsSuffixOf(Rhs(g, yyn + RULE_NUM_OFFSET), Symbols(yystack))
  <2>1. PICK r : r = yyn + 2 OBVIOUS
  <2>2. r \in Completed(Itemset(yystack[Len(yystack)]))
    BY <1>3, <2>1 DEF StackInv, StackOK, Reduces
  <2>3. PICK u, m : u = Rhs(g, r) /\ m = Len(u) OBVIOUS
  <2>4. /\ r \in DOMAIN g.rules /\ m \in Nat /\ m < Len(yystack)
        /\ \A j \in 1 .. m : Accessing(yystack[Len(yystack) - m + j]) = u[j]
    BY <1>1, <2>2, <2>3, ReduceOnPath
  <2>5. u \in Seq(Symbol(g))
    <3>1. g \in Grammars BY DEF Built, LR0Inv
    <3> QED BY <2>3, <2>4, <3>1, RuleFacts
  <2>6. PICK v, last : v = Symbols(yystack) /\ last = Len(yystack) - 1 OBVIOUS
  <2>7. last \in Nat /\ m <= last BY <1>1, <2>4, <2>6
  <2>8. v = [k \in 1 .. last |-> Accessing(yystack[k + 1])]
    BY <2>6 DEF Symbols, AccessingSymbol, Accessing
  <2>9. T!IsSeq(v) /\ Len(v) = last
    <3>1. PICK S : S = { Accessing(yystack[k + 1]) : k \in 1 .. last } OBVIOUS
    <3>2. v \in [1 .. last -> S] BY <2>8, <3>1
    <3>3. v \in Seq(S) BY <2>7, <3>2
    <3> QED BY <2>7, <3>2, <3>3, T!SeqIs
  <2>10. PICK l : l = last - m + 1 OBVIOUS
  <2>11. l \in 1 .. Len(v) + 1 /\ last \in 0 .. Len(v) /\ l <= last + 1 /\ last - l + 1 = m
    BY <2>4, <2>7, <2>9, <2>10
  <2>12. PICK w : w = SubSeq(v, l, last) OBVIOUS
  <2>13. T!IsSeq(w) /\ Len(w) = m /\ \A j \in 1 .. m : w[j] = v[l + j - 1]
    BY <2>9, <2>11, <2>12, T!PartFacts
  <2>14. w = u
    <3>1. ASSUME NEW j \in 1 .. m PROVE w[j] = u[j]
      <4>1. /\ l + j - 1 \in 1 .. last /\ l + j - 1 + 1 = Len(yystack) - m + j
        BY <1>1, <2>4, <2>6, <2>7, <2>10
      <4>2. v[l + j - 1] = Accessing(yystack[Len(yystack) - m + j]) BY <2>8, <4>1
      <4> QED BY <2>4, <2>13, <4>2
    <3>2. u = [j \in 1 .. m |-> u[j]] BY <2>3, <2>5
    <3>3. w = [j \in 1 .. m |-> w[j]]
      <4>1. w \in Seq({ w[j] : j \in DOMAIN w }) BY <2>13 DEF T!IsSeq
      <4> QED BY <2>13, <4>1
    <3> QED BY <3>1, <3>2, <3>3
  <2> QED BY <2>1, <2>3, <2>6, <2>7, <2>9, <2>10, <2>12, <2>14 DEF IsSuffixOf, RULE_NUM_OFFSET
<1> QED BY <1>1, <1>2, <1>3 DEF IsPath

(***************************************************************************)
(* For every set of grammars, every input and any end of the actions: what *)
(* yyparse() of a parser without -B has on its stack is a path of the      *)
(* automaton from state 0, and when it reduces a rule, the right-hand side *)
(* is on top: it never pops below state 0, and every goto it looks up in   *)
(* the packed tables exists (yaccpar.skel:303-335).                        *)
(***************************************************************************)
THEOREM StackIsPathForAllGrammars == ParserSpec => [](~g.backtrack => StackIsPath)
<1>1. ParserInit => StackSystem
  <2> SUFFICES ASSUME ParserInit PROVE StackSystem OBVIOUS
  <2>1. B!BtInit /\ phase = "lr0" BY DEF ParserInit, Init, LR0Init
  <2> QED BY <2>1, TablesAtStart DEF StackSystem
<1>2. StackSystem /\ [ParserNext]_allVars => StackSystem' BY StackSystemStep
<1>3. StackSystem => (~g.backtrack => StackIsPath)
  <2> SUFFICES ASSUME StackSystem, ~g.backtrack PROVE StackIsPath OBVIOUS
  <2>1. CASE phase = "written"
    <3>1. Built /\ StackInv BY <2>1 DEF StackSystem, TablesInv, Finished, Generated
    <3> QED BY <3>1, StackFollows
  <2>2. CASE phase # "written"
    <3>1. yystack = << >> BY <2>2 DEF StackSystem, B!BtInit, B!Init
    <3> QED BY <3>1 DEF StackIsPath
  <2> QED BY <2>1, <2>2
<1> QED BY <1>1, <1>2, <1>3, PTL DEF ParserSpec


-----------------------------------------------------------------------------
(***************************************************************************)
(* Types and bounds of the parser without -B.  YYFINAL is pushed without a *)
(* look at the size of the stack, on state 0: there must be room for two   *)
(* states.  yylex() is not called again after the end if no other token    *)
(* has its number, 0, in the file.                                         *)
(***************************************************************************)
DepthOK ==
    /\ YYMAXDEPTH \in Nat /\ YYINITSTACKSIZE \in Nat
    /\ 2 <= YYINITSTACKSIZE /\ YYINITSTACKSIZE <= YYMAXDEPTH
OnlyEndIsZero == \A gr \in Grammars : \A x \in 1 .. gr.ntokens - 1 : gr.value[x] # 0

StackFits(s, size) ==
    /\ size \in Nat /\ size <= YYMAXDEPTH /\ Len(s) <= size
    /\ s # << >> => size >= 2
ReadOK(w, c) ==
    /\ w \in Seq(Nat)
    /\ Len(w) <= MaxTokens \/ (Len(w) = MaxTokens + 1 /\ c = 0)

TypeInv == pc \in Labels /\ StackFits(yystack, stacksize) /\ ReadOK(read, yychar)

LEMMA PushFits ==
    ASSUME DepthOK, StackFits(yystack, stacksize), yystack # << >>, NEW s, NEW q, Built, IsPath(s),
           Leads(s[Len(s)], q), Len(s) <= Len(yystack), Len(yystack) \in Nat, Y!Push(s, q, "yyloop")
    PROVE  StackFits(yystack', stacksize')
<1>1. Len(s) \in Nat /\ s # << >> BY DEF IsPath
<1>2. stacksize \in Nat /\ stacksize >= 2 /\ stacksize <= YYMAXDEPTH /\ Len(s) <= stacksize
  BY <1>1 DEF StackFits
<1>3. Len(Append(s, q)) = Len(s) + 1 /\ Append(s, q) # << >> BY PathGrows
<1>4. CASE Len(s) < stacksize
  <2>1. yystack' = Append(s, q) /\ stacksize' = stacksize BY <1>4 DEF Y!Push
  <2> QED BY <1>1, <1>2, <1>3, <1>4, <2>1 DEF StackFits
<1>5. CASE ~(Len(s) < stacksize)
  <2>1. CASE stacksize < YYMAXDEPTH /\ stacksize' = Y!Larger /\ yystack' = Append(s, q)
    <3>1. Y!Larger \in Nat /\ Y!Larger > stacksize /\ Y!Larger <= YYMAXDEPTH
      BY <1>2, <2>1 DEF Y!Larger, DepthOK
    <3>2. Len(s) + 1 <= Y!Larger BY <1>1, <1>2, <3>1
    <3> QED BY <1>2, <1>3, <2>1, <3>1, <3>2 DEF StackFits
  <2>2. CASE yystack' = s /\ stacksize' = stacksize BY <1>1, <1>2, <2>2 DEF StackFits
  <2> QED BY <1>5, <2>1, <2>2 DEF Y!Push
<1> QED BY <1>4, <1>5

LEMMA TokenRead ==
    ASSUME TablesSound(tables), ReadOK(read, yychar), yychar < 0, NEW c \in Y!Tokens, Y!NextToken(c)
    PROVE  ReadOK(read', yychar')
<1>1. c \in Nat /\ yychar' = c /\ read' = Append(read, c) /\ (Len(read) >= MaxTokens => c = 0)
  BY TokensAreNumbers DEF Y!NextToken, Y!YYEOF
<1>2. read \in Seq(Nat) /\ Len(read) \in Nat /\ Len(read) <= MaxTokens BY DEF ReadOK
<1>3. read' \in Seq(Nat) /\ Len(read') = Len(read) + 1 BY <1>1, <1>2
<1>4. MaxTokens \in Nat BY ParserAssumption
<1> QED BY <1>1, <1>2, <1>3, <1>4 DEF ReadOK

LEMMA TypeStep ==
    ASSUME DepthOK, OnlyEndIsZero, Built, TablesSound(tables), StackOK(pc, yystack, yyn, yychar),
           TypeInv, Y!Next
    PROVE  TypeInv'
<1>1. pc \in InUse => IsPath(yystack) /\ yystack # << >> /\ Len(yystack) \in Nat BY DEF StackOK, IsPath
<1>2. StackFits(yystack, stacksize) /\ ReadOK(read, yychar) /\ pc \in Labels BY DEF TypeInv
<1>3. ASSUME StackFits(yystack', stacksize'), ReadOK(read', yychar'), pc' \in Labels
      PROVE  TypeInv'
  BY <1>3 DEF TypeInv, StackFits, ReadOK
<1>4. CASE Y!StartParser
  <2>1. UNCHANGED << read, yychar >> /\ pc' \in Labels BY <1>4 DEF Y!StartParser, Labels
  <2>2. StackFits(yystack', stacksize')
    <3>1. CASE UNCHANGED << yystack, stacksize >> BY <1>2, <3>1
    <3>2. CASE stacksize' = YYINITSTACKSIZE /\ yystack' = << 0 >>
      BY <3>2, PathStart DEF StackFits, DepthOK
    <3> QED BY <1>4, <3>1, <3>2 DEF Y!StartParser
  <2> QED BY <1>2, <1>3, <2>1, <2>2
<1>5. CASE Y!DefaultReduce \/ Y!Reduce \/ Y!SyntaxError \/ Y!StartRecovery \/ Y!Overflow
  <2>1. UNCHANGED << yystack, stacksize, read, yychar >> /\ pc' \in Labels
    BY <1>5 DEF Y!DefaultReduce, Y!Reduce, Y!SyntaxError, Y!StartRecovery, Y!Overflow, Labels
  <2> QED BY <1>2, <1>3, <2>1
<1>6. CASE Y!ActionJumps
  <2>1. UNCHANGED << yystack, stacksize, read, yychar >> /\ pc' \in Labels
    BY <1>6 DEF Y!ActionJumps, Labels
  <2> QED BY <1>2, <1>3, <2>1
<1>7. CASE Y!Lex
  <2>1. UNCHANGED << pc, yystack, stacksize >> /\ yychar < 0 /\ \E c \in Y!Tokens : Y!NextToken(c)
    BY <1>7 DEF Y!Lex
  <2> QED BY <1>2, <1>3, <2>1, TokenRead
<1>8. CASE Y!Shift
  <2>1. PICK n, q : n = yystack[Len(yystack)] /\ q = Y!At(tables.sindex[n], yychar) OBVIOUS
  <2>2. n = Y!yystate BY <2>1 DEF Y!yystate, Y!Last
  <2>3. /\ pc = "yyloop" /\ yychar \in Nat /\ Y!Found(tables.sindex[n], yychar)
        /\ Y!Push(yystack, q, "yyloop") /\ read' = read
    BY <1>8, <2>1, <2>2 DEF Y!Shift, Y!Ready, StackOK
  <2>4. Leads(n, q) /\ \E x \in 1 .. g.ntokens - 1 : g.value[x] = yychar
    BY <1>1, <2>1, <2>3, OnTop DEF InUse
  <2>5. StackFits(yystack', stacksize') BY <1>1, <1>2, <2>1, <2>3, <2>4, PushFits DEF InUse
  <2>6. yychar # 0
    <3>1. g \in Grammars BY DEF Built, LR0Inv
    <3> QED BY <2>4, <3>1 DEF OnlyEndIsZero
  <2>7. ReadOK(read', yychar') BY <1>2, <2>3, <2>6 DEF ReadOK
  <2>8. pc' \in Labels BY <2>3 DEF Y!Push, Labels
  <2> QED BY <1>3, <2>5, <2>7, <2>8
<1>9. CASE Y!DiscardToken
  <2>1. /\ UNCHANGED << yystack, stacksize, read >> /\ pc' \in Labels
        /\ yychar = 0 => yychar' = 0
    BY <1>9 DEF Y!DiscardToken, Y!YYEOF, Labels
  <2> QED BY <1>2, <1>3, <2>1 DEF ReadOK
<1>10. CASE Y!ShiftError
  <2>1. PICK n, q : n = yystack[Len(yystack)] /\ q = Y!At(tables.sindex[n], tables.YYERRCODE) OBVIOUS
  <2>2. n = Y!yystate BY <2>1 DEF Y!yystate, Y!Last
  <2>3. /\ pc = "discard states" /\ Y!Found(tables.sindex[n], tables.YYERRCODE)
        /\ Y!Push(yystack, q, "yyloop") /\ UNCHANGED << read, yychar >>
    BY <1>10, <2>1, <2>2 DEF Y!ShiftError
  <2>4. tables.YYERRCODE \in Nat BY DEF TablesSound
  <2>5. Leads(n, q) BY <1>1, <2>1, <2>3, <2>4, OnTop DEF InUse
  <2>6. StackFits(yystack', stacksize')
    <3>1. Len(yystack) \in Nat /\ IsPath(yystack) /\ yystack # << >> BY <1>1, <2>3 DEF InUse
    <3>2. Len(yystack) <= Len(yystack) BY <3>1
    <3> QED BY <1>2, <2>1, <2>3, <2>5, <3>1, <3>2, PushFits
  <2>7. pc' \in Labels BY <2>3 DEF Y!Push, Labels
  <2> QED BY <1>2, <1>3, <2>3, <2>6, <2>7
<1>11. CASE Y!DiscardState
  <2>1. /\ pc = "discard states" /\ pc' \in Labels /\ UNCHANGED << stacksize, read, yychar >>
        /\ yystack' = yystack \/ (Len(yystack) # 1 /\ yystack' = SubSeq(yystack, 1, Len(yystack) - 1))
    BY <1>11 DEF Y!DiscardState, Y!Front, Labels
  <2>2. StackFits(yystack', stacksize')
    <3>1. CASE yystack' = yystack BY <1>2, <2>1, <3>1
    <3>2. CASE Len(yystack) # 1 /\ yystack' = SubSeq(yystack, 1, Len(yystack) - 1)
      <4>1. IsPath(yystack) /\ Len(yystack) \in Nat /\ yystack # << >> BY <1>1, <2>1 DEF InUse
      <4>2. PICK l : l = Len(yystack) OBVIOUS
      <4>3. l - 1 \in 1 .. l /\ l \in Nat
        <5>1. l \in Nat /\ l # 0 BY <4>1, <4>2 DEF IsPath
        <5> QED BY <3>2, <4>2, <5>1
      <4>4. Len(yystack') = l - 1 BY <3>2, <4>1, <4>2, <4>3, PathPart
      <4>5. stacksize \in Nat /\ l <= stacksize /\ stacksize >= 2 /\ stacksize <= YYMAXDEPTH
        BY <1>2, <4>1, <4>2 DEF StackFits
      <4>6. Len(yystack') <= stacksize BY <4>3, <4>4, <4>5
      <4> QED BY <2>1, <4>5, <4>6 DEF StackFits
    <3> QED BY <2>1, <3>1, <3>2
  <2> QED BY <1>2, <1>3, <2>1, <2>2
<1>12. CASE Y!Goto \/ Y!FinalState
  <2>1. /\ pc = "yyreduce" /\ IsPath(yystack) /\ yystack # << >> /\ Len(yystack) \in Nat
        /\ Reduces(yystack[Len(yystack)], yyn)
    BY <1>1, <1>12 DEF Y!Goto, Y!FinalState, InUse, StackOK
  <2>2. PICK u, q : u = Y!Rest /\ q = Y!GotoState OBVIOUS
  <2>3. /\ IsPath(u) /\ Y!Last(Y!Rest) = u[Len(u)] /\ Leads(u[Len(u)], q)
        /\ Len(u) \in 1 .. Len(yystack)
    BY <2>1, <2>2, AfterPop
  <2>4. CASE Y!Goto
    <3>1. Y!Push(u, q, "yyloop") /\ UNCHANGED << read, yychar >> BY <2>2, <2>4 DEF Y!Goto
    <3>2. Len(u) <= Len(yystack) BY <2>1, <2>3
    <3>3. StackFits(yystack', stacksize') BY <1>2, <2>1, <2>3, <3>1, <3>2, PushFits
    <3>4. pc' \in Labels BY <3>1 DEF Y!Push, Labels
    <3> QED BY <1>2, <1>3, <3>1, <3>3, <3>4
  <2>5. CASE Y!FinalState
    <3>1. /\ u[Len(u)] = 0 /\ yystack' = Append(u, tables.YYFINAL) /\ stacksize' = stacksize
          /\ pc' \in Labels
      BY <2>2, <2>3, <2>5 DEF Y!FinalState, Y!OfGoal, Labels
    <3>2. Len(u) = 1
      <4>1. SUFFICES ASSUME Len(u) # 1 PROVE FALSE OBVIOUS
      <4>2. PICK l : l = Len(u) OBVIOUS
      <4>3. l \in Nat /\ l >= 1 /\ l # 1 BY <2>1, <2>3, <4>1, <4>2
      <4>4. l - 1 \in 1 .. Len(u) - 1 /\ l - 1 \in 1 .. Len(u) /\ l - 1 + 1 = l BY <4>2, <4>3
      <4>5. Leads(u[l - 1], u[l]) /\ u[l - 1] \in DOMAIN states BY <2>3, <4>4 DEF IsPath
      <4> QED BY <3>1, <4>2, <4>5, Transitions
    <3>3. PICK f : f = tables.YYFINAL /\ Leads(u[Len(u)], f) BY <3>1 DEF TablesSound
    <3>4. Len(yystack') = 2
      <4>1. Len(Append(u, f)) = Len(u) + 1 BY <2>3, <3>3, PathGrows
      <4> QED BY <3>1, <3>2, <3>3, <4>1
    <3>5. StackFits(yystack', stacksize') BY <1>2, <2>1, <3>1, <3>4 DEF StackFits
    <3>6. ReadOK(read', yychar')
      <4>1. CASE yychar < 0
        <5>1. \E c \in Y!Tokens : Y!NextToken(c) BY <2>5, <4>1 DEF Y!FinalState
        <5> QED BY <1>2, <4>1, <5>1, TokenRead
      <4>2. CASE ~(yychar < 0)
        <5>1. UNCHANGED << read, yychar >> BY <2>5, <4>2 DEF Y!FinalState
        <5> QED BY <1>2, <5>1
      <4> QED BY <4>1, <4>2
    <3> QED BY <1>3, <3>1, <3>5, <3>6
  <2> QED BY <1>12, <2>4, <2>5
<1> QED BY <1>4, <1>5, <1>6, <1>7, <1>8, <1>9, <1>10, <1>11, <1>12 DEF Y!Next


TypeSystem ==
    /\ StackSystem
    /\ QuietSystem
    /\ phase = "written" /\ ~g.backtrack => TypeInv /\ yyvs = << >>

LEMMA TypesAtStart ==
    ASSUME DepthOK
    PROVE  B!BtInit => TypeInv /\ yyvs = << >>
<1> SUFFICES ASSUME B!BtInit PROVE TypeInv /\ yyvs = << >> OBVIOUS
<1>1. /\ pc = "yyparse" /\ yystack = << >> /\ stacksize = 0 /\ read = << >> /\ yyvs = << >>
  BY DEF B!BtInit, B!Init
<1>2. Len(<< >>) = 0 /\ << >> \in Seq(Nat) OBVIOUS
<1> QED BY <1>1, <1>2, ParserAssumption DEF TypeInv, Labels, StackFits, ReadOK, DepthOK

LEMMA TypeSystemStep ==
    ASSUME DepthOK, OnlyEndIsZero, TypeSystem, [ParserNext]_allVars
    PROVE  TypeSystem'
<1>1. StackSystem' /\ QuietSystem' BY StackSystemStep, QuietSystemStep DEF TypeSystem
<1>2. CASE UNCHANGED parserState /\ phase # "written"
  <2>1. B!BtInit BY <1>2 DEF TypeSystem, StackSystem
  <2>2. TypeInv /\ yyvs = << >> BY <2>1, TypesAtStart
  <2>3. TypeInv' /\ yyvs' = << >>
    BY <1>2, <2>2 DEF TypeInv, StackFits, ReadOK, parserState, parserVars, btVars
  <2> QED BY <1>1, <2>3 DEF TypeSystem
<1>3. CASE Generate BY <1>2, <1>3, WrittenOnce
<1>4. CASE UNCHANGED << vars, outputVars >> /\ phase = "written"
           /\ (~g.backtrack => (Y!Next /\ UNCHANGED btVars) \/ UNCHANGED parserState)
  <2>1. phase' = phase /\ g' = g BY <1>4 DEF vars, lr0Vars
  <2>2. CASE ~g.backtrack
    <3>1. TypeInv /\ yyvs = << >> BY <1>4, <2>2 DEF TypeSystem
    <3>2. yyvs' = << >> BY <1>4, <2>2, <3>1 DEF parserState, btVars
    <3>3. TypeInv'
      <4>1. Built /\ TablesSound(tables) /\ StackOK(pc, yystack, yyn, yychar)
        BY <1>4, <2>2 DEF TypeSystem, StackSystem, StackInv, TablesInv, Finished, Generated
      <4>2. Y!Next => TypeInv' BY <3>1, <4>1, TypeStep
      <4>3. UNCHANGED parserState => TypeInv'
        BY <3>1 DEF TypeInv, StackFits, ReadOK, parserState, parserVars
      <4> QED BY <1>4, <2>2, <4>2, <4>3
    <3> QED BY <1>1, <3>2, <3>3 DEF TypeSystem
  <2> QED BY <1>1, <2>1, <2>2 DEF TypeSystem
<1>5. CASE Parse BY <1>4, <1>5 DEF Parse
<1>6. CASE UNCHANGED allVars
  <2>1. UNCHANGED parserState /\ UNCHANGED << vars, outputVars >> BY <1>6 DEF allVars, parserState
  <2> QED BY <1>2, <1>4, <2>1
<1> QED BY <1>3, <1>5, <1>6 DEF ParserNext

(***************************************************************************)
(* For every set of grammars and every input, the stack of a parser        *)
(* without -B holds states of the automaton and never more of them than    *)
(* there is room for, YYFINAL included, which is pushed without a test,    *)
(* and yylex() is not called again after the end (yaccpar.skel:315, 319).  *)
(***************************************************************************)
THEOREM ParserTypesForAllGrammars ==
    ASSUME DepthOK, OnlyEndIsZero
    PROVE  ParserSpec => [](~g.backtrack => ParserTypeOK)
<1>1. ParserInit => TypeSystem
  <2> SUFFICES ASSUME ParserInit PROVE TypeSystem OBVIOUS
  <2>1. B!BtInit /\ phase = "lr0" BY DEF ParserInit, Init, LR0Init
  <2> QED BY <2>1, TablesAtStart DEF TypeSystem, StackSystem, QuietSystem
<1>2. TypeSystem /\ [ParserNext]_allVars => TypeSystem' BY TypeSystemStep
<1>3. TypeSystem => (~g.backtrack => ParserTypeOK)
  <2> SUFFICES ASSUME TypeSystem, ~g.backtrack PROVE ParserTypeOK OBVIOUS
  <2>1. CASE phase = "written"
    <3>1. TypeInv /\ yyvs = << >> /\ QuietInv /\ StackOK(pc, yystack, yyn, yychar)
      BY <2>1 DEF TypeSystem, StackSystem, QuietSystem, StackInv
    <3>2. \A k \in DOMAIN yystack : yystack[k] \in DOMAIN states
      <4>1. CASE yystack = << >>
        <5>1. DOMAIN << >> = {} BY T!EmptyIs
        <5> QED BY <4>1, <5>1
      <4>2. CASE IsPath(yystack)
        <5>1. yystack \in Seq(DOMAIN states) BY <4>2 DEF IsPath
        <5> QED BY <5>1
      <4> QED BY <3>1, <4>1, <4>2 DEF StackOK
    <3>3. ToSet(yystack) \subseteq DOMAIN states BY <3>2 DEF ToSet
    <3>4. Len(read) <= MaxTokens + 1
      <4>1. read \in Seq(Nat) /\ MaxTokens \in Nat BY <3>1, ParserAssumption DEF TypeInv, ReadOK
      <4>2. Len(read) \in Nat BY <4>1
      <4> QED BY <3>1, <4>1, <4>2 DEF TypeInv, ReadOK
    <3>5. Len(yyvs) = 0
      <4>1. Len(<< >>) = 0 OBVIOUS
      <4> QED BY <3>1, <4>1
    <3> QED BY <2>1, <3>1, <3>3, <3>4, <3>5 DEF ParserTypeOK, TypeInv, StackFits, QuietInv
  <2>2. CASE phase # "written"
    <3>1. B!BtInit BY <2>2 DEF TypeSystem, StackSystem
    <3>2. TypeInv /\ yyvs = << >> BY <3>1, TypesAtStart
    <3>3. yystack = << >> /\ read = << >> /\ yyerrflag = 0 BY <3>1 DEF B!BtInit, B!Init
    <3>4. Len(<< >>) = 0 /\ DOMAIN << >> = {} BY T!EmptyIs
    <3>5. ToSet(yystack) = {} BY <3>3, <3>4 DEF ToSet
    <3>6. Len(read) <= MaxTokens + 1 BY <3>3, <3>4, ParserAssumption
    <3> QED BY <2>2, <3>2, <3>3, <3>4, <3>5, <3>6 DEF ParserTypeOK, TypeInv, StackFits
  <2> QED BY <2>1, <2>2
<1> QED BY <1>1, <1>2, <1>3, PTL DEF ParserSpec

-----------------------------------------------------------------------------
(***************************************************************************)
(* What is on the stack of the parser derives what it has shifted.         *)
(***************************************************************************)
Unbracketed(gr) == \A r \in DOMAIN gr.rules : gr.brackets[r] = "none"

LEMMA GrammarIsLanguage ==
    ASSUME NEW gr \in Grammars, Unbracketed(gr),
           NEW lang, lang = Unvetoed(gr)
    PROVE  /\ LanguageOK(lang) /\ lang.ntokens = gr.ntokens /\ lang.nsyms = gr.nsyms /\ lang.top = 2
           /\ Vars(lang) = Vars(gr) /\ DOMAIN lang.rules = DOMAIN gr.rules
           /\ \A r \in DOMAIN gr.rules : lang.rules[r] = gr.rules[r]
<1>1. { r \in DOMAIN gr.rules : gr.brackets[r] # "YYERROR" } = DOMAIN gr.rules BY DEF Unbracketed
<1>2. GrammarOK(gr) BY GrammarsAssumption
<1>3. PICK kept : kept = [r \in { q \in DOMAIN gr.rules : gr.brackets[q] # "YYERROR" } |-> gr.rules[r]]
  OBVIOUS
<1>4. DOMAIN kept = DOMAIN gr.rules /\ \A r \in DOMAIN gr.rules : kept[r] = gr.rules[r] BY <1>1, <1>3
<1>5. lang.ntokens = gr.ntokens /\ lang.nsyms = gr.nsyms /\ lang.top = 2 /\ lang.rules = kept
  BY <1>2, <1>3 DEF Unvetoed, GrammarOK
<1>6. Vars(lang) = Vars(gr) BY <1>5 DEF Vars
<1>7. LanguageOK(lang)
  <2>1. gr.ntokens \in Nat /\ gr.nsyms \in Nat BY <1>2 DEF GrammarOK
  <2>2. IsFiniteSet(Vars(gr))
    <3>1. gr.nsyms - 1 \in Int /\ gr.ntokens \in Int BY <2>1
    <3> QED BY <3>1, FS_Interval DEF Vars
  <2>3. ASSUME NEW r \in DOMAIN lang.rules
        PROVE  lang.rules[r].lhs \in Vars(lang) /\ Rhs(lang, r) \in Seq(Symbol(lang))
    <3>1. r \in DOMAIN gr.rules /\ lang.rules[r] = gr.rules[r] BY <1>4, <1>5, <2>3
    <3>2. gr.rules[r].lhs \in Vars(gr) /\ Rhs(gr, r) \in Seq(Symbol(gr)) BY <3>1, RuleFacts
    <3> QED BY <1>5, <1>6, <3>1, <3>2 DEF Rhs, Symbol
  <2> QED BY <1>5, <1>6, <2>1, <2>2, <2>3 DEF LanguageOK
<1> QED BY <1>4, <1>5, <1>6, <1>7

(* Only with -B has a rule an action in brackets (reader.c:3625). *)
BracketsNeedB == \A gr \in Grammars : ~gr.backtrack => Unbracketed(gr)

Derived(gr) == DerivedStrings(Unvetoed(gr), MaxTokens + 1)
StringsFrom(gr, x) == StringsOf(Unvetoed(gr), Derived(gr), x)
ShortOf(gr) == { w \in Words(gr) : Len(w) <= MaxTokens }

(* The symbols of the states of s derive w, each its part of it. *)
Cuts(cut, gr, s, w) ==
    /\ cut \in [1 .. Len(s) -> 0 .. Len(w)]
    /\ cut[1] = 0 /\ cut[Len(s)] = Len(w)
    /\ \A n \in 1 .. Len(s) - 1 :
          cut[n] <= cut[n + 1] /\ Piece(w, cut[n], cut[n + 1]) \in StringsFrom(gr, Accessing(s[n + 1]))
Spells(gr, s, w) == \E cut : Cuts(cut, gr, s, w)

LEMMA SpellsNothing ==
    ASSUME NEW gr, NEW q
    PROVE  Spells(gr, << q >>, << >>)
<1>1. PICK s, w : s = << q >> /\ w = << >> OBVIOUS
<1>2. Len(s) = 1 /\ Len(w) = 0 /\ 1 .. Len(s) - 1 = {} BY <1>1
<1>3. PICK cut : cut = [n \in 1 .. Len(s) |-> 0] OBVIOUS
<1>4. Cuts(cut, gr, s, w) BY <1>2, <1>3 DEF Cuts
<1> QED BY <1>1, <1>4 DEF Spells

(* A token is shifted. *)
LEMMA SpellsShift ==
    ASSUME NEW gr \in Grammars, NEW S, NEW s \in Seq(S), Len(s) > 0, NEW w \in Words(gr), Spells(gr, s, w),
           NEW x \in 0 .. gr.ntokens - 1, NEW q, Accessing(q) = x
    PROVE  Spells(gr, Append(s, q), Append(w, x))
<1>1. PICK cut : Cuts(cut, gr, s, w) BY DEF Spells
<1>2. PICK l, m : l = Len(s) /\ m = Len(w) OBVIOUS
<1>3. l \in Nat /\ m \in Nat /\ l > 0 /\ w \in Seq(0 .. gr.ntokens - 1) BY <1>2 DEF Words
<1>4. PICK s2, w2 : s2 = Append(s, q) /\ w2 = Append(w, x) OBVIOUS
<1>5. Len(s2) = l + 1 /\ s2[l + 1] = q /\ \A n \in 1 .. l : s2[n] = s[n]
  BY <1>2, <1>3, <1>4
<1>6. w2 \in Seq(0 .. gr.ntokens - 1) /\ Len(w2) = m + 1 /\ w2[m + 1] = x /\ \A n \in 1 .. m : w2[n] = w[n]
  BY <1>2, <1>3, <1>4
<1>7. PICK cut2 : cut2 = [n \in 1 .. l + 1 |-> IF n = l + 1 THEN m + 1 ELSE cut[n]] OBVIOUS
<1>8. /\ cut \in [1 .. l -> 0 .. m] /\ cut[1] = 0 /\ cut[l] = m
      /\ \A n \in 1 .. l - 1 :
            cut[n] <= cut[n + 1] /\ Piece(w, cut[n], cut[n + 1]) \in StringsFrom(gr, Accessing(s[n + 1]))
  BY <1>1, <1>2 DEF Cuts
<1>9. /\ cut2 \in [1 .. l + 1 -> 0 .. m + 1] /\ cut2[1] = 0 /\ cut2[l + 1] = m + 1 /\ cut2[l] = m
      /\ \A n \in 1 .. l : cut2[n] = cut[n] /\ cut2[n] \in 0 .. m
  <2>1. \A n \in 1 .. l + 1 : n # l + 1 => n \in 1 .. l BY <1>3
  <2>2. \A n \in 1 .. l : n \in 1 .. l + 1 /\ n # l + 1 BY <1>3
  <2>3. 0 .. m \subseteq 0 .. m + 1 /\ m + 1 \in 0 .. m + 1 /\ l + 1 \in 1 .. l + 1 /\ 1 \in 1 .. l /\ l \in 1 .. l
    BY <1>3
  <2>4. \A n \in 1 .. l : cut2[n] = cut[n] /\ cut2[n] \in 0 .. m BY <1>7, <1>8, <2>2
  <2>5. cut2 \in [1 .. l + 1 -> 0 .. m + 1] BY <1>7, <1>8, <2>1, <2>3
  <2> QED BY <1>7, <1>8, <2>3, <2>4, <2>5
<1>10. ASSUME NEW n \in 1 .. l
       PROVE  cut2[n] <= cut2[n + 1] /\ Piece(w2, cut2[n], cut2[n + 1]) \in StringsFrom(gr, Accessing(s2[n + 1]))
  <2>1. CASE n = l
    <3>1. PICK u, e : e = m + 1 /\ u = Piece(w2, m, e) OBVIOUS
    <3>2. e \in 0 .. Len(w2) /\ m \in 0 .. e /\ e - m = 1 /\ 1 \in 1 .. e - m BY <1>3, <1>6, <3>1
    <3>3. /\ Piece(w2, m, e) \in Seq(0 .. gr.ntokens - 1) /\ Len(Piece(w2, m, e)) = e - m
          /\ \A j \in 1 .. e - m : Piece(w2, m, e)[j] = w2[m + j]
      BY <1>6, <3>2, PieceFacts
    <3>4. u \in Seq(0 .. gr.ntokens - 1) /\ Len(u) = 1 /\ u[1] = x
      <4>1. u[1] = w2[m + 1] BY <3>1, <3>2, <3>3
      <4> QED BY <1>6, <3>1, <3>2, <3>3, <4>1
    <3>5. u = << x >> BY <3>4
    <3>6. IsToken(Unvetoed(gr), x)
      <4>1. gr.ntokens \in Nat BY GrammarsAssumption DEF GrammarOK
      <4> QED BY <4>1 DEF IsToken, Unvetoed
    <3>7. u \in StringsFrom(gr, x) BY <3>5, <3>6 DEF StringsFrom, StringsOf
    <3> QED BY <1>3, <1>5, <1>9, <2>1, <3>1, <3>7
  <2>2. CASE n # l
    <3>1. n \in 1 .. l - 1 /\ n + 1 \in 1 .. l BY <1>3, <2>2
    <3>2. cut2[n] = cut[n] /\ cut2[n + 1] = cut[n + 1] /\ s2[n + 1] = s[n + 1] BY <1>5, <1>9, <3>1
    <3>3. PICK a, b : a = cut[n] /\ b = cut[n + 1] OBVIOUS
    <3>4. a \in 0 .. m /\ b \in 0 .. m /\ a <= b BY <1>8, <3>1, <3>3
    <3>5. Piece(w2, a, b) = Piece(w, a, b)
      <4>1. b \in 0 .. Len(w) /\ b \in 0 .. Len(w2) /\ a \in 0 .. b BY <1>2, <1>3, <1>6, <3>4
      <4>2. PICK u, v : u = Piece(w, a, b) /\ v = Piece(w2, a, b) OBVIOUS
      <4>3. /\ Piece(w, a, b) \in Seq(0 .. gr.ntokens - 1) /\ Len(Piece(w, a, b)) = b - a
            /\ \A j \in 1 .. b - a : Piece(w, a, b)[j] = w[a + j]
        BY <1>3, <4>1, PieceFacts
      <4>4. /\ Piece(w2, a, b) \in Seq(0 .. gr.ntokens - 1) /\ Len(Piece(w2, a, b)) = b - a
            /\ \A j \in 1 .. b - a : Piece(w2, a, b)[j] = w2[a + j]
        BY <1>6, <4>1, PieceFacts
      <4>5. \A j \in 1 .. b - a : a + j \in 1 .. m BY <1>3, <3>4
      <4>6. \A j \in 1 .. Len(u) : u[j] = v[j] BY <1>6, <4>2, <4>3, <4>4, <4>5
      <4>7. u = v BY <4>2, <4>3, <4>4, <4>6, SameWord
      <4> QED BY <4>2, <4>7
    <3> QED BY <1>8, <3>1, <3>2, <3>3, <3>4, <3>5
  <2> QED BY <2>1, <2>2
<1>11. Cuts(cut2, gr, s2, w2)
  <2>1. Len(s2) - 1 = l /\ Len(s2) = l + 1 /\ Len(w2) = m + 1 BY <1>3, <1>5, <1>6
  <2>2. \A n \in 1 .. Len(s2) - 1 :
           cut2[n] <= cut2[n + 1] /\ Piece(w2, cut2[n], cut2[n + 1]) \in StringsFrom(gr, Accessing(s2[n + 1]))
    BY <1>10, <2>1
  <2>3. cut2 \in [1 .. Len(s2) -> 0 .. Len(w2)] /\ cut2[1] = 0 /\ cut2[Len(s2)] = Len(w2) BY <1>9, <2>1
  <2> QED BY <2>2, <2>3 DEF Cuts
<1> QED BY <1>4, <1>11 DEF Spells

LEMMA Appended ==
    ASSUME NEW A, NEW u \in Seq(A), NEW q
    PROVE  Len(Append(u, q)) = Len(u) + 1 /\ Append(u, q)[Len(u) + 1] = q
           /\ \A n \in 1 .. Len(u) : Append(u, q)[n] = u[n]
<1>1. Len(u) \in Nat OBVIOUS
<1> QED BY <1>1

(* A right-hand side is replaced. *)
OnTopOf(s, gr, r, u) ==
    LET m == Len(Rhs(gr, r)) IN
    /\ m < Len(s) /\ \A n \in 1 .. m : Accessing(s[Len(s) - m + n]) = Rhs(gr, r)[n]
    /\ Len(u) = Len(s) - m /\ \A n \in 1 .. Len(u) : u[n] = s[n]

LEMMA SpellsReduce ==
    ASSUME NEW gr \in Grammars, Unbracketed(gr), MaxTokens \in Nat,
           NEW S, NEW s \in Seq(S), NEW w \in ShortOf(gr), Spells(gr, s, w),
           NEW r \in DOMAIN gr.rules \ {2}, NEW u \in Seq(S), OnTopOf(s, gr, r, u),
           NEW q, Accessing(q) = gr.rules[r].lhs
    PROVE  Spells(gr, Append(u, q), w)
<1>0. PICK m : m = Len(Rhs(gr, r)) OBVIOUS
<1>21. /\ m < Len(s) /\ \A n \in 1 .. m : Accessing(s[Len(s) - m + n]) = Rhs(gr, r)[n]
      /\ Len(u) = Len(s) - m /\ \A n \in 1 .. Len(u) : u[n] = s[n]
  BY <1>0 DEF OnTopOf
<1>1. PICK cut : Cuts(cut, gr, s, w) BY DEF Spells
<1>2. PICK l, k, len : l = Len(s) /\ k = Len(u) /\ len = Len(w) OBVIOUS
<1>3. /\ m \in Nat /\ l \in Nat /\ k \in Nat /\ k > 0 /\ k + m = l /\ l - m = k
      /\ len \in Nat /\ len <= MaxTokens /\ w \in Words(gr)
  <2>1. m \in Nat BY <1>0, RuleFacts
  <2>2. l \in Nat BY <1>2
  <2> QED BY <1>2, <1>21, <2>1, <2>2 DEF ShortOf, Words
<1>4. /\ cut \in [1 .. l -> 0 .. len] /\ cut[1] = 0 /\ cut[l] = len
      /\ \A n \in 1 .. l - 1 :
            cut[n] <= cut[n + 1] /\ Piece(w, cut[n], cut[n + 1]) \in StringsFrom(gr, Accessing(s[n + 1]))
  BY <1>1, <1>2 DEF Cuts
<1>5. PICK lang : lang = Unvetoed(gr) OBVIOUS
<1>6. /\ LanguageOK(lang) /\ lang.ntokens = gr.ntokens /\ lang.top = 2 /\ Vars(lang) = Vars(gr)
      /\ r \in DOMAIN lang.rules \ {lang.top} /\ lang.rules[r] = gr.rules[r]
  BY <1>5, GrammarIsLanguage
<1>7. PICK part : part = [n \in 0 .. m |-> cut[k + n]] OBVIOUS
<1>8. part \in [0 .. m -> 0 .. len] /\ part[0] = cut[k] /\ part[m] = len
  <2>1. \A n \in 0 .. m : k + n \in 1 .. l BY <1>3
  <2>2. part \in [0 .. m -> 0 .. len] BY <1>4, <1>7, <2>1
  <2>3. 0 \in 0 .. m /\ m \in 0 .. m /\ k + 0 = k BY <1>3
  <2> QED BY <1>3, <1>4, <1>7, <2>2, <2>3
<1>9. PICK rhs : rhs = Rhs(lang, r) OBVIOUS
<1>10. rhs = Rhs(gr, r) /\ Len(rhs) = m BY <1>0, <1>6, <1>9 DEF Rhs
<1>11. ASSUME NEW n \in 1 .. m
       PROVE  part[n - 1] <= part[n] /\ Piece(w, part[n - 1], part[n]) \in StringsOf(lang, Derived(gr), rhs[n])
  <2>1. PICK j : j = k + n - 1 OBVIOUS
  <2>2. j \in 1 .. l - 1 /\ j + 1 = k + n /\ n - 1 \in 0 .. m /\ n \in 0 .. m /\ k + (n - 1) = j
    BY <1>3, <2>1
  <2>3. part[n - 1] = cut[j] /\ part[n] = cut[j + 1] BY <1>7, <2>2
  <2>4. Accessing(s[j + 1]) = rhs[n]
    <3>1. Len(s) - m + n = j + 1 BY <1>2, <1>3, <2>2
    <3> QED BY <1>10, <1>21, <3>1
  <2> QED BY <1>4, <1>5, <2>2, <2>3, <2>4 DEF StringsFrom
<1>12. PICK x, w2 : x = gr.rules[r].lhs /\ w2 = Piece(w, cut[k], len) OBVIOUS
<1>13. cut[k] <= len /\ << x, w2 >> \in Derived(gr)
  <2>1. MaxTokens + 1 \in Nat /\ Len(w) < MaxTokens + 1 BY <1>2, <1>3
  <2>2. w \in Words(lang) BY <1>3, <1>6 DEF Words
  <2>3. part \in [0 .. Len(rhs) -> 0 .. Len(w)] BY <1>2, <1>8, <1>10
  <2>4. \A n \in 1 .. Len(rhs) :
           /\ part[n - 1] <= part[n]
           /\ Piece(w, part[n - 1], part[n]) \in StringsOf(lang, DerivedStrings(lang, MaxTokens + 1), rhs[n])
    BY <1>5, <1>10, <1>11 DEF Derived
  <2>5. /\ part[0] <= part[Len(rhs)]
        /\ << lang.rules[r].lhs, Piece(w, part[0], part[Len(rhs)]) >> \in DerivedStrings(lang, MaxTokens + 1)
    BY <1>6, <1>9, <2>1, <2>2, <2>3, <2>4, DerivedClosed
  <2> QED BY <1>5, <1>6, <1>8, <1>10, <1>12, <2>5 DEF Derived
<1>14. w2 \in StringsFrom(gr, x)
  <2>1. ~IsToken(lang, x)
    <3>1. x \in Vars(gr) /\ gr.ntokens \in Nat /\ gr.nsyms \in Nat
      BY <1>12, RuleFacts, GrammarsAssumption DEF GrammarOK
    <3> QED BY <1>6, <3>1 DEF IsToken, Vars
  <2>2. PICK pair : pair = << x, w2 >> OBVIOUS
  <2>3. pair \in Derived(gr) /\ pair[1] = x /\ pair[2] = w2 BY <1>13, <2>2
  <2> QED BY <1>5, <2>1, <2>3 DEF StringsFrom, StringsOf
<1>15. PICK s2 : s2 = Append(u, q) OBVIOUS
<1>16. Len(s2) = k + 1 /\ s2[k + 1] = q /\ \A n \in 1 .. k : s2[n] = s[n]
  <2>1. /\ Len(Append(u, q)) = Len(u) + 1 /\ Append(u, q)[Len(u) + 1] = q
        /\ \A n \in 1 .. Len(u) : Append(u, q)[n] = u[n]
    BY Appended
  <2> QED BY <1>2, <1>15, <1>21, <2>1
<1>17. PICK cut2 : cut2 = [n \in 1 .. k + 1 |-> IF n = k + 1 THEN len ELSE cut[n]] OBVIOUS
<1>18. /\ cut2 \in [1 .. k + 1 -> 0 .. len] /\ cut2[1] = 0 /\ cut2[k + 1] = len
       /\ \A n \in 1 .. k : cut2[n] = cut[n]
  <2>1. \A n \in 1 .. k : n \in 1 .. l /\ n \in 1 .. k + 1 /\ n # k + 1 BY <1>3
  <2>2. \A n \in 1 .. k + 1 : n # k + 1 => n \in 1 .. k BY <1>3
  <2>3. 1 \in 1 .. k /\ k + 1 \in 1 .. k + 1 /\ len \in 0 .. len BY <1>3
  <2>4. cut2 \in [1 .. k + 1 -> 0 .. len] BY <1>4, <1>17, <2>1, <2>2, <2>3
  <2>5. \A n \in 1 .. k : cut2[n] = cut[n] BY <1>17, <2>1
  <2> QED BY <1>4, <1>17, <2>3, <2>4, <2>5
<1>19. ASSUME NEW n \in 1 .. k
       PROVE  cut2[n] <= cut2[n + 1] /\ Piece(w, cut2[n], cut2[n + 1]) \in StringsFrom(gr, Accessing(s2[n + 1]))
  <2>1. CASE n = k BY <1>12, <1>13, <1>14, <1>16, <1>18, <2>1
  <2>2. CASE n # k
    <3>1. n + 1 \in 1 .. k /\ n \in 1 .. l - 1 BY <1>3, <2>2
    <3> QED BY <1>4, <1>16, <1>18, <3>1
  <2> QED BY <2>1, <2>2
<1>20. Cuts(cut2, gr, s2, w)
  <2>1. Len(s2) - 1 = k /\ Len(s2) = k + 1 BY <1>3, <1>16
  <2>2. \A n \in 1 .. Len(s2) - 1 :
           cut2[n] <= cut2[n + 1] /\ Piece(w, cut2[n], cut2[n + 1]) \in StringsFrom(gr, Accessing(s2[n + 1]))
    BY <1>19, <2>1
  <2>3. cut2 \in [1 .. Len(s2) -> 0 .. Len(w)] /\ cut2[1] = 0 /\ cut2[Len(s2)] = Len(w) BY <1>2, <1>18, <2>1
  <2> QED BY <2>2, <2>3 DEF Cuts
<1> QED BY <1>15, <1>20 DEF Spells

(* The goal alone on state 0. *)
LEMMA SpellsSentence ==
    ASSUME NEW gr \in Grammars, Unbracketed(gr), NEW s, Len(s) = 2, Accessing(s[2]) = gr.ntokens + 1,
           NEW w \in Words(gr), Spells(gr, s, w)
    PROVE  w \in SentencesOf[gr]
<1>1. PICK cut : Cuts(cut, gr, s, w) BY DEF Spells
<1>2. PICK len : len = Len(w) OBVIOUS
<1>3. len \in Nat /\ w \in Seq(0 .. gr.ntokens - 1) BY <1>2 DEF Words
<1>4. Piece(w, 0, len) \in StringsFrom(gr, gr.ntokens + 1)
  <2>1. 1 \in 1 .. Len(s) - 1 /\ 1 + 1 = 2 OBVIOUS
  <2>2. cut[1] = 0 /\ cut[2] = len BY <1>1, <1>2 DEF Cuts
  <2> QED BY <1>1, <2>1, <2>2 DEF Cuts
<1>5. Piece(w, 0, len) = w
  <2>1. PICK u : u = Piece(w, 0, len) OBVIOUS
  <2>2. len \in 0 .. Len(w) /\ 0 \in 0 .. len /\ len - 0 = len /\ \A j \in 1 .. len : 0 + j = j BY <1>2, <1>3
  <2>3. /\ Piece(w, 0, len) \in Seq(0 .. gr.ntokens - 1) /\ Len(Piece(w, 0, len)) = len - 0
        /\ \A j \in 1 .. len - 0 : Piece(w, 0, len)[j] = w[0 + j]
    BY <1>3, <2>2, PieceFacts
  <2>4. u \in Seq(0 .. gr.ntokens - 1) /\ Len(u) = Len(w) /\ \A j \in 1 .. Len(u) : u[j] = w[j]
    BY <1>2, <2>1, <2>2, <2>3
  <2> QED BY <1>3, <2>1, <2>4, SameWord
<1>6. PICK lang, x : lang = Unvetoed(gr) /\ x = gr.ntokens + 1 OBVIOUS
<1>7. lang.ntokens = gr.ntokens /\ lang.top = 2 /\ lang.rules[2] = gr.rules[2]
  <2>1. 2 \in DOMAIN gr.rules BY GrammarsAssumption DEF GrammarOK
  <2> QED BY <1>6, <2>1, GrammarIsLanguage
<1>8. gr.rules[2].rhs = << x, 0 >> /\ gr.ntokens \in Nat
  <2>1. gr.ntokens \in Nat /\ gr.rules[2] = [lhs |-> gr.ntokens, rhs |-> << gr.ntokens + 1, 0 >>]
    BY GrammarsAssumption DEF GrammarOK
  <2> QED BY <1>6, <2>1
<1>9. Head(Rhs(lang, lang.top)) = x /\ ~IsToken(lang, x)
  <2>1. Rhs(lang, lang.top) = << x, 0 >> BY <1>7, <1>8 DEF Rhs
  <2>2. Head(<< x, 0 >>) = x OBVIOUS
  <2> QED BY <1>6, <1>7, <1>8, <2>1, <2>2 DEF IsToken
<1>10. w \in Sentences(lang, MaxTokens + 1)
  BY <1>4, <1>5, <1>6, <1>9 DEF StringsFrom, StringsOf, Sentences, Derived
<1> QED BY <1>6, <1>10 DEF SentencesOf

TokenValues(gr) == { gr.value[x] : x \in 1 .. gr.ntokens - 1 }
TokenIn(gr, v) == CHOOSE x \in DOMAIN gr.value : gr.value[x] = v
WordOf(gr, sh) == [n \in DOMAIN sh |-> TokenIn(gr, sh[n])]

LEMMA TokenFacts ==
    ASSUME DistinctValues, NEW gr \in Grammars, NEW x \in 0 .. gr.ntokens - 1
    PROVE  TokenIn(gr, gr.value[x]) = x
<1>1. DOMAIN gr.value = 0 .. gr.ntokens - 1 BY GrammarsAssumption DEF GrammarOK
<1>2. \A y \in 0 .. gr.ntokens - 1 : gr.value[y] = gr.value[x] => y = x BY DEF DistinctValues
<1>3. PICK v : v = gr.value[x] OBVIOUS
<1>4. \E y \in DOMAIN gr.value : gr.value[y] = v BY <1>1, <1>3
<1>5. TokenIn(gr, v) \in DOMAIN gr.value /\ gr.value[TokenIn(gr, v)] = v BY <1>4 DEF TokenIn
<1> QED BY <1>1, <1>2, <1>3, <1>5

LEMMA WordFacts ==
    ASSUME DistinctValues, NEW gr \in Grammars, NEW sh \in Seq(TokenValues(gr))
    PROVE  /\ WordOf(gr, sh) \in Words(gr) /\ Len(WordOf(gr, sh)) = Len(sh)
           /\ \A x \in 1 .. gr.ntokens - 1 :
                 /\ Append(sh, gr.value[x]) \in Seq(TokenValues(gr))
                 /\ WordOf(gr, Append(sh, gr.value[x])) = Append(WordOf(gr, sh), x)
<1>1. PICK m : m = Len(sh) OBVIOUS
<1>2. m \in Nat /\ DOMAIN sh = 1 .. m /\ \A n \in 1 .. m : sh[n] \in TokenValues(gr) BY <1>1
<1>3. gr.ntokens \in Nat BY GrammarsAssumption DEF GrammarOK
<1>4. ASSUME NEW v \in TokenValues(gr) PROVE TokenIn(gr, v) \in 0 .. gr.ntokens - 1
  <2>1. PICK x \in 1 .. gr.ntokens - 1 : v = gr.value[x] BY DEF TokenValues
  <2>2. x \in 0 .. gr.ntokens - 1 BY <1>3
  <2> QED BY <2>1, <2>2, TokenFacts
<1>5. WordOf(gr, sh) \in Words(gr) /\ Len(WordOf(gr, sh)) = m /\ \A n \in 1 .. m : WordOf(gr, sh)[n] = TokenIn(gr, sh[n])
  <2>1. PICK w, A : w = [n \in 1 .. m |-> TokenIn(gr, sh[n])] /\ A = 0 .. gr.ntokens - 1 OBVIOUS
  <2>2. w \in [1 .. m -> A] BY <1>2, <1>4, <2>1
  <2>3. w \in Seq(0 .. gr.ntokens - 1) /\ Len(w) = m
    <3>1. w \in Seq(A) /\ Len(w) = m BY <1>2, <2>2
    <3> QED BY <2>1, <3>1
  <2> QED BY <1>2, <2>1, <2>3 DEF WordOf, Words
<1>6. ASSUME NEW x \in 1 .. gr.ntokens - 1
      PROVE  /\ Append(sh, gr.value[x]) \in Seq(TokenValues(gr))
             /\ WordOf(gr, Append(sh, gr.value[x])) = Append(WordOf(gr, sh), x)
  <2>1. PICK v : v = gr.value[x] OBVIOUS
  <2>2. v \in TokenValues(gr) BY <2>1 DEF TokenValues
  <2>3. PICK sh2 : sh2 = Append(sh, v) OBVIOUS
  <2>4. sh2 \in Seq(TokenValues(gr)) /\ Len(sh2) = m + 1 BY <1>1, <2>2, <2>3
  <2>5. sh2[m + 1] = v /\ \A n \in 1 .. m : sh2[n] = sh[n] BY <1>1, <2>3, Appended
  <2>6. DOMAIN sh2 = 1 .. m + 1 BY <2>4
  <2>7. PICK w, w2, w3 : w = WordOf(gr, sh) /\ w2 = WordOf(gr, sh2) /\ w3 = Append(w, x) OBVIOUS
  <2>8. w \in Seq(0 .. gr.ntokens - 1) /\ Len(w) = m BY <1>5, <2>7 DEF Words
  <2>9. x \in 0 .. gr.ntokens - 1 BY <1>3
  <2>10. w3 \in Seq(0 .. gr.ntokens - 1) /\ Len(w3) = m + 1 BY <2>7, <2>8, <2>9
  <2>11. w3[m + 1] = x /\ \A n \in 1 .. m : w3[n] = w[n] BY <2>7, <2>8, Appended
  <2>12. w2 = [n \in 1 .. m + 1 |-> TokenIn(gr, sh2[n])] BY <2>6, <2>7 DEF WordOf
  <2>13. \A n \in 1 .. m + 1 : TokenIn(gr, sh2[n]) = w3[n]
    <3>1. TokenIn(gr, v) = x BY <2>1, <2>9, TokenFacts
    <3>2. \A n \in 1 .. m + 1 : n # m + 1 => n \in 1 .. m BY <1>2
    <3> QED BY <1>5, <2>5, <2>7, <2>11, <3>1, <3>2
  <2>14. w3 = [n \in 1 .. m + 1 |-> w3[n]] BY <2>10
  <2>15. w2 = w3 BY <2>12, <2>13, <2>14
  <2> QED BY <2>1, <2>3, <2>4, <2>7, <2>15
<1> QED BY <1>1, <1>5, <1>6

(* What has been read, and what of it has been shifted. *)
InputOK(gr, c, rd, sh) ==
    /\ sh \in Seq(TokenValues(gr)) /\ Len(sh) <= MaxTokens
    /\ rd = IF c < 0 THEN sh ELSE Append(sh, c)
    /\ c > 0 => Len(sh) < MaxTokens

Moving == {"yyloop", "yyreduce", "yyaccept"}

AcceptOK(gr, label, s, c, flag, errs, rd, sh, jmp) ==
    /\ errs \in Nat
    /\ ~jmp /\ errs = 0 =>
          /\ label \notin {"yyinrecovery", "discard states"}
          /\ label \in {"yyparse"} \cup Moving => flag = 0 /\ InputOK(gr, c, rd, sh)
          /\ label = "yyparse" => sh = << >>
          /\ label \in Moving => Spells(gr, s, WordOf(gr, sh))
          /\ label = "yyaccept" => c = 0 /\ Len(s) = 2 /\ Accessing(s[2]) = gr.ntokens + 1

LEMMA InputRead ==
    ASSUME NEW gr, NEW c, NEW rd, NEW sh, InputOK(gr, c, rd, sh), c < 0,
           NEW e \in Nat, Len(rd) >= MaxTokens => e = 0
    PROVE  InputOK(gr, e, Append(rd, e), sh)
<1>1. Len(sh) \in Nat /\ rd = sh /\ MaxTokens \in Nat BY ParserAssumption DEF InputOK
<1>2. ~(e < 0) BY <1>1
<1>3. e > 0 => Len(sh) < MaxTokens BY <1>1
<1> QED BY <1>1, <1>2, <1>3 DEF InputOK

(* The token with number c leads to a state that it reaches. *)
LEMMA ShiftedToken ==
    ASSUME Built, TablesSound(tables), NEW n \in DOMAIN states, NEW c \in Nat,
           Y!Found(tables.sindex[n], c)
    PROVE  \E x \in 1 .. g.ntokens - 1 : Accessing(Y!At(tables.sindex[n], c)) = x /\ g.value[x] = c
<1>1. ActionsSound(tables, n) BY DEF TablesSound
<1>2. Found(tables, tables.sindex[n], c) BY DEF Found, Y!Found
<1>3. PICK q : q = Y!At(tables.sindex[n], c) OBVIOUS
<1>4. Leads(n, q) /\ \E x \in 0 .. g.ntokens - 1 : Accessing(q) = x /\ g.value[x] = c
  BY <1>1, <1>2, <1>3 DEF ActionsSound, Y!At
<1>5. Accessing(q) \in 1 .. g.nsyms - 1 BY <1>4, Transitions
<1>6. g.ntokens \in Nat BY NumbersFacts DEF NumbersOK
<1> QED BY <1>3, <1>4, <1>5, <1>6

LEMMA AcceptStep ==
    ASSUME DistinctValues, BracketsNeedB, Built, TablesSound(tables), ~g.backtrack,
           StackOK(pc, yystack, yyn, yychar), NEW gr, gr = g,
           AcceptOK(gr, pc, yystack, yychar, yyerrflag, yynerrs, read, shifted, jumped), Y!Next
    PROVE  AcceptOK(gr, pc', yystack', yychar', yyerrflag', yynerrs', read', shifted', jumped')
<1>1. gr \in Grammars /\ Unbracketed(gr) BY DEF BracketsNeedB, Built, LR0Inv
<1>2. yynerrs \in Nat /\ MaxTokens \in Nat /\ yychar \in Nat \cup {-1} /\ jumped' \in {jumped, TRUE}
  BY ParserAssumption
     DEF AcceptOK, StackOK, Y!Next, Y!StartParser, Y!DefaultReduce, Y!Lex, Y!Shift, Y!Reduce, Y!SyntaxError,
         Y!StartRecovery, Y!DiscardToken, Y!ShiftError, Y!DiscardState, Y!Goto, Y!FinalState, Y!ActionJumps,
         Y!Overflow
<1>3. yynerrs' \in {yynerrs, yynerrs + 1}
  BY DEF Y!Next, Y!StartParser, Y!DefaultReduce, Y!Lex, Y!Shift, Y!Reduce, Y!SyntaxError,
         Y!StartRecovery, Y!DiscardToken, Y!ShiftError, Y!DiscardState, Y!Goto, Y!FinalState, Y!ActionJumps,
         Y!Overflow
<1>4. yynerrs' \in Nat BY <1>2, <1>3
<1>5. CASE jumped' \/ yynerrs' # 0 BY <1>4, <1>5 DEF AcceptOK
<1>6. CASE ~jumped' /\ yynerrs' = 0
  <2>1. ~jumped /\ yynerrs = 0
    <3>1. jumped' = jumped \/ jumped' = TRUE BY <1>2
    <3>2. ~jumped BY <1>6, <3>1, Zenon
    <3>3. yynerrs = 0 BY <1>2, <1>3, <1>6
    <3> QED BY <3>2, <3>3
  <2>2. pc \notin {"yyinrecovery", "discard states"} BY <2>1 DEF AcceptOK
  <2>3. pc \in {"yyparse"} \cup Moving => yyerrflag = 0 /\ InputOK(gr, yychar, read, shifted) BY <2>1 DEF AcceptOK
  <2>4. pc \in Moving => Spells(gr, yystack, WordOf(gr, shifted)) BY <2>1 DEF AcceptOK
  <2>5. pc \in InUse => IsPath(yystack) BY DEF StackOK
  <2>6. shifted \in Seq(TokenValues(gr)) => WordOf(gr, shifted) \in Words(gr) /\ Len(WordOf(gr, shifted)) = Len(shifted)
    BY <1>1, WordFacts
  <2> DEFINE Result(label, s, c, flag, rd, sh) ==
                /\ label \notin {"yyinrecovery", "discard states"}
                /\ label \in {"yyparse"} \cup Moving => flag = 0 /\ InputOK(gr, c, rd, sh)
                /\ label = "yyparse" => sh = << >>
                /\ label \in Moving => Spells(gr, s, WordOf(gr, sh))
                /\ label = "yyaccept" => c = 0 /\ Len(s) = 2 /\ Accessing(s[2]) = gr.ntokens + 1
  <2>7. SUFFICES Result(pc', yystack', yychar', yyerrflag', read', shifted')
    BY <1>4 DEF AcceptOK
  <2>8. CASE Y!StartParser
    <3>1. /\ pc = "yyparse" /\ UNCHANGED << yychar, yyerrflag, read, shifted >>
          /\ pc' # "yyoverflow" => pc' = "yyloop" /\ yystack' = << 0 >>
      BY <2>8 DEF Y!StartParser
    <3>2. shifted = << >> BY <2>1, <3>1 DEF AcceptOK
    <3>3. WordOf(gr, shifted) = << >> BY <3>2 DEF WordOf
    <3>4. Spells(gr, << 0 >>, << >>) BY SpellsNothing
    <3> QED BY <2>3, <3>1, <3>2, <3>3, <3>4 DEF Moving
  <2>9. CASE Y!DefaultReduce \/ Y!Reduce
    <3>1. pc = "yyloop" /\ pc' = "yyreduce" /\ UNCHANGED << yystack, yychar, yyerrflag, read, shifted >>
      BY <2>9 DEF Y!DefaultReduce, Y!Reduce, Y!Ready
    <3> QED BY <2>3, <2>4, <3>1 DEF Moving
  <2>10. CASE Y!Lex
    <3>1. /\ pc = "yyloop" /\ yychar < 0 /\ UNCHANGED << pc, yystack, yyerrflag, shifted >>
          /\ yychar' \in Y!Tokens /\ read' = Append(read, yychar')
          /\ (Len(read) >= MaxTokens => yychar' = 0)
      BY <2>10 DEF Y!Lex, Y!NextToken, Y!YYEOF
    <3>2. PICK c : c = yychar' OBVIOUS
    <3>3. c \in Nat BY <3>1, <3>2, TokensAreNumbers
    <3>4. InputOK(gr, yychar, read, shifted) BY <2>3, <3>1 DEF Moving
    <3>5. InputOK(gr, c, Append(read, c), shifted) BY <3>1, <3>2, <3>3, <3>4, InputRead
    <3> QED BY <2>3, <2>4, <3>1, <3>2, <3>5 DEF Moving
  <2>11. CASE Y!Shift
    <3>1. PICK n : n = yystack[Len(yystack)] OBVIOUS
    <3>2. n = Y!yystate BY <3>1 DEF Y!yystate, Y!Last
    <3>3. /\ pc = "yyloop" /\ yychar \in Nat /\ Y!Found(tables.sindex[n], yychar) /\ UNCHANGED read
          /\ Y!Push(yystack, Y!At(tables.sindex[n], yychar), "yyloop")
          /\ pc' # "yyoverflow" => yychar' = -1 /\ shifted' = Append(shifted, yychar)
                                   /\ yyerrflag' = IF yyerrflag > 0 THEN yyerrflag - 1 ELSE 0
      BY <1>2, <2>11, <3>2 DEF Y!Shift, Y!Ready, Y!YYEMPTY
    <3>4. IsPath(yystack) BY <2>5, <3>3 DEF InUse
    <3>5. yystack \in Seq(DOMAIN states) /\ yystack # << >> BY <3>4 DEF IsPath
    <3>6. n \in DOMAIN states BY <3>1, <3>5
    <3>7. PICK x \in 1 .. g.ntokens - 1 : Accessing(Y!At(tables.sindex[n], yychar)) = x /\ g.value[x] = yychar
      BY <3>3, <3>6, ShiftedToken
    <3>8. PICK q : q = Y!At(tables.sindex[n], yychar) OBVIOUS
    <3>9. pc' = "yyoverflow" \/ (pc' = "yyloop" /\ yystack' = Append(yystack, q))
      <4>1. Y!Push(yystack, q, "yyloop") BY <3>3, <3>8
      <4> QED BY <4>1 DEF Y!Push
    <3>10. CASE pc' = "yyoverflow" BY <3>10 DEF Moving
    <3>11. CASE pc' = "yyloop"
      <4>1. InputOK(gr, yychar, read, shifted) /\ yyerrflag = 0 BY <2>3, <3>3 DEF Moving
      <4>2. shifted \in Seq(TokenValues(gr)) /\ Len(shifted) \in Nat BY <4>1 DEF InputOK
      <4>3. x \in 0 .. gr.ntokens - 1 /\ x # 0 /\ 0 \in 0 .. gr.ntokens - 1 /\ x \in 1 .. gr.ntokens - 1
        <5>1. gr.ntokens \in Nat /\ gr.ntokens > 1 BY <1>1, GrammarsAssumption DEF GrammarOK
        <5>2. x \in 1 .. gr.ntokens - 1 BY <3>7
        <5> QED BY <5>1, <5>2
      <4>4. yychar > 0
        <5>1. gr.value[0] = 0 BY <1>1, GrammarsAssumption DEF GrammarOK
        <5>2. gr.value[x] # gr.value[0] BY <1>1, <4>3 DEF DistinctValues
        <5> QED BY <3>3, <3>7, <5>1, <5>2
      <4>5. read = Append(shifted, yychar) /\ Len(shifted) < MaxTokens BY <1>2, <4>1, <4>4 DEF InputOK
      <4>6. PICK sh : sh = Append(shifted, yychar) OBVIOUS
      <4>7. sh \in Seq(TokenValues(gr)) /\ WordOf(gr, sh) = Append(WordOf(gr, shifted), x)
        BY <1>1, <3>7, <4>2, <4>3, <4>6, WordFacts
      <4>8. Len(sh) = Len(shifted) + 1 BY <4>2, <4>6
      <4>9. InputOK(gr, -1, read, sh)
        <5>1. Len(sh) <= MaxTokens BY <1>2, <4>2, <4>5, <4>8
        <5>2. -1 < 0 /\ ~(-1 > 0) OBVIOUS
        <5> QED BY <4>5, <4>6, <4>7, <5>1, <5>2 DEF InputOK
      <4>10. Spells(gr, Append(yystack, q), Append(WordOf(gr, shifted), x))
        <5>1. Spells(gr, yystack, WordOf(gr, shifted)) /\ WordOf(gr, shifted) \in Words(gr)
          BY <2>4, <2>6, <3>3, <4>2 DEF Moving
        <5>2. Len(yystack) > 0 BY <3>5
        <5>3. Accessing(q) = x BY <3>7, <3>8
        <5> QED BY <1>1, <3>5, <4>3, <5>1, <5>2, <5>3, SpellsShift
      <4>11. yyerrflag' = 0 /\ yychar' = -1 /\ shifted' = sh /\ yystack' = Append(yystack, q) /\ read' = read
        BY <3>3, <3>9, <3>11, <4>1, <4>6
      <4> QED BY <3>11, <4>7, <4>9, <4>10, <4>11
    <3> QED BY <3>9, <3>10, <3>11
  <2>12. CASE Y!SyntaxError
    <3>1. pc = "yyloop" /\ (yyerrflag = 0 => yynerrs' = yynerrs + 1) BY <2>12 DEF Y!SyntaxError, Y!Ready
    <3>2. yynerrs' = 1 BY <2>1, <2>3, <3>1 DEF Moving
    <3>3. FALSE BY <1>6, <3>2
    <3> QED BY <3>3
  <2>13. CASE Y!StartRecovery \/ Y!DiscardToken \/ Y!ShiftError \/ Y!DiscardState
    BY <2>2, <2>13 DEF Y!StartRecovery, Y!DiscardToken, Y!ShiftError, Y!DiscardState
  <2>14. CASE Y!Goto \/ Y!FinalState
    <3>1. pc = "yyreduce" BY <2>14 DEF Y!Goto, Y!FinalState
    <3>2. IsPath(yystack) /\ Reduces(yystack[Len(yystack)], yyn) BY <2>5, <3>1 DEF StackOK, InUse
    <3>3. PICK u, r : u = Y!Rest /\ r = yyn + 2 OBVIOUS
    <3>4. /\ IsPath(u) /\ Y!Last(Y!Rest) = u[Len(u)] /\ Leads(u[Len(u)], Y!GotoState)
          /\ Accessing(Y!GotoState) = g.rules[r].lhs
          /\ Len(u) = Len(yystack) - Len(Rhs(g, r)) /\ Len(u) \in 1 .. Len(yystack)
          /\ \A k \in 1 .. Len(u) : u[k] = yystack[k]
      BY <3>2, <3>3, AfterPop
    <3>5. r \in Completed(Itemset(yystack[Len(yystack)])) /\ yyn \in Nat BY <3>2, <3>3 DEF Reduces
    <3>6. PICK m : m = Len(Rhs(gr, r)) OBVIOUS
    <3>7. /\ r \in DOMAIN gr.rules \ {2} /\ m < Len(yystack)
          /\ \A j \in 1 .. m : Accessing(yystack[Len(yystack) - m + j]) = Rhs(gr, r)[j]
      BY <3>2, <3>5, <3>6, ReduceOnPath
    <3>8. InputOK(gr, yychar, read, shifted) /\ yyerrflag = 0 BY <2>3, <3>1 DEF Moving
    <3>9. PICK w : w = WordOf(gr, shifted) OBVIOUS
    <3>10. w \in ShortOf(gr) /\ Spells(gr, yystack, w)
      <4>1. shifted \in Seq(TokenValues(gr)) /\ Len(shifted) <= MaxTokens BY <3>8 DEF InputOK
      <4>2. w \in Words(gr) /\ Len(w) <= MaxTokens BY <2>6, <3>9, <4>1
      <4> QED BY <2>4, <3>1, <3>9, <4>2 DEF ShortOf, Moving
    <3>11. ASSUME NEW q, Accessing(q) = gr.rules[r].lhs PROVE Spells(gr, Append(u, q), w)
      <4>1. PICK s, S : s = yystack /\ S = DOMAIN states OBVIOUS
      <4>2. u \in Seq(S) /\ s \in Seq(S) BY <3>2, <3>4, <4>1 DEF IsPath
      <4>3. OnTopOf(s, gr, r, u)
        <5>1. Len(u) = Len(s) - m /\ m < Len(s) BY <3>4, <3>6, <3>7, <4>1
        <5>2. \A k \in 1 .. Len(u) : u[k] = s[k] BY <3>4, <4>1
        <5>3. \A j \in 1 .. m : Accessing(s[Len(s) - m + j]) = Rhs(gr, r)[j] BY <3>7, <4>1
        <5> QED BY <3>6, <5>1, <5>2, <5>3 DEF OnTopOf
      <4>4. r \in DOMAIN gr.rules \ {2} /\ Spells(gr, s, w) /\ w \in ShortOf(gr) BY <3>7, <3>10, <4>1
      <4> HIDE DEF Result
      <4> QED BY <1>1, <1>2, <3>11, <4>2, <4>3, <4>4, SpellsReduce
    <3>12. CASE Y!Goto
      <4>1. Y!Push(u, Y!GotoState, "yyloop") /\ UNCHANGED << yychar, yyerrflag, read, shifted >>
        BY <3>3, <3>12 DEF Y!Goto
      <4>2. PICK q : q = Y!GotoState OBVIOUS
      <4>3. pc' = "yyoverflow" \/ (pc' = "yyloop" /\ yystack' = Append(u, q))
        <5>1. Y!Push(u, q, "yyloop") BY <4>1, <4>2
        <5> QED BY <5>1 DEF Y!Push
      <4>4. Accessing(q) = gr.rules[r].lhs BY <3>4, <4>2
      <4>5. Spells(gr, Append(u, q), w) BY <3>11, <4>4
      <4> QED BY <3>8, <3>9, <4>1, <4>3, <4>5 DEF Moving
    <3>13. CASE Y!FinalState
      <4>1. /\ u[Len(u)] = 0 /\ tables.lhs[yyn] = 0 /\ yystack' = Append(u, tables.YYFINAL)
            /\ UNCHANGED << yyerrflag, shifted >>
            /\ IF yychar < 0
               THEN /\ yychar' \in Y!Tokens /\ read' = Append(read, yychar')
                    /\ (Len(read) >= MaxTokens => yychar' = 0)
               ELSE UNCHANGED << yychar, read >>
            /\ pc' = IF yychar' = 0 THEN "yyaccept" ELSE "yyloop"
        BY <3>3, <3>4, <3>13 DEF Y!FinalState, Y!OfGoal, Y!NextToken, Y!YYEOF
      <4>2. gr.rules[r].lhs = gr.ntokens + 1
        <5>1. r - 2 = yyn BY <3>3, <3>5
        <5>2. tables.lhs[yyn] = gr.rules[r].lhs - gr.ntokens - 1 BY <3>7, <5>1 DEF TablesSound
        <5>3. gr.rules[r].lhs \in Int /\ gr.ntokens \in Int
          <6>1. gr.rules[r].lhs \in Vars(gr) BY <1>1, <3>7, RuleFacts
          <6>2. gr.ntokens \in Nat /\ gr.nsyms \in Nat BY <1>1, GrammarsAssumption DEF GrammarOK
          <6> QED BY <6>1, <6>2 DEF Vars
        <5> QED BY <4>1, <5>2, <5>3
      <4>3. PICK q : q = tables.YYFINAL OBVIOUS
      <4>4. Accessing(q) = gr.ntokens + 1 BY <4>3 DEF TablesSound
      <4>5. Spells(gr, Append(u, q), w) BY <3>11, <4>2, <4>4
      <4>6. Len(u) = 1
        <5>1. SUFFICES ASSUME Len(u) # 1 PROVE FALSE OBVIOUS
        <5>2. PICK l : l = Len(u) OBVIOUS
        <5>3. u \in Seq(DOMAIN states) /\ l \in Nat /\ l # 1 /\ l >= 1 BY <3>4, <5>1, <5>2 DEF IsPath
        <5>4. PICK k : k = l - 1 OBVIOUS
        <5>5. k \in 1 .. l - 1 /\ k + 1 = l /\ k \in 1 .. l BY <5>3, <5>4
        <5>6. Leads(u[k], u[k + 1]) /\ u[k] \in DOMAIN states BY <3>4, <5>2, <5>3, <5>5 DEF IsPath
        <5>7. u[l] # 0 BY <5>5, <5>6, Transitions
        <5> QED BY <4>1, <5>2, <5>7
      <4>7. Len(Append(u, q)) = 2 /\ Append(u, q)[2] = q
        <5>1. u \in Seq(DOMAIN states) BY <3>4 DEF IsPath
        <5>2. Len(Append(u, q)) = Len(u) + 1 /\ Append(u, q)[Len(u) + 1] = q BY <5>1, Appended
        <5> QED BY <4>6, <5>2
      <4>8. InputOK(gr, yychar', read', shifted)
        <5>1. CASE yychar < 0
          <6>1. PICK c : c = yychar' OBVIOUS
          <6>2. c \in Nat BY <4>1, <5>1, <6>1, TokensAreNumbers
          <6>3. InputOK(gr, c, Append(read, c), shifted) BY <3>8, <4>1, <5>1, <6>1, <6>2, InputRead
          <6> QED BY <4>1, <5>1, <6>1, <6>3
        <5>2. CASE ~(yychar < 0) BY <3>8, <4>1, <5>2
        <5> QED BY <5>1, <5>2
      <4>9. /\ pc' \in {"yyaccept", "yyloop"} /\ (pc' = "yyaccept" => yychar' = 0)
            /\ yystack' = Append(u, q) /\ yyerrflag' = 0 /\ shifted' = shifted
        BY <3>8, <4>1, <4>3
      <4> QED BY <3>9, <4>4, <4>5, <4>7, <4>8, <4>9 DEF Moving
    <3> QED BY <2>14, <3>12, <3>13
  <2>15. CASE Y!ActionJumps BY <1>6, <2>15 DEF Y!ActionJumps
  <2>16. CASE Y!Overflow
    <3>1. pc' = "yyabort" BY <2>16 DEF Y!Overflow
    <3> QED BY <3>1 DEF Moving
  <2> QED BY <2>8, <2>9, <2>10, <2>11, <2>12, <2>13, <2>14, <2>15, <2>16 DEF Y!Next
<1> QED BY <1>5, <1>6

AcceptInv == \E gr : gr = g /\ AcceptOK(gr, pc, yystack, yychar, yyerrflag, yynerrs, read, shifted, jumped)

AcceptSystem == StackSystem /\ (phase = "written" /\ ~g.backtrack => AcceptInv)

LEMMA AcceptAtStart == B!BtInit => AcceptInv
<1> SUFFICES ASSUME B!BtInit PROVE AcceptInv OBVIOUS
<1>1. /\ pc = "yyparse" /\ yychar = -1 /\ yyerrflag = 0 /\ yynerrs = 0
      /\ read = << >> /\ shifted = << >> /\ jumped = FALSE
  BY DEF B!BtInit, B!Init, B!YYEMPTY
<1>2. PICK gr : gr = g OBVIOUS
<1>3. InputOK(gr, -1, << >>, << >>)
  <2>1. << >> \in Seq(TokenValues(gr)) /\ Len(<< >>) = 0 OBVIOUS
  <2>2. -1 < 0 /\ ~(-1 > 0) /\ Len(<< >>) <= MaxTokens BY <2>1, ParserAssumption
  <2> QED BY <2>1, <2>2 DEF InputOK
<1>4. AcceptOK(gr, pc, yystack, yychar, yyerrflag, yynerrs, read, shifted, jumped)
  BY <1>1, <1>3 DEF AcceptOK, Moving
<1> QED BY <1>2, <1>4 DEF AcceptInv

LEMMA SameAcceptOK ==
    ASSUME UNCHANGED << g, firstDerives, states, shift >>, NEW gr, NEW label, NEW s, NEW c, NEW flag,
           NEW errs, NEW rd, NEW sh, NEW jmp, AcceptOK(gr, label, s, c, flag, errs, rd, sh, jmp)
    PROVE  AcceptOK(gr, label, s, c, flag, errs, rd, sh, jmp)'
<1>1. \A q : Accessing(q)' = Accessing(q) BY SameOrigin
<1>2. Spells(gr, s, WordOf(gr, sh)) => Spells(gr, s, WordOf(gr, sh))'
  <2>1. \A cut, w : Cuts(cut, gr, s, w) => Cuts(cut, gr, s, w)' BY <1>1 DEF Cuts
  <2> QED BY <2>1 DEF Spells
<1> QED BY <1>1, <1>2 DEF AcceptOK

LEMMA AcceptSystemStep ==
    ASSUME DistinctValues, BracketsNeedB, AcceptSystem, [ParserNext]_allVars
    PROVE  AcceptSystem'
<1>1. StackSystem' BY StackSystemStep DEF AcceptSystem
<1>2. CASE UNCHANGED parserState /\ phase # "written"
  <2>1. B!BtInit BY <1>2 DEF AcceptSystem, StackSystem
  <2>2. B!BtInit' BY <1>2, <2>1 DEF B!BtInit, B!Init, parserState, parserVars, btVars
  <2>3. AcceptInv' BY <2>2, AcceptAtStart, PTL
  <2> QED BY <1>1, <2>3 DEF AcceptSystem
<1>3. CASE Generate BY <1>2, <1>3, WrittenOnce
<1>4. CASE UNCHANGED << vars, outputVars >> /\ phase = "written"
           /\ (~g.backtrack => Y!Next \/ UNCHANGED parserState)
  <2>1. phase' = phase /\ UNCHANGED << g, firstDerives, states, shift >>
    BY <1>4 DEF vars, lr0Vars
  <2>2. CASE ~g.backtrack
    <3>1. /\ Built /\ TablesSound(tables) /\ StackOK(pc, yystack, yyn, yychar) /\ AcceptInv
      BY <1>4, <2>2 DEF AcceptSystem, StackSystem, TablesInv, Finished, Generated, StackInv
    <3>2. PICK gr : gr = g /\ AcceptOK(gr, pc, yystack, yychar, yyerrflag, yynerrs, read, shifted, jumped)
      BY <3>1 DEF AcceptInv
    <3>3. AcceptOK(gr, pc', yystack', yychar', yyerrflag', yynerrs', read', shifted', jumped')
      <4>1. Y!Next => AcceptOK(gr, pc', yystack', yychar', yyerrflag', yynerrs', read', shifted', jumped')
        BY <2>2, <3>1, <3>2, AcceptStep
      <4>2. UNCHANGED parserState =>
                AcceptOK(gr, pc', yystack', yychar', yyerrflag', yynerrs', read', shifted', jumped')
        BY <3>2 DEF parserState, parserVars
      <4> QED BY <1>4, <2>2, <4>1, <4>2
    <3>4. PICK label, s, c, flag, errs, rd, sh, jmp :
            /\ label = pc' /\ s = yystack' /\ c = yychar' /\ flag = yyerrflag' /\ errs = yynerrs'
            /\ rd = read' /\ sh = shifted' /\ jmp = jumped'
      OBVIOUS
    <3>5. AcceptOK(gr, label, s, c, flag, errs, rd, sh, jmp) BY <3>3, <3>4
    <3>6. AcceptOK(gr, label, s, c, flag, errs, rd, sh, jmp)' BY <2>1, <3>5, SameAcceptOK
    <3>7. AcceptOK(gr, pc, yystack, yychar, yyerrflag, yynerrs, read, shifted, jumped)' BY <3>4, <3>6
    <3>8. gr = g' BY <2>1, <3>2
    <3>9. AcceptInv' BY <3>7, <3>8 DEF AcceptInv
    <3> QED BY <1>1, <3>9 DEF AcceptSystem
  <2> QED BY <1>1, <2>1, <2>2 DEF AcceptSystem
<1>5. CASE Parse BY <1>4, <1>5 DEF Parse
<1>6. CASE UNCHANGED allVars
  <2>1. UNCHANGED parserState /\ UNCHANGED << vars, outputVars >> BY <1>6 DEF allVars, parserState
  <2> QED BY <1>2, <1>4, <2>1
<1> QED BY <1>3, <1>5, <1>6 DEF ParserNext

(***************************************************************************)
(* For every set of grammars: an input that a parser without -B accepts,   *)
(* when no error was reported and no action jumped, is a sentence, and it  *)
(* was shifted to its end, whatever default reductions and resolved        *)
(* conflicts did (yaccpar.skel:146-345).  Two tokens with one number would *)
(* be one for the parser.                                                  *)
(***************************************************************************)
THEOREM AcceptsOnlySentences ==
    ASSUME DistinctValues, BracketsNeedB
    PROVE  ParserSpec => [](~g.backtrack => AcceptedAreSentences)
<1>1. ParserInit => AcceptSystem
  <2> SUFFICES ASSUME ParserInit PROVE AcceptSystem OBVIOUS
  <2>1. B!BtInit /\ phase = "lr0" BY DEF ParserInit, Init, LR0Init
  <2> QED BY <2>1, TablesAtStart DEF StackSystem, AcceptSystem
<1>2. AcceptSystem /\ [ParserNext]_allVars => AcceptSystem' BY AcceptSystemStep
<1>3. AcceptSystem => (~g.backtrack => AcceptedAreSentences)
  <2> SUFFICES ASSUME AcceptSystem, ~g.backtrack, pc = "yyaccept", ~jumped, yynerrs = 0
               PROVE  read = Append(shifted, 0) /\ InTokens(shifted) \in SentencesOf[g]
    BY DEF AcceptedAreSentences
  <2>1. phase = "written"
    <3>1. phase # "written" => pc = "yyparse" BY DEF AcceptSystem, StackSystem, B!BtInit, B!Init
    <3> QED BY <3>1
  <2>2. PICK gr : gr = g /\ AcceptOK(gr, pc, yystack, yychar, yyerrflag, yynerrs, read, shifted, jumped)
    BY <2>1 DEF AcceptSystem, AcceptInv
  <2>3. gr \in Grammars /\ Unbracketed(gr)
    BY <2>1, <2>2 DEF BracketsNeedB, AcceptSystem, StackSystem, TablesInv, Finished, Generated, Built, LR0Inv
  <2>4. /\ InputOK(gr, yychar, read, shifted) /\ Spells(gr, yystack, WordOf(gr, shifted))
        /\ yychar = 0 /\ Len(yystack) = 2 /\ Accessing(yystack[2]) = gr.ntokens + 1
    BY <2>2 DEF AcceptOK, Moving
  <2>5. read = Append(shifted, 0) /\ shifted \in Seq(TokenValues(gr))
    <3>1. ~(0 < 0) OBVIOUS
    <3> QED BY <2>4, <3>1 DEF InputOK
  <2>6. WordOf(gr, shifted) \in Words(gr) BY <2>3, <2>5, WordFacts
  <2>7. WordOf(gr, shifted) \in SentencesOf[gr]
    <3>1. PICK s, w : s = yystack /\ w = WordOf(gr, shifted) OBVIOUS
    <3>2. Len(s) = 2 /\ Accessing(s[2]) = gr.ntokens + 1 /\ w \in Words(gr) /\ Spells(gr, s, w)
      BY <2>4, <2>6, <3>1
    <3> QED BY <2>3, <3>1, <3>2, SpellsSentence
  <2>8. InTokens(shifted) = WordOf(gr, shifted) BY <2>2 DEF InTokens, TokenOf, WordOf, TokenIn
  <2> QED BY <2>2, <2>5, <2>7, <2>8
<1> QED BY <1>1, <1>2, <1>3, PTL DEF ParserSpec
=============================================================================
