----------------------------- MODULE ByaccParser -----------------------------
(***************************************************************************)
(* byacc and the parser it generates: main() builds the automaton          *)
(* (ByaccLR0, ByaccLalr, ByaccMkpar), output() packs and writes the tables *)
(* (ByaccOutput), and yyparse() runs on what was written: YaccPar, or with *)
(* -B BtYaccPar.  What the parser promises is stated in terms of the       *)
(* grammar.                                                                *)
(***************************************************************************)
EXTENDS ByaccOutput

CONSTANTS YYMAXDEPTH, YYINITSTACKSIZE, YYLVQUEUEGROWTH, MaxSaved, ActionOutcomes, MallocFails,
          OtherTokens, MaxTokens, MaxErrors

(* yyparse() takes a negative value of yylex() for the end. *)
ASSUME ParserAssumption == (\A c \in OtherTokens : c \in Nat) /\ MaxTokens \in Nat

VARIABLES pc, yystack, stacksize, yychar, yyerrflag, yynerrs, yyn,
          read, shifted, errors, jumped,
          yyvs, yylval, saved, yypath, queue, lvp, yylvlim, yyerrctx

Y == INSTANCE YaccPar
B == INSTANCE BtYaccPar

parserVars == << pc, yystack, stacksize, yychar, yyerrflag, yynerrs, yyn,
                 read, shifted, errors, jumped >>
btVars == << yyvs, yylval, saved, yypath, queue, lvp, yylvlim, yyerrctx >>
allVars == << vars, outputVars, parserVars, btVars >>

ParserInit == Init /\ OutputInit /\ B!BtInit

Generate ==
    \/ Next /\ UNCHANGED << outputVars, parserVars, btVars >>
    \/ OutputNext /\ UNCHANGED << parserVars, btVars >>

Parse ==
    /\ phase = "written"
    /\ \/ ~g.backtrack /\ Y!Next /\ UNCHANGED btVars
       \/ g.backtrack /\ B!BtNext
    /\ UNCHANGED << vars, outputVars >>

ParserNext == Generate \/ Parse

ParserSpec == ParserInit /\ [][ParserNext]_allVars /\ WF_<< parserVars, btVars >>(Parse)

-----------------------------------------------------------------------------
Labels == { "yyparse", "yyloop", "yyerrhandler", "yyinrecovery", "discard states", "yyreduce",
            "yyvalid", "yyoverflow", "yyenomem", "yyabort", "yyaccept" }

ParserTypeOK ==
    /\ pc \in Labels
    /\ ToSet(yystack) \subseteq (IF phase = "written" THEN DOMAIN states ELSE {})
    /\ Len(yystack) <= stacksize
    /\ stacksize <= YYMAXDEPTH
    /\ yyerrflag \in 0 .. 3
    /\ Len(read) <= MaxTokens + 1
    /\ Len(yyvs) = IF phase = "written" /\ g.backtrack THEN Len(yystack) ELSE 0

(***************************************************************************)
(* The stack is a path of the LR(0) automaton that starts in state 0, in   *)
(* whatever way a state was pushed: a shift or a goto found in the packed  *)
(* table, a default goto, the shift of the error token, YYFINAL.  In       *)
(* yyreduce the right-hand side of the rule is on top, so that the parser  *)
(* never pops below state 0.                                               *)
(***************************************************************************)
Symbols(s) == [k \in 1 .. Len(s) - 1 |-> AccessingSymbol(s[k + 1])]
IsSuffixOf(u, s) == Len(u) <= Len(s) /\ SubSeq(s, Len(s) - Len(u) + 1, Len(s)) = u

StackIsPath ==
    yystack # << >> =>
        /\ yystack[1] = 0
        /\ \A k \in 1 .. Len(yystack) - 1 : yystack[k + 1] \in ToSet(shift[yystack[k]])
        /\ pc = "yyreduce" => IsSuffixOf(Rhs(g, yyn + RULE_NUM_OFFSET), Symbols(yystack))

(***************************************************************************)
(* What yyparse() accepts without a syntax error is a sentence, whatever   *)
(* default reductions, conflicts, trials and the layout of the tables did  *)
(* on the way; and the whole of it was shifted.  A rule whose [action]     *)
(* executes YYERROR does not count.                                        *)
(***************************************************************************)
TokenOf(v) == CHOOSE x \in DOMAIN g.value : g.value[x] = v
IsTokenValue(v) == \E x \in DOMAIN g.value : g.value[x] = v
InTokens(w) == [k \in DOMAIN w |-> TokenOf(w[k])]
Unvetoed(gr) ==
    [ntokens |-> gr.ntokens, nsyms |-> gr.nsyms, top |-> gr.top,
     rules |-> [r \in { s \in DOMAIN gr.rules : gr.brackets[s] # "YYERROR" } |-> gr.rules[r]]]
SentencesOf == [gr \in Grammars |-> Sentences(Unvetoed(gr), MaxTokens + 1)]

AcceptedAreSentences ==
    pc = "yyaccept" /\ saved = << >> /\ ~jumped /\ yynerrs = 0 =>
        /\ read = Append(shifted, 0)
        /\ InTokens(shifted) \in SentencesOf[g]

(***************************************************************************)
(* A syntax error is reported only if no sentence begins with the tokens   *)
(* read, and before the token that shows it is shifted: default reductions *)
(* delay the detection but never beyond that token, and with -B the error  *)
(* is the one of the trial that got farthest.  It holds for grammars       *)
(* without conflicts, whose conflicts would have thrown sentences away,    *)
(* and with -B if no precedence and no YYVALID throws alternatives away.   *)
(***************************************************************************)
IsViablePrefix(w) ==
    /\ \A k \in DOMAIN w : IsTokenValue(w[k])
    /\ IF Last(w) = 0 THEN InTokens(Front(w)) \in SentencesOf[g]
       ELSE \E s \in SentencesOf[g] : Len(w) <= Len(s) /\ SubSeq(s, 1, Len(w)) = InTokens(w)

NoConflicts == \A n \in DOMAIN parser : \A k, l \in DOMAIN parser[n] :
                  parser[n][k].symbol = parser[n][l].symbol => k = l
NothingDropped ==
    /\ \A n \in DOMAIN parser : \A k \in DOMAIN parser[n] : parser[n][k].suppressed # 2
    /\ ToSet(g.brackets) \subseteq {"none", "YYERROR"}
NoBrackets == ToSet(g.brackets) = {"none"}

ErrorsAreErrors ==
    pc = "yyinrecovery" /\ yyerrflag = 0 /\ ~jumped /\ yynerrs = 1 /\ errors = << Len(shifted) >> =>
        /\ NoBrackets => Len(read) = Len(shifted) + 1
        /\ (IF g.backtrack THEN NothingDropped ELSE NoConflicts) /\ ProductiveVars(g) = Vars(g) =>
              ~IsViablePrefix(read)

(***************************************************************************)
(* After a syntax error yyerror() is quiet until three tokens have been    *)
(* shifted, however often the parser fails in between.  (Not with -B: see  *)
(* FullParseFollowsTrial.)                                                 *)
(***************************************************************************)
RecoveryQuiet ==
    ~g.backtrack => \A k \in 1 .. Len(errors) - 1 : errors[k + 1] >= errors[k] + 3

(***************************************************************************)
(* Outside a trial, and as long as there was no error, the values on the   *)
(* stack are those of the tokens read, each of them once and in order,     *)
(* although they were queued, read again and queued once more.             *)
(***************************************************************************)
Upto(n) == [k \in 1 .. n |-> k]
Undisturbed == errors = << >> /\ ~jumped /\ saved = << >>

ValuesAreInput ==
    phase = "written" /\ g.backtrack /\ Undisturbed =>
        /\ FlattenSeq(yyvs) = Upto(Len(shifted))
        /\ shifted = SubSeq(read, 1, Len(shifted))

(***************************************************************************)
(* The full parse follows the path of the trial: it meets every conflict   *)
(* of the path with the stack and at the token of the trial, and it        *)
(* neither fails nor accepts before.                                       *)
(***************************************************************************)
FirstError == pc = "yyinrecovery" /\ yyerrflag = 0 /\ yynerrs = 1

ReplayFollowsTrial ==
    yypath # << >> /\ ~jumped /\ (errors = << >> \/ FirstError) =>
        /\ saved = << >>
        /\ pc \notin {"yyerrhandler", "yyinrecovery", "yyvalid", "yyaccept"}
        /\ B!Conflict => Head(yypath).stack = yystack /\ Head(yypath).lexeme = lvp - 1

(***************************************************************************)
(* What README.BTYACC says of a successful trial, also after an error: the *)
(* full parse that follows its path has no error.                          *)
(***************************************************************************)
FullParseFollowsTrial ==
    yypath # << >> /\ NoBrackets /\ ~jumped => pc # "yyinrecovery"

(* What BtYaccPar says of the queue of tokens and of what points into it,
   when the tables are those of a grammar. *)
QueueInBounds == phase = "written" => B!QueueInBounds

(***************************************************************************)
(* yyparse() returns for every input that ends, recovering from errors or  *)
(* not.  Actions that jump are excluded: one that executes YYERROR         *)
(* whenever it is called, reached by the error rule itself without a       *)
(* lookahead, loops for ever.                                              *)
(***************************************************************************)
Returned == IF g.backtrack THEN B!BtReturned ELSE Y!Returned
ParserReturns == phase = "written" ~> (Returned \/ jumped)
=============================================================================
