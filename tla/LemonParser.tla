----------------------------- MODULE LemonParser -----------------------------
(***************************************************************************)
(* lemon and the parser it generates: main() reads the grammar file        *)
(* (LemonReader), builds the states and their actions (LemonBuild),        *)
(* compresses and writes them (LemonTables), and the Parse() of lempar.c   *)
(* runs on what was written (LemonPar).  What the parser promises is       *)
(* stated in terms of the grammar.  LemonGrammars bounds the run: with     *)
(* any other grammar it ends when the file is read.                        *)
(***************************************************************************)
EXTENDS LemonTables, LemonReader

CONSTANTS LemonGrammars, MaxTokens, StackIncrement, MallocFails

VARIABLES pc, yystack, yystksz, yyerrcnt, yymajor, yyact, yyerrorhit,
          read, shifted, errors, outcome

P == INSTANCE LemonPar

parserVars == << pc, yystack, yystksz, yyerrcnt, yymajor, yyact, yyerrorhit, read, shifted, errors, outcome >>
allVars == << readerVars, buildVars, tableVars, parserVars >>

LemonParserInit == ReaderInit /\ LemonInit /\ TablesInit /\ P!ParInit

Read == ReaderNext /\ UNCHANGED << buildVars, tableVars, parserVars >>

(* The grammar is handed over; what was read is not looked at again. *)
Number ==
    /\ stage = "done"
    /\ phase = "read"
    /\ GrammarRead \in LemonGrammars
    /\ g' = GrammarRead
    /\ errorcnt' = IF StartFound THEN 0 ELSE 1
    /\ phase' = "precedences"
    /\ stage' = "closed" /\ file' = << >> /\ lem' = << >> /\ ps' = << >>
    /\ UNCHANGED << text, precsym, lambda, firstset, basis, configs, shifts, work, fws, fplp, bplp,
                    complete, i, progress, acts, nconflict, canReduce, tableVars, parserVars >>

Generate ==
    \/ BuildNext /\ UNCHANGED << readerVars, tableVars, parserVars >>
    \/ TablesNext /\ UNCHANGED << readerVars, parserVars >>

(* The parser is generated even if there were errors or conflicts. *)
Parse == phase = "written" /\ P!ParNext /\ UNCHANGED << readerVars, buildVars, tableVars >>

LemonParserNext == Read \/ Number \/ Generate \/ Parse

LemonSpec == LemonParserInit /\ [][LemonParserNext]_allVars /\ WF_parserVars(Parse)

-----------------------------------------------------------------------------
LemonTypeOK ==
    /\ stage \in { "preprocess", "parse", "done", "exit", "closed" }
    /\ phase \in { "read", "precedences", "first", "start", "states", "follow", "resolve", "compress", "shiftreduce", "units",
                   "insert", "written", "abort" }
    /\ \A n \in DOMAIN basis : basis[n] \subseteq configs[n]
    /\ \A x \in fplp \cup bplp : x[1] \in DOMAIN fws /\ x[2] \in DOMAIN fws
    /\ pc \in { "ParseInit", "caller", "Parse", "assert" }
    /\ Len(yystack) <= yystksz
    /\ yyerrcnt <= 3
    /\ pc = "caller" => yystack[1] = P!Entry(0, 0)

(***************************************************************************)
(* The sentences of the grammar, with the tokens the parser may take for   *)
(* others: a token for its fallback, any token but $ for the wildcard.     *)
(***************************************************************************)
SentencesOf == [gr \in LemonGrammars |-> Sentences(Plain(gr), MaxTokens + 1)]
StandsFor(t, x) == x \in { t, g.wildcard } \/ (g.fallback[t] # 0 /\ x = g.fallback[t])
Agrees(w, s) == \A k \in DOMAIN w : w[k] = s[k] \/ (s[k] # 0 /\ StandsFor(w[k], s[k]))

(***************************************************************************)
(* What Parse() accepts without calling yy_syntax_error() is a sentence,   *)
(* whatever default reductions, SHIFTREDUCE actions, dropped unit rules    *)
(* and states and the layout of the tables did on the way.                 *)
(***************************************************************************)
LemonAcceptsSentences ==
    outcome = << "accept" >> /\ errors = << >> =>
        \E s \in SentencesOf[g] : Len(s) = Len(read) - 1 /\ Agrees(Front(read), s)

(***************************************************************************)
(* The first syntax error is reported only for tokens no sentence begins   *)
(* with, not even if some of them could also be taken for the wildcard.    *)
(* It holds for grammars without conflicts, precedences and fallbacks, of  *)
(* which each throws sentences away.                                       *)
(***************************************************************************)
IsViablePrefix(w) ==
    IF Last(w) = 0 THEN Front(w) \in SentencesOf[g]
    ELSE \E s \in SentencesOf[g] : Len(s) >= Len(w) /\ SubSeq(s, 1, Len(w)) = w

Deterministic ==
    /\ \A n \in DOMAIN acts : \A k, l \in DOMAIN acts[n] : acts[n][k].sp = acts[n][l].sp => k = l
    /\ ProductiveVars(Plain(g)) = Variables(g) \cup {g.nsyms}
FirstError == pc = "Parse" /\ P!IsError /\ errors = << >> /\ outcome = << >> /\ Deterministic

LemonErrorsAreErrors ==
    FirstError /\ (\A t \in DOMAIN g.fallback : g.fallback[t] = 0) => ~IsViablePrefix(read)

(***************************************************************************)
(* The assertions of Parse() hold: a reduction finds its goto, in the      *)
(* table and for its own state, and "It is not possible for a REDUCE to be *)
(* followed by an error"; no offset leads out of the tables; nothing is    *)
(* left on the stack below an accepted input.  Only a fallback that has a  *)
(* fallback itself, which lemon does not refuse, stops the parser.         *)
(***************************************************************************)
LemonAssertions ==
    pc = "assert" => \E t \in DOMAIN g.fallback : g.fallback[t] # 0 /\ g.fallback[g.fallback[t]] # 0

(***************************************************************************)
(* Every call of Parse() returns unless an assertion fails: reductions and *)
(* recoveries come to an end, and the caller gets to its last token.       *)
(***************************************************************************)
LemonParseReturns == (pc = "Parse") ~> (pc \in { "caller", "assert" })
=============================================================================
