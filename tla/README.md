# TLA+ models of the parser generators of lalr-parser-test

The repository keeps several LALR(1) parser generators side by side, extends
them (options that settle conflicts the way another generator does, counts of
conflicts that can be compared, grammar exporters) and runs them on the same
grammars. This directory holds TLA+ models of the algorithms in them, the TLC
configurations that check the models, and TLAPS proofs about the algorithms on
which the others rest.

Paths below are relative to `src/`.

## 1. Inventory

All programs are sequential: one thread, no signals or callbacks that share
state while tables are built. What makes them hard is *order*: work lists,
depth-first search with shared mutable sets, tables that overlay each other,
numbers that change after they were used, and a generated parser whose every
step depends on tables that several passes shaped.

| component | state | operations | what makes it correct | hard behaviour |
|---|---|---|---|---|
| byacc reader, symbol table (`byacc/reader.c`, `symtab.c`, `error.c`) | symbols in order, their class/value/precedence; `plhs`, `rprec`, `rassoc`, `pitem`, `nrules`; `last_was_action` | declarations, `start_rule`, `add_symbol`, `copy_action`, `insert_empty_rule`, `mark_symbol`, `end_rule`, packing | packed rules are the written ones; an action is labelled with the rule at whose reduction it runs; precedences stay with their rule | a mid-rule action is recognised one symbol too late, when its label is written already |
| byacc LR(0) (`lr0.c`, `closure.c`, `warshall.c`) | list of states, hash of kernels, shifts, reductions | `set_nullable`, `set_first_derives`, `closure`, `get_state`, `new_state`, `save_shifts`, `save_reductions` | the states are the LR(0) collection, each once | work list that grows while it is traversed; limit `MAXYYINT` |
| byacc LALR(1) (`lalr.c`) | `from_state`/`to_state`, `F`, `includes`, `lookback`, `LA`; `INDEX`, `VERTICES`, `top` of `digraph()` | `set_goto_map`, `initialize_F`, `build_relations`, `digraph`/`traverse`, `compute_lookaheads` | lookahead sets are those of the LALR(1) automaton | strongly connected components found while sets are merged |
| byacc parse actions (`mkpar.c`) | `parser[]`, `suppressed`, conflict counts, `defred` | `parse_actions`, `remove_conflicts`, `sole_reduction` | one action per state and token; every loss counted; the strongest wins | pairwise comparison in list order |
| byacc tables (`output.c`) | `froms`/`tos` vectors, `conflicts`, `base`, `table`, `check`, `lowzero`, `high`, `maxtable` | `token_actions`, `goto_actions`, `sort_actions`, `pack_vector`, `pack_table` | a lookup finds exactly what its vector holds | vectors share storage without an owner tag; growth during a scan |
| byacc parser (`yaccpar.skel`, copied to `yaccpar.c`) | `yystack`, `yychar`, `yyerrflag`, `yynerrs` | the labels of `yyparse()` | accepts sentences only; reports errors before the bad token; always returns | default reductions, error recovery, stack growth, macros in actions |
| byacc backtracking parser (`btyaccpar.skel`, copied to `btyaccpar.c`) | the above; queue of tokens and values (`yylexemes`, `yylvals`), saved parse states (`yyps->save`), `yypath`, the error farthest ahead (`yyerrctx`) | `yyNewState`, `yyMoreStack`, trials, `YYVALID`, the full parse along the path of a trial, backtracking, the error of the best trial | a trial that succeeds is followed exactly; every token is shifted once, in order, with its value; the queue is never read or written outside | state saved and restored across trials, tokens read again from a queue that grows and moves, errors in trials and after them |
| byacc driver, reports, exporters (`main.c`, `verbose.c`, `graph.c`, `mstring.c`, the `print_grammar` functions) | options | phases in order, text | - | text only |
| lemon: reader (`lemon/lemon.c`: `preprocess_input`, `Parse`, `parseonetoken`, `main`) | `struct pstate`: the state, the rule under construction, the declaration it is in, `preccounter`, `fallback`, `tkclass`; symbols in order of appearance | conditions of `%if`, one token after the other, numbering of symbols | the grammar is the one written; what is malformed is refused | what is left in `pstate` by one declaration is there for the next; recovery after an error; symbols are numbered after they were used |
| lemon: states and actions (`lemon/lemon.c`) | configurations with follow sets, status and links; `stp->ap`; conflict counts | `FindStates`, `getstate`, `buildshifts`, `FindLinks`, `FindFollowSets`, `FindActions`, `resolve_conflict` | the same automaton as byacc; conflicts counted | recursion over states that share one configuration list; propagation to a fixed point |
| lemon: tables (`lemon.c`) | `acttab`, `autoReduce`, `pDfltReduce`, `sorted`, offsets | `CompressTables`, `ResortStates`, `acttab_insert`, `compute_action` | the parser on the tables does what the action lists said | three rewritings of the lists, states left out, entries without an owner |
| lemon: parser (`lempar.c`) | `yystack`, `yyerrcnt` | `ParseInit`, `Parse` | accepts sentences only; every call returns | a push parser: reductions pending between calls, fallbacks, three kinds of recovery |
| go yacc (`go/yacc.go`) | `pempty`, `pfirst`, `statemem`, `tystate`, `wsets`, `amem`, `indgo`, `optst`, `defact`, `exca`, `yypgo` | `cpres`, `cempty`, `cpfir`, `stagen`, `closure`, `state`, `output`, `precftn`, `addActions`, `go2out`, `callopt`, `nxti`, `gin`, `stin`, the lookups of `$$Parse` | the automaton is LALR(1); the tables say what the rows said | states and lookaheads are found in one loop that decides by `tystate` what to do again; actions, defaults and exceptions in three encodings; gotos and rows laid over each other in one array without owners |
| bison (`bison/`) | a patch only | - | - | - |

How they interact: `main()` calls `reader()`, `lr0()`, `lalr()`,
`make_parser()`, `output()` in this order; each leaves arrays of the shared
record `byacc_t` to the next. The text that `output()` writes, tables and
skeleton, is the generated parser; it calls `yylex()` and the user's actions.
lemon's `main()` likewise runs its passes over one `struct lemon`; its parser is
called by the program, once for each token. go yacc's `main()` calls `setup()`
(the reader), `cpres()`, `cempty()`, `cpfir()`, `stagen()`, `output()`, `go2out()` and
`callopt()`, over package variables. The generators
never call each other: they meet on one grammar, whose conflict counts and parsers
are compared.

`PROJECT.json` lists the hazards at their lines.

## 2. Modules and the code

| module | models | an action is |
|---|---|---|
| `Digraph` | `digraph()`, `traverse()` of `lalr.c` | a stretch of code between two visible steps of the recursion: entering a goto, handling one edge (after the recursive call, if it makes one), leaving, closing a component |
| `DigraphProofs` | - | theorems about `Digraph` |
| `ByaccLR0` | `lr0.c`, `closure.c`, `warshall.c` | `InitializeStates`, one state expanded, one `get_state()` |
| `ByaccLalr` | `lalr.c`; `INSTANCE`s `Digraph` twice (for *reads* and *includes*) through one set of variables | a function called by `lalr()`, and every step of `digraph()` |
| `ByaccMkpar` | `mkpar.c`; EXTENDS the two before: the whole construction | a function called by `make_parser()`; in `remove_conflicts()` one turn of the inner loop, which compares one action with the preferred one |
| `ByaccMkparProofs` | - | theorems about `ByaccMkpar`; lemmas about `ByaccLR0`, its invariant, closures and paths, and what actions and gotos are, for the proofs about the parser |
| `ByaccLalrProofs` | - | the theorem that `ByaccLR0` and `ByaccLalr` build the LALR(1) automaton of `GrammarTheory` |
| `ByaccReader` | `reader.c`, `symtab.c` | the handling of one piece of the file |
| `ByaccPack` | `sort_actions()` to `pack_table()` of `output.c` | one entry looked at in one place for one vector, a place given up, a vector stored |
| `ByaccPackProofs` | - | theorems about `ByaccPack` |
| `ByaccOutput` | the rest of the table output; EXTENDS `ByaccMkpar`, instantiates `ByaccPack` | in `token_actions()` for `-B` one parse action looked at, or the end of a list of rivals; then one phase of `output_actions()`, every step of packing |
| `YaccPar` | `yyparse()` of `yaccpar.skel` | the code from a label or test to the next goto |
| `BtYaccPar` | `yyparse()` of `btyaccpar.skel`; EXTENDS `YaccPar`, whose actions it uses where the code is the same, with the values of symbols | the code from a label or test to the next goto, in or outside a trial |
| `BtYaccParProofs` | - | theorems about `BtYaccPar` |
| `ByaccParser` | the composition: grammar to packed tables to a running parser; instantiates `YaccPar` for grammars without `-B` and `BtYaccPar` for the others | - |
| `ByaccOutputProofs` | - | lemmas about the written tables and the lists of rivals |
| `ByaccParserProofs` | - | theorems about the parsers `ByaccParser` generates |
| `GoYacc` | `yacc.go` from `cpres()` to `callopt()`, and the lookups of `$$Parse` | a pass; in `stagen()` and `output()` one state, and in `closure()` one turn of its loop; in `callopt()` one row or one column placed |
| `Generators` | the composition of byacc and go yacc on one grammar | a step of byacc, then of go yacc |
| `LemonFile` | grammar files of lemon, and what a whole file means | - |
| `LemonReader` | `preprocess_input()`, `parseonetoken()`, and the numbering in `main()` | one token |
| `LemonBuild` | `lemon.c` from `FindRulePrecedences()` to `FindActions()` | one pass, one turn of the loop of `buildshifts()`, one state of a loop over states |
| `LemonActtab` | `acttab_insert()` and its helpers, as operators on a table | - |
| `LemonActtabCalls` | arbitrary calls of `acttab_insert()` | one call |
| `LemonActtabProofs` | - | theorems about `LemonActtabCalls` |
| `LemonTables` | `CompressTables()` to `ReportTable()`; EXTENDS the two before | one pass of the compression, one transaction inserted |
| `LemonPar` | `lempar.c` | a call of `Parse()`, one turn of its loop |
| `LemonParser` | the composition: file to grammar to tables to a running parser; EXTENDS `LemonReader` and `LemonTables`, instantiates `LemonPar` | - |
| `GrammarTheory` | the abstract specification: canonical LR(1) collection, its merge by cores, and sentences by derivation | - |
| `SampleGrammars`, `LemonGrammarSamples`, `LemonFileSamples`, `MC*` | instances for TLC | - |

`GrammarTheory` shares nothing with the algorithms. It is the textbook
definition, and `AutomatonIsLALR` states that byacc's construction, which never
sees an LR(1) item, gives the same automaton, and `FollowSetsAreLALR` the same of
lemon's propagation, `GoAutomatonIsLALR` of go yacc's loop. `LemonFile` does the same for lemon's
reader: it says what a whole file means, item by item, and `GrammarAsWritten` that
the token by token machine of `parseonetoken()` arrives there. `Sentences` is derivation by
rewriting, and what the generated parser accepts is compared with it.

Data is abstracted: a symbol is its number, a set of tokens is a set (a row of
bits in the code), rules are sequences of symbols. Numbers keep their limits:
`MAXYYINT`, `MAXTABLE`, `YYMAXDEPTH`, the initial sizes and the growth are
constants.

Operators called `X_What` directly above `X` are mutated forms of `X`. Each
is a bug the code could have, and `PROJECT.json` pairs it with the property it
breaks.

## 3. Runs

| run | question | bounds | result |
|---|---|---|---|
| `digraph` | does `digraph()` end, with exactly the least solution | every relation on four gotos with at most two edges each, without self loops, one goto seeded with a token. Components of one to four members, nested and crossing edges, all occur | holds |
| `byacc` | is the automaton of byacc LALR(1), and that of go yacc; are conflicts settled and counted as promised; do both generators make the same parser | all grammars with one or two rules for each of two variables from a list with left, right and hidden recursion, empty and unit rules, cycles; grammars that tell SLR, LALR and LR(1) apart; a nullable chain; a shift and two reductions on one token under all mixes of precedence, associativity, `-B` and `-z`; `%expect`; grammars beyond `MAXYYINT` (20) states or gotos. For go yacc `NSTATES` is 16 and `ACTSIZE` 13, and there is a grammar for each way in which one of them is exceeded (states, gotos of one variable, of one state, a row) | holds |
| `go_lookaheads` | do the later passes of `stagen()` "fix up lookahead" | two grammars, one with a state that leads to itself and has an empty rule in its closure | violated, see 6 |
| `accept_conflict` | is every conflict reported | as `byacc` | violated, see 6 |
| `reader` | do rules, labels, precedences and numbers come out as written | all files of one declaration and five pieces after the first left-hand side: two mid-rule actions in one rule, an action followed by `%prec`, a second rule after it | holds |
| `pack` | does every lookup find its own entry; does the search end | all triples of vectors with froms 0 to 3, upwards or downwards, two of which may be shared; the table starts with 4 entries, grows by 4 and is refused to grow for place 10 (`MAXTABLE` 11), so that growth, sharing, gaps, equal bases and overflow all happen | holds |
| `parser` | does the generated parser accept sentences only, report errors only for errors, in time and once, and return; with `-B`, does the full parse follow the trial, with the right tokens and values, and does the queue hold | eleven grammars without `-B`; with it ambiguous ones, lists decided before or behind the conflict, `[actions]` that veto or commit (`YYERROR`, `YYVALID`, `YYVALID_NESTED`), and the 27 mixes of three precedences. Every input of up to five tokens, including a number no token has; two syntax errors from actions; a stack of 2 that grows to 7; a queue that grows by 2; memory for 6 saved states; `malloc()` and `realloc()` may fail at any growth; every action may leave by `YYERROR`, `YYABORT` or `YYACCEPT` | holds |
| `bt_recovery` | does the full parse of a successful trial meet no error, after an error too | a list of two forms decided before their first token, and an error rule; inputs of five tokens | violated, see 6 |
| `acttab` | is what was inserted in lemon's table found at its offset, and of terminals nothing else; is an offset plus any terminal in the table | all sequences of three transactions over four terminals (two different actions) or three nonterminals: duplicates, holes, and offsets already taken all occur | holds |
| `acttab_gotos` | is nothing else found of nonterminals either | six transactions over 17 nonterminals that fill the table up to where it would grow | violated, see 6 |
| `lemon` | is the grammar the one in the file, and is a malformed file refused; states, follow sets and conflict counts; does the parser accept sentences only, report only errors, keep its assertions and return | files of 37 grammars: nullable chains, cycles and unit rules, SLR and LALR told apart, with precedences, `%yacc_prec`, wildcard, fallback, multiterminals, code on some rules, error symbol, without compression; fixed stacks of 2 and 3, a stack that grows by 3, `malloc()` may fail; every input of up to four tokens. For the reader alone also: all pairs of items (declarations, rules, mistakes) between two rules, files that end inside an item, right-hand sides beyond `MAXRHS` (5), all conditions of up to six symbols, all nestings of four directives | holds |
| `lemon_conflict` | is a conflict settled when `resolve_conflict()` says so | a tie of an operator that is not associative with a second reduction | violated, see 6 |

The bounds are small because the programs are data driven: what can go wrong
depends on the shape of a grammar, a relation or a vector, and all the shapes
that the code distinguishes (an empty rule, a cycle, a component, a shared
vector, a place that collides) need two or three elements.

Conditions of the properties, and why they are there:

- `AutomatonIsLALR` is about grammars in which every variable derives a string.
  For others the canonical collection has no lookaheads to compare.
- `GoAutomatonIsLALR` demands equality of the lookaheads only where no state leads
  to itself with an empty rule in its closure (`Disturbed`): elsewhere they may be
  too small, which is the finding of `go_lookaheads`. That none is wrong, and that the
  states are those of byacc, holds for all grammars.
- `SameParser` leaves out the same grammars, and three rivals with precedences: go
  yacc compares them in the order of its closure, byacc in that of the rules, and the
  comparison is not transitive. A reduction at the end of the input in the final
  state is a conflict of go yacc only: byacc does not see it (`accept_conflict`).
- `AcceptedAreSentences` does not count a rule whose `[action]` is `YYERROR`.
- `ErrorsAreErrors` (second part) is about grammars without conflicts: settling
  a conflict throws sentences away on purpose. Its first part, that an error is
  reported at the first token not shifted, holds for all without `[actions]`. With `-B`
  conflicts throw nothing away, but precedences and `YYVALID` do.
- `RecoveryQuiet` is about parsers without `-B`: in a trial an error resets
  `yyerrflag` for good (`bt_recovery`).
- `ValuesAreInput` and `ReplayFollowsTrial` speak of an input up to its first error: tokens are
  discarded after one, and trials within three tokens of it recover
  instead of backtracking.
- `ParserReturns` excludes actions that jump. An action that always executes
  `YYERROR`, in a rule for `error` that is reduced by default, makes
  `yyparse()` loop without reading a token.
- `ScanInTable` is about vectors narrower than the growth of the table. The
  scan `while (check[lowzero] != -1)` has no bound of its own. In the model it
  ends with the table; in the code a vector as wide as the growth, or wider, could fill the table to
  its last entry, and then the scan would read on. This is the weakest condition that is right: with a
  table of one entry that grows by two, a pair of actions three apart by two, looked at from
  the right, fills it to the end.
- `FollowSetsAreLALR` is about grammars without multiterminals whose start symbol
  is on no right-hand side (an error for lemon, which goes on all the same).
- `CountsEveryConflict` is about grammars without precedences, as its comment says.
- `GrammarAsWritten` is about files `lemon` accepts, and `MalformedAreRefused` about those it
  must not accept; a file that ends inside an item is neither (see the notes in 6).
- `LemonErrorsAreErrors` is about grammars without conflicts and fallbacks. With a
  fallback it fails, see the notes in 6.
- `LemonAssertions` excludes a fallback that has a fallback itself: `lemon` accepts
  it, and only an assertion of the parser stops it.
- A grammar on which `lemon` itself stops with a failed assertion (`phase = "abort"`)
  has no parser and no further properties. This happens to a start symbol on a
  right-hand side, to a cycle of unit rules (`lemon.c:5664`), and in
  `lemon_conflict`.

The tables that `WriteTables` leaves were compared with the arrays in the file
that lemon itself writes, entry by entry, for the sample grammars and for
several hundred random ones with precedences, wildcards, code and `-c`; they are
identical, conflict counts and failed assertions included.

`CHECK_DEADLOCK FALSE` is set throughout: every one of these programs ends.

### Fairness

The code is single-threaded and never blocks, so what it can do next it does.
`Digraph`, `Generators` (byacc, then go yacc) and `ByaccPack` have weak fairness of their next-state
relation, and `ByaccParser` of `Parse`, the steps of `yyparse()`, with or without trials; `LemonParser` has it of `Parse`,
the turns of the loop in `Parse()` (the caller is part of it: it has a token or the
end). The environment (`yylex()`,
actions) is called, not scheduled: it always returns. That the input ends is
`MaxTokens`, that actions do not cause errors for ever is `MaxErrors`.

## 4. Theorems

`DigraphProofs`, for every number of gotos, every relation and every family of
sets (`CallOK`: what `lalr()` passes, and `ngotos + 2 <= MAXYYINT`, for the
code stores that number in a `Value_t`):

- `TypeCorrect`: `Spec => []TypeOK`. No index leaves its array; in particular
  `VERTICES` never holds more than all gotos.
- `Soundness`: `Spec => []Sound`. A set never has a token that does not reach
  its goto along the relation: no spurious lookahead.
- `Completeness`: `Spec => []Complete`. At the end every set contains its
  initial tokens and the sets of its successors: no lookahead is missing.
- `FinalStays`: `Spec => [][FinalNeverChanges]_vars`. A goto that was closed
  does not change, so what was merged from it stays right.

With the first three, `digraph()` computes the least solution of
`F(x) = F0(x) ∪ ⋃ { F(y) : x R y }`.

The argument. `TypeOK` alone is not inductive, and says nothing of what `INDEX`
means. The inductive invariant `IInv` adds, part by part:

- `StackOK`: `VERTICES` holds the gotos that are visited and not final, each at
  its height, and no `INDEX` exceeds the height. With it, `VERTICES` has room for
  one more unvisited goto (lemma `Room`, by counting).
- `CallsOK`: the live activations lie in `VERTICES` in the order of the calls,
  each called by the one below for the edge that one has read.
- `PassedOK`: a goto that is no longer active has no edge left, and if it is
  still in `VERTICES` its `INDEX` is below its height.
- `MergedOK`: an edge already merged leads to a final goto whose set was taken
  over, or to one in `VERTICES` whose height bounds the `INDEX`.
- `BelowOK`: an edge merged below an activation does not lead above it. So the
  component that is popped has no edge to it from below, and none from it leads
  below once the root keeps its own `INDEX`.
- `HandedOK`: a passed goto in `VERTICES` has handed its set and its `INDEX` to
  the activation it was passed in (or to the goto that activation is about to
  merge). This is why the root may copy its set to the whole component: it is the
  union already.
- `GrowsOK`, `LoopOK`: initial sets are kept; the loop leaves no goto with an
  edge behind.

`Soundness` needs reachability. It is stated without paths, so that no
induction over data is needed: for every solution `G` of the equations, `F` is
below `G`, the sets of `G` decrease along the activations, and each goto in
`VERTICES` has a set of `G` above that of an activation no higher than its
`INDEX` (`ReachOK`). `IInv` was model-checked with the bounds of the `digraph` run before it
was proved. `TypeCorrect` is proved only: the run would add nothing.

`ByaccPackProofs`, for any vectors, any first size, growth and limit of the table
(`PackAssumption`: these are numbers, and the vectors lists of pairs of numbers):

- `PackedLookupIsExact`: `Spec => []LookupExact`. After every step of `pack_table()`
  a lookup at the base of a vector finds its own entry, and nothing where it has none.
  A vector may have two entries for one index, for a file may give two tokens one
  number; the later one is found (`Latest`).
- `PackTypes`: `Spec => []TypeOK`. `table` and `check` are always as long as `maxtable` says.
- `ScanStaysInTable`: `Spec => []ScanInTable`. Below `lowzero` nothing is unused, and if all
  vectors are narrower than the growth, the scan for the next unused entry has one ahead
  of it in the table.

The argument. An entry does not say whose it is, so the invariant `PackInv` does: every
used place belongs to a vector already packed (`OwnedOK`), and two packed vectors have
one base only if they are equal. If a lookup at the base of `v` finds an entry for `f`, its
owner has an entry for `f` at that place, too, hence the same base, hence the same
entries as `v`. `StoredOK` says that an entry once stored stays, for what is stored later
goes only to places that `SearchOK` has seen unused. That every vector is packed once
needs that `sort_actions()` yields an order without repetitions (`SortFacts`): widths and
tallies order the vectors strictly, so their ranks are all different.

For the scan, `LastUnused` says that the *last* entry of the table is unused, and that the
place looked at ends less than one growth beyond it: the table, when it must grow, then
grows beyond the place. The width that `sort_actions()` computes is what bounds the
place, whatever the order of the entries (`Shifted`).

`ByaccMkparProofs`, for every set of grammars and every `MAXYYINT` (`GrammarsAssumption`: a
grammar is one that `pack_symbols()` and `pack_grammar()` leave; `$end` and `$accept` are on
no right-hand side of the file, for `get_name()` refuses them), with the steps of `lr0()` and
`lalr()` before those of `make_parser()`:

- `OneActionLeft`: `Spec => []Deterministic`. One action at most is left for a state and
  a token, whatever mix of precedence, associativity and rule order settled the others.
- `LeftIsStrongest`: `Spec => []StrongestWins`. With `lemon_prec_flag` it is one of the
  highest precedence.
- `ConflictsBecomeTrials`: `Spec => []TrialsComplete`. With `-B` no action of an unsettled
  conflict stays the only choice.
- `EveryLossIsCounted`: `Spec => []CountsEveryLoss`. The totals, which are what the
  generators are compared by, count each lost action once.

The argument. `remove_conflicts()` compares an action only with the one preferred at the
moment, and forgets it when the symbol changes. So the actions of a symbol must be
neighbours: `ListActionsKeeps` proves that the list is sorted, from the order
`ActionOrder`, which no two actions of a state leave undecided. That needs that the
shifts of a state lead to different symbols and that its rules are listed
once, which is the invariant `LR0Inv` (`AutomatonOK`: every state of the
list holds items of the grammar, its shifts come from distinct symbols in increasing order,
its reductions are completed items). Then the invariant `MkparInv`, for the part of each
list already examined: the preferred action is the only one of its symbol that can still be live
(`PrefLeads`, `OneLive`), those not examined are all live (`Untouched`), with
`lemon_prec_flag` no examined rival exceeds it (`PrefIsStrongest`, `LiveIsStrongest`), without
precedences all examined rivals are trials (`OnlyTrials`), and the totals are the
number of losers seen (`CountOK`). A turn has three outcomes, whichever branch it took
(`ResolveOutcome`): a new symbol, a rival settled by precedence, or a conflict
counted. `RowsOK` was model-checked with the bounds of the `byacc` run before it was proved.

The module also proves what other proofs about sorted lists need: `InOrder`, the
model of the sorts in the code, lists each element of a finite set once, in order,
for every strict order (`RankFacts`, `PlacesFacts`). And it has the facts of LR(0) theory the
parser rests on (`ReduceOnPath`, below).

`ByaccLalrProofs`, from the same assumption:

- `ByaccIsLALR`: `Spec => []AutomatonIsLALR`. For every grammar in which every variable derives a
  string of tokens, the automaton is *the* LALR(1) automaton: its item sets are the cores of the
  canonical LR(1) collection, neither one more nor one less, and the lookaheads of each
  reduction are those that merging the LR(1) item sets with that core gives. `lalr.c` never builds
  an LR(1) item: it reads its lookaheads off the gotos, through *reads*, *includes*, *lookback* and two
  calls of `digraph()`. That this is the same is the theorem of DeRemer and Pennello, here about the
  code: with its scan of the shifts, its binary search of the gotos, its walk back along right-hand sides,
  its transposed relation.

The argument needs no induction over derivations, for each definition of the reference is a least set, and
a least set is compared by its closure:

1. `NullableFacts`, `FirstFacts`, `Closure1Facts`, `CollectionFacts`: the recursive functions of
   `GrammarTheory` give the least sets closed under the rules (`FixpointIsLeast`, `LoopExists`:
   such a function exists, and stops).
2. The tables of `lr0.c`: the passes of `set_nullable()` end with the nullable variables
   (`SetNullableIs`); `closure()`, with Warshall's loop (`ClosureCloses`) before it, gives the
   LR(0) closure (`ClosureIs`). `StatesInv` adds to `LR0Inv` that no two states have the same kernel and
   that each is reached from an earlier one.
3. `StatesAreCores`: the closure of a core is the core of the closure (`CoreOfClosure`), and so is a
   transition. Here the condition on the grammar is needed: a variable that derives nothing ends the
   LR(1) closure, not that of `lr0.c`.
4. Each transition on a variable has one number, which `map_goto()` finds (`GotosInv`), and a
   right-hand side is followed from the state of its dot to that of its end (`PathIs`).
5. What `initialize_F()` and `build_relations()` pass to `digraph()` is *reads* and *includes* as
   they are defined (`ReadsIs`, `IncludedByIs`, `TransposeIs`), and what `digraph()` returns is the
   least solution of the equations (`WalkEnds`, from the invariants of `DigraphProofs`).
6. `CanReadSolves`, `ReadsAreLeast`: the tokens read after a goto are the least solution of the first
   equations; `CanFollowSolves`, `FollowIsLookahead`, `LookaheadFollows`: what follows a goto in the
   collection solves the second, and no solution misses an LR(1) lookahead: the sets in
   which every item is explained by a goto are closed, and contain the first.
7. `LookaheadInv` carries this through `lalr()`, a phase at a time, and `LalrInv` is the inductive
   invariant.

In `ByaccLalr` as in `Digraph`, `infinity` is a number. The code stores `ngotos + 2` in a
`Value_t`, which it does not fit with the last two counts that `set_goto_map()` lets pass
(`lalr.c:540`): about a grammar with `MAXYYINT - 1` or `MAXYYINT` gotos the theorem says nothing of the code.

`BtYaccParProofs`, for any tables, any input, any depth of the conflicts and any outcome of
`malloc()` (assumed: `YYLVQUEUEGROWTH` is at least 1):

- `TokensStayQueued`: `BtSpec => []QueueInBounds`. The queue of tokens never exceeds what
  was allocated, and the places kept in saved states and in the path are in it, in
  order. That none is before its beginning holds if no `[action]` executes
  `YYERROR`: such an action can fail the last alternative before a token was read, and
  then the token of the error lies before the queue (`btyaccpar.skel:757`).

`ByaccParserProofs` has the same for what byacc generates, whatever the grammar:

- `QueueSafeForAllGrammars`: `ParserSpec => []QueueInBounds`, with the generator's steps
  before those of the parser. It needs that the tables, once written, stay
  (`WrittenOnce`), and that a parser without `-B` never has a queue.
- `QuietForAllGrammars`: `ParserSpec => []RecoveryQuiet`. Without `-B`, three tokens are shifted
  between two errors that are reported, in every grammar, for every input, and with actions that
  jump. (An action that executes `yyerrok` asks for the next error on purpose; it is not
  modelled.) The invariant ties `yyerrflag` to the tokens shifted since the last report
  (`Countdown`).
- `StackIsPathForAllGrammars`: `ParserSpec => [](~g.backtrack => StackIsPath)`. Without `-B`,
  the stack is a path of the automaton from state 0, and a right-hand side is on top of it when
  it is reduced: `yyparse()` never pops below state 0 and never meets a missing goto,
  in error recovery either.
- `ParserTypesForAllGrammars`: `ParserSpec => [](~g.backtrack => ParserTypeOK)`. Without `-B`,
  the stack never has more states than there is room for, though `YYFINAL` is pushed
  without a test, and `yylex()` is not called again after the end. It
  assumes `DepthOK`, `2 <= YYINITSTACKSIZE <= YYMAXDEPTH` (200 and 10000 in the skeleton: with
  room for one state, `YYFINAL` would not fit), and `OnlyEndIsZero`, no token of the file has
  the number 0, which is that of the end: after such a token the parser, having
  shifted it, would read on.

The argument for the queue. A conflict puts its token back, so its place is one before the current
one. The invariant `QueueInv` therefore says that with a lookahead the parser is
*behind* the latest conflict (`TrialOK`), and that outside a trial a parser that is
reading again has read something (`LowOK`). `ContextOK` keeps the error farthest ahead
and the path apart from the queue that a new trial starts anew: the first exists only
during a trial, the second only outside.

The argument for the stack goes through all of byacc, and every part is an invariant of the
whole specification, not an assumption on the tables:

1. `ReduceOnPath` (`ByaccMkparProofs`): if state `s[i]` leads to `s[i + 1]` for all `i`, and rule
   `r` is completed in the last state, then its right-hand side is what the last
   states were entered on, and the state below has a transition on its left-hand side. Items
   are followed back along the path by a least counterexample (`DotPassed`,
   `OnPath`), closures by `first_derives`, which is a least fixed point: the set of those
   led to by an item of the kernel is closed (`ThroughLedTo`, `ClosureLedTo`).
2. `Transitions`: the shifts of a state are its transitions, each once, which `LR0Inv` states of
   the state under construction too.
3. `ActionsInv` (`ByaccMkparProofs`): an action in `parser[n]` is a transition of `n`, or a
   completed item of `n`; `remove_conflicts()` changes only `suppressed`. So is the sole
   reduction, and `final_state` is where state 0 leads on the goal.
   `GotosInv`: `from_state` and `to_state` list the transitions on variables, each once,
   in the order of their symbols.
4. `PackedFacts` (`ByaccPackProofs`): once `pack_table()` is done, what a lookup finds is an entry
   of the vector packed there.
5. `TablesAreSound` (`ByaccOutputProofs`): the vectors of `token_actions()` and `goto_actions()`
   hold only those actions and gotos, and a goto that is in no column is the default. With 3 and 4,
   for each lookup `yyparse()` makes: a shift found is a transition on a token with the
   number asked for, a reduction found is of a completed item, a goto that exists is found.
   `TablesInv` carries this through the generator: the actions until the
   tables are packed, `PackInv` while they are, soundness from then on.
6. `StackInv` is the inductive invariant of the parser: the stack is a path, and at `yyreduce`
   the rule is completed in the state on top. A shift prolongs the path by 5, a pop leaves
   a path, and after a reduction the state uncovered has the goto by 1.

For the types, `TypeInv` adds that a stack in use has room for two states (`StackFits`), and
that the last token read, once all are, is the end (`ReadOK`). `YYFINAL` is pushed on state 0, and
no transition leads to state 0, so that it is alone on the stack. The assumptions are
`GrammarsAssumption` (with the numbers of the tokens that `pack_symbols()` gives),
`TableAssumption` and `ParserAssumption` (sizes are numbers, `yylex()` returns numbers).

- `ConflictListsForAllGrammars`: `ParserSpec => []ConflictListsExact`. With `-B`, for every
  state without a default reduction and every token, what the generated parser finds behind
  `yycindex` is the list of all rival actions, the shift first. It assumes `DistinctValues`: no
  two tokens have the same number (which a file may give them: then one column of the table
  serves both).

The argument. `token_actions()` writes the lists one behind the other, begins a list of
reductions with the -1 that ends the one before, and drops a list that is there already. So a list is
not where it was written. The invariant `ListInv` says of each finished
row that from the place it names, up to the next -1, `conflicts` has the rivals of its token, and
of the list under construction that it has those passed so far, behind a -1 if it has no
shift. Appending changes nothing before the last -1, hence no finished list; a list that is
dropped was equal to what is found earlier, its -1 included (`Same`), and what is kept ends
with a -1. Packing then moves the places into the table (`PackedFacts`), and with different
numbers the entry found belongs to the token asked for.

- `ConflictsFitForAllGrammars`: `ParserSpec => []ConflictsFit`. `conflicts[]` is allocated with four
  entries for each conflict in the totals and written to without a test; that is enough, for every grammar.

The argument. Not every action of a list was counted: a conflict counts the loser, and makes trials of
both. So the invariant names the set `U` of the actions that were counted, as many as the totals
(`Counted`), and says that every one is a trial, and that among the trials of a state and token at most one is not
in `U`, the action preferred, and then its rivals are (`RowCounted`, `GroupCounted`; precedence may suppress
a preferred action later, but never one that was counted). A list with `c >= 1` counted trials then takes at most
`c + 2` entries, its -1 included, which is no more than `3 * c`; and one -1 comes before the first. `Room`
bounds `conflicts` by the counted trials `token_actions()` has passed, three entries for each in lists that
have ended (`RoomAdd`, `RoomPass`, `RoomNext`, `RoomEnd`). When a list ends, and is dropped only then if it is there
already, that is at most four entries for each.

- `AcceptsOnlySentences`: `ParserSpec => [](~g.backtrack => AcceptedAreSentences)`. Without
  `-B`, for every grammar and every input: if `yyparse()` returns 0, no error was reported and no
  action jumped, then all tokens read were shifted, and they are a sentence in the sense of
  `GrammarTheory`, which derives strings from the goal and knows no automaton. Default
  reductions, settled conflicts and precedences never make a parser accept more than the language.
  Besides `DistinctValues` it assumes `BracketsNeedB`, for the reader refuses `[actions]` without
  `-B` (`reader.c:3625`).

The argument. To `StackInv`, which has the path, `AcceptInv` adds that the tokens shifted are the
concatenation of one piece for each state above 0, each derived from the symbol the state is entered on
(`Spells`). A shift adds a piece of one token (`SpellsShift`), a reduction joins the pieces of the
right-hand side, which is one step of a derivation (`SpellsReduce`). `YYFINAL` is entered on the goal,
alone on state 0 (`SpellsSentence`). `DerivedStrings` is a least fixed point, computed by a recursive function on
sets of strings: that this function exists is proved by naming it, as an intersection
(`GrowsExists`), that its value is closed under a step of a derivation from the finiteness of the words
that are short enough (`GrowsClosed`, `ShortWordsFinite`, `DerivedClosed`). No induction over derivations
is needed.

Tables that are sound may still report an error for a sentence, or reduce for ever: that is what
`ErrorsAreErrors` and `ParserReturns` are checked for.

`LemonActtabProofs`, for any numbers of terminals and symbols and any sequence of
transactions (`ActtabAssumption`: what `acttab_action()` is called with for one
state, one action for each lookahead, all terminals or all nonterminals):

- `LookupIsExact`: `ActtabSpec => []LookupExact`. A transaction stays found whole
  at its offset, and for a terminal nothing is found that is not its own.
- `OffsetsStaySafe`: `ActtabSpec => []OffsetsAreSafe`.

The argument. `LookupExact` speaks of the calls made, but the next transaction
can collide with any entry, and if no hole is left it is put where nothing was
asked of. The invariant `Inv` therefore adds `Padded`: the offset of every
entry of a terminal is at least `nterminal` before `nAction`, for `makeItSafe` pads
the table. `PlaceIsGood` then goes through the three ends of the search. A
duplicate is exact, by counting (`DuplicateIsExact`). A hole was tested. The
place where the search ends is more than two behind `nAction` (`ChosenPlace`;
a transaction with lookahead 0 always finds a hole), so its offset is greater
than that of every terminal (`BehindAll`). For nonterminals there is no padding,
the last step fails, and with it the property: `acttab_gotos`.

Only model-checked:

- all liveness (`Terminates`, `AllPacked`, `ParserReturns`, `LemonParseReturns`): fairness and
  ENABLED are outside the proof system;
- what compares the other constructions with the theory: `GoAutomatonIsLALR`, `SameParser`,
  `FollowSetsAreLALR`, `LemonAcceptsSentences`, `LemonErrorsAreErrors`. They would need, for lemon and go
  yacc, what `ByaccLalrProofs` has for byacc;
- `ErrorsAreErrors`: that no sentence is refused is an induction over the derivation of the input.
  `AcceptedAreSentences` needs only the closure of the derived strings under one step, and is proved
  without `-B`, model-checked with it;
- what folds over a file or a list of rows: `RulesAsWritten`, `ActionsLabelled`,
  `PrecedenceOfRules`, `NumbersDistinct`, `GrammarAsWritten`,
  `MalformedAreRefused`, `CountsEveryConflict`, `LemonAssertions`, for the same reason;
- what rests on all of the tables at once: `StackIsPath` and `ParserTypeOK` for parsers of `byacc
  -B` (not for all grammars: see the notes in 6), and `LemonTypeOK`;
- what relates two runs of the parser, one in a trial: `ValuesAreInput`, `ReplayFollowsTrial`.

## 5. What is not modelled

- The scanners: characters, quoting, comments, `#line`. byacc's reader is modelled
  from the piece on, lemon's from the token on. Tags, destructors, arguments of variables and `[actions]` in the reader.
- Semantic values (except the order of those of tokens, in `BtYaccPar`), `yyerrok`,
  `yyclearin`, `yychar` assigned by actions.
- Of the backtracking skeleton: locations, destructors, and a second call of
  `yyparse()` that finds tokens in the queue of the first. The default build of this
  directory uses it for grammars without `-B`, too, where it goes through the
  same steps as `yaccpar.skel` except that `YYERROR` first pops the right-hand side.
- The text of the output, `-v` and `-g` reports, exporters.
- lemon's code generation, reports and `-E`; option `-r` (without `ResortStates()`
  nothing sets `nxstate`); `ParseFree()` and a second parse with the same parser;
  semantic values and destructors.
- go yacc's reader, its output and the loop of `$$Parse` around the
  lookups: it is `yyparse()` of `YaccPar` on other tables. Error messages by example.
- bison is not in the repository.

## 6. Findings

1. `accept_conflict`: the shift of `$end` in the final state is not in the list
   of parse actions, so that *one* reduction on `$end` there has no rival and
   is never counted. `S : A; A : S | 'a'` is reported to be free of conflicts,
   and its parser reduces for ever (`mkpar.c:237`).
2. `go_lookaheads`: for an empty rule in the closure of state `i`, `stagen()` sets
   `tystate[i] = MUSTLOOKAHEAD` (`yacc.go:1875`). If the state leads to itself and
   `state()` has just enlarged its lookaheads, this overwrites `MUSTDO`: it is not
   closed again, and what it leads to keeps lookaheads that are too small. The conflict of
   `S: 'b' S 'a' | 'b' S | ;` is not found.
3. `lemon_conflict`: a tie of operators that are not associative turns the SHIFT
   into an ERROR, but leaves the REDUCE as it is (`lemon.c:1323`). A second REDUCE
   on the token then meets the ERROR in `resolve_conflict()`, whose assertion fails.
4. `bt_recovery`: in a trial an error of the tables goes to error recovery if
   `yyerrflag` is not 0 (`btyaccpar.c:754`), and `yyerrflag`, which is saved, is never
   restored. Within three tokens of an error a trial with a wrong first alternative
   recovers instead of trying the second, and may be accepted:
   `s: s t | ; t: x A B | y A C | error C; x: ; y: ;` reports two errors for `C A C A B`.
   `README.BTYACC` says that it "backtracks to the most recent conflict point".
5. `acttab_gotos`: `acttab_insert()` looks for a hole up to
   `nActionAlloc - mxLookahead` and, if there is none, uses that place untested
   (`lemon.c:794`). The transactions of two states can so get one offset, against
   "No possible lookahead value that is not in the aLookahead[] transaction is
   allowed to match" (`lemon.c:771`). It needs a table that is nearly full and
   several nonterminals, and happens to terminals never (`LookupExact`, proved
   in `LemonActtabProofs`). A goto that exists is found all the same; but error
   recovery asks every state on the stack for the error symbol, and can be given
   the entry of another state.

Met on the way, and part of the models unless said otherwise, without a run of their own:

- `%empty` is documented as ignored (`yacc.1:312`). `mark_symbol()` returns 1 for it as
  for `%%`, and the rest of the grammar is not read (`reader.c:3575`).
- `%nonassoc '<'` has no effect where the reduction is the sole one of the state:
  `sole_reduction()` does not ask for suppressed errors, and `e: e '<' e | 'n'`
  accepts `n<n<n` (`mkpar.c`).
- lemon: "it does not parse" (`lempar.c:164`) is decided by the entry of the token, which a
  token of the default reduction does not have. With `s ::= x B C. s ::= D A. x ::= D.` and
  `%fallback A B.` the sentence `D B C` is a syntax error.
- lemon: a rule for a token class (`k ::= A.` after `%token_class k B C.`) ends in a
  segmentation fault; `k|D` in one rule adds `D` to the class `k` everywhere; a file that
  ends inside a rule or declaration is cut off there without a word; `%if A && B || C`
  groups to the right, and is false with only `C` defined.
- go yacc: `NOMORE` is -1000, as is the goto on variable 1000, so that `nxti()` ends early
  (`yacc.go:2774`); `yyFlag` is -1000, and a state may be placed there or below if its smallest
  token is above 1000. With either constant scaled down to -3 `SameParser` fails; with
  their real values no sample is large enough. `ERRCODE` and `ACCEPTCODE` (8190, 8191) are
  numbers that states can have, of which `NSTATES` allows 16000; a precedence has six
  bits (`yacc.go:141`); `stin()` accepts the index `ACTSIZE` (`yacc.go:2856`), so that a full
  table panics instead of the message "failure to place state".

- byacc `-B`: what is left of `yypath` when an action executes `YYERROR` in the full parse stays
  there. The next conflict takes the first record for its own if the state is the same, whatever
  the token (`btyaccpar.c:593`-606), and reads `yyctable` at the place of another list.
  With lists of different lengths this may be no action at all, and a number of a state is then used as that of
  a rule. `README.BTYACC:377` has the full parse "following the path of the successful
  trial". It takes three conflicts and an error between them, more than the `parser` run has: there
  `StackIsPath` holds, for all grammars with `-B` it does not.
- The manual says that `%expect` makes byacc report the number of conflicts only if
  it differs (`yacc.1:316`). `make_parser()` prints it always (`mkpar.c:40`), and does
  not compare when there are none.
- Because of 3, the REDUCE and the ERROR of a tie are both inserted into the table
  with `-c`, and the later one wins: `%nonassoc` has no effect. Without `-c` the
  same can happen through `autoReduce`, which ignores ERROR actions
  (`lemon.c:5614`).
- With an error symbol, `yyerrcnt < 0` is asked for after it was set to 3: errors are
  reported again after four shifted tokens, not the three of the comment
  (`lempar.c:965`), and the -1 of a failed parse is overwritten (`lempar.c:1001`).
- The loop that pops the stack for the error symbol ends at the lowest entry without
  asking whether state 0 shifts it (`lempar.c:984`).
- A place near the end of the array, padded for the terminals, can leave `nAction`
  greater than `nActionAlloc` (`lemon.c:824`). `acttab_insert()` enlarges the array
  before it reads there, `acttab_action_size()` (`lemon.c:838`) does not. This takes
  fewer nonterminals than the least lookahead, and happens in no sample.
- `$` behind the error symbol returns without accepting or failing
  (`lempar.c:974`).

## 7. Plan

Done, in this order: `Digraph` and its proofs, since everything else trusts the
lookaheads; `GrammarTheory`, `ByaccLR0`, `ByaccLalr`, `ByaccMkpar`;
`ByaccReader`; `ByaccPack`, `ByaccOutput`; `YaccPar`, `ByaccParser`; `LemonBuild`
against the same `GrammarTheory`; `LemonActtab` and its proofs, `LemonTables`; `LemonPar`,
`LemonParser`; `BtYaccPar` and its proofs; `LemonFile`,
`LemonReader`; `GoYacc`; `Generators`, the comparison of two generators on one grammar,
which is what the repository is for.

Left: the loop of `$$Parse` with its error recovery; lemon in the
comparison of `Generators`; the characters of both scanners; `[actions]`, arguments and
destructors of byacc's reader.

Theorems to come: `StackIsPath` with `-B`, for runs in which no action fails in the full parse
(without that condition it is false, see 6), and that `Parse()` of lemon never leaves its stack.
