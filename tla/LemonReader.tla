----------------------------- MODULE LemonReader -----------------------------
(***************************************************************************)
(* lemon/lemon.c: Parse() reads a grammar file, one call of                *)
(* parseonetoken() for each token of what preprocess_input() has left of   *)
(* it, and main() stops at errors and numbers the symbols.                 *)
(*                                                                         *)
(* A file has lines: [dir, expr, item], where dir is "" for an item of     *)
(* LemonFile, "if" (also for %ifdef), "ifndef", "else" or "endif"; and     *)
(* what the command line says: the names defined by -D, and options.       *)
(* ps is struct pstate and lem what is set in struct lemon and its symbols *)
(* and rules.  ps.prevrule is the last rule.  In ps.rhs, [syms, own, alias] *)
(* is a symbol, or with own a MULTITERMINAL made for A|B.                  *)
(***************************************************************************)
EXTENDS LemonFile

CONSTANT LemonFiles

VARIABLES
    stage,  \* "preprocess", "parse", "done", "exit"
    file,
    text,   \* the tokens that are left
    ps, lem

readerVars == << stage, file, text, ps, lem >>

ReaderInit ==
    /\ stage = "preprocess"
    /\ file \in LemonFiles
    /\ text = << >>
    /\ ps = [state |-> "INITIALIZE", errorcnt |-> 0, fallback |-> "", tkclass |-> "", lhs |-> "", lhsalias |-> "",
             rhs |-> << >>, declargslot |-> << >>, declassoc |-> "UNK", preccounter |-> 0]
    /\ lem = [symbols |-> << "$" >>, subsym |-> << >>, rules |-> << >>, prec |-> << >>, fallback |-> << >>,
              wildcard |-> "", args |-> << >>, yaccPrec |-> file.yaccPrec]

-----------------------------------------------------------------------------
(* eval_preprocessor_boolean() of what is left of a condition: 0 or 1, and -1
   for an error.  "?" is any other character. *)
RECURSIVE Eval(_, _, _), eval_preprocessor_boolean(_, _)
CloseOf(z) ==
    { k \in DOMAIN z : Cardinality({ l \in 1 .. k : z[l] = "(" }) = Cardinality({ l \in 1 .. k : z[l] = ")" }) }
Negated(neg, v) == IF neg THEN 1 - v ELSE v
Eval(z, acc, defs) ==
    LET op == Head(z)
        term(v, rest) == Eval(rest, [neg |-> FALSE, res |-> Negated(acc.neg, v), okTerm |-> FALSE], defs)
        operator(stop) == IF acc.res = stop THEN stop ELSE Eval(Tail(z), [acc EXCEPT !.okTerm = TRUE], defs)
    IN  IF z = << >> THEN acc.res
        ELSE CASE op \in {")", "?"} -> -1
               [] op \in {"||", "&&"} /\ acc.okTerm -> -1
               [] op \notin {"||", "&&"} /\ ~acc.okTerm -> -1
               [] op = "||" /\ ~acc.okTerm -> operator(1)
               [] op = "&&" /\ ~acc.okTerm -> operator(0)
               [] op = "!" /\ acc.okTerm -> Eval(Tail(z), [acc EXCEPT !.neg = ~@], defs)
               [] op = "(" /\ acc.okTerm ->
                     IF CloseOf(z) = {} THEN term(acc.res, Tail(z))
                     ELSE LET k == Min(CloseOf(z))
                              v == eval_preprocessor_boolean(SubSeq(z, 2, k - 1), defs)
                          IN  IF v < 0 THEN -1 ELSE term(v, SubSeq(z, k + 1, Len(z)))
               [] OTHER -> term(IF op \in defs THEN 1 ELSE 0, Tail(z))
eval_preprocessor_boolean(z, defs) == Eval(z, [neg |-> FALSE, res |-> 0, okTerm |-> TRUE], defs)

(* One line of preprocess_input(): exclude counts the nesting, from the %if
   that does not hold. *)
Directive(acc, line) ==
    CASE acc.exclude < 0 -> acc
      [] acc.exclude >= 0 /\ line.dir = "" ->
            IF acc.exclude > 0 THEN acc ELSE [acc EXCEPT !.text = @ \o TokensOf(line.item)]
      [] acc.exclude >= 0 /\ line.dir = "endif" -> [acc EXCEPT !.exclude = IF @ > 0 THEN @ - 1 ELSE 0]
      [] acc.exclude >= 0 /\ line.dir = "else" -> [acc EXCEPT !.exclude = IF @ = 1 THEN 0 ELSE IF @ = 0 THEN 1 ELSE @]
      [] acc.exclude >= 0 /\ line.dir \in {"if", "ifndef"} ->
            IF acc.exclude > 0 THEN [acc EXCEPT !.exclude = @ + 1]
            ELSE LET v == eval_preprocessor_boolean(line.expr, file.defines)
                 IN  [acc EXCEPT !.exclude = IF v < 0 THEN -1 ELSE Negated(line.dir = "if", v)]
Preprocessed == FoldLeft(Directive, [exclude |-> 0, text |-> << >>], file.lines)

preprocess_input ==
    /\ stage = "preprocess"
    /\ \/ /\ Preprocessed.exclude = 0
          /\ stage' = "parse"
          /\ text' = Preprocessed.text
       \/ /\ Preprocessed.exclude # 0    \* a syntax error, or the %if is not ended
          /\ stage' = "exit"
          /\ text' = << >>
    /\ UNCHANGED << file, ps, lem >>

-----------------------------------------------------------------------------
tok == Head(text)
IsAlpha == tok.c \in {"lower", "upper"}
prevrule == Len(lem.rules)

(* The tokenizer reports what is not ended, and passes it on. *)
Scanned == [ps EXCEPT !.errorcnt = IF tok.closed THEN @ ELSE @ + 1]
To(s) == ps' = [Scanned EXCEPT !.state = s]
Error(s) == ps' = [Scanned EXCEPT !.errorcnt = @ + 1, !.state = s] /\ UNCHANGED lem

(* Symbol_new() for one more name. *)
Symbol_new(name) == IF name \in ToSet(lem.symbols) THEN lem.symbols ELSE Append(lem.symbols, name)
NewSymbol == lem' = [lem EXCEPT !.symbols = Symbol_new(tok.n)]

In(states) == stage = "parse" /\ text # << >> /\ ps.state \in states

CodeFragment ==
    /\ tok.c = "{"
    /\ \/ prevrule = 0 /\ Error("WAITING_FOR_DECL_OR_RULE")
       \/ prevrule > 0 /\ lem.rules[prevrule].code /\ Error("WAITING_FOR_DECL_OR_RULE")
       \/ /\ prevrule > 0 /\ ~lem.rules[prevrule].code
          /\ To("WAITING_FOR_DECL_OR_RULE")
          /\ lem' = [lem EXCEPT !.rules[prevrule].code = (tok.n # "NEVER-REDUCE")]

DeclOrRule ==
    /\ In({"INITIALIZE", "WAITING_FOR_DECL_OR_RULE"})
    /\ \/ tok.c = "%" /\ To("WAITING_FOR_DECL_KEYWORD") /\ UNCHANGED lem
       \/ /\ tok.c = "lower"
          /\ ps' = [Scanned EXCEPT !.state = "WAITING_FOR_ARROW", !.lhs = tok.n, !.lhsalias = "", !.rhs = << >>]
          /\ NewSymbol
       \/ CodeFragment
       \/ tok.c = "[" /\ To("PRECEDENCE_MARK_1") /\ UNCHANGED lem
       \/ tok.c \notin {"%", "lower", "{", "["} /\ Error("WAITING_FOR_DECL_OR_RULE")

HasMark == lem.rules[prevrule].mark # ""

PrecedenceMark ==
    \/ /\ In({"PRECEDENCE_MARK_1"})
       /\ \/ (tok.c # "upper" \/ prevrule = 0) /\ Error("PRECEDENCE_MARK_2")
          \/ tok.c = "upper" /\ prevrule > 0 /\ HasMark /\ Error("PRECEDENCE_MARK_2")
          \/ /\ tok.c = "upper" /\ prevrule > 0 /\ ~HasMark
             /\ To("PRECEDENCE_MARK_2")
             /\ lem' = IF file.ignorePrec THEN lem
                       ELSE [lem EXCEPT !.rules[prevrule].mark = tok.n, !.symbols = Symbol_new(tok.n)]
    \/ /\ In({"PRECEDENCE_MARK_2"})
       /\ \/ tok.c = "]" /\ To("WAITING_FOR_DECL_OR_RULE") /\ UNCHANGED lem
          \/ tok.c # "]" /\ Error("WAITING_FOR_DECL_OR_RULE")

LeftHandSide ==
    \/ /\ In({"WAITING_FOR_ARROW"})
       /\ \/ tok.c = "::=" /\ To("IN_RHS") /\ UNCHANGED lem
          \/ tok.c = "(" /\ To("LHS_ALIAS_1") /\ UNCHANGED lem
          \/ tok.c \notin {"::=", "("} /\ Error("RESYNC_AFTER_RULE_ERROR")
    \/ /\ In({"LHS_ALIAS_1"})
       /\ \/ IsAlpha /\ ps' = [Scanned EXCEPT !.state = "LHS_ALIAS_2", !.lhsalias = tok.n] /\ UNCHANGED lem
          \/ ~IsAlpha /\ Error("RESYNC_AFTER_RULE_ERROR")
    \/ /\ In({"LHS_ALIAS_2"})
       /\ \/ tok.c = ")" /\ To("LHS_ALIAS_3") /\ UNCHANGED lem
          \/ tok.c # ")" /\ Error("RESYNC_AFTER_RULE_ERROR")
    \/ /\ In({"LHS_ALIAS_3"})
       /\ \/ tok.c = "::=" /\ To("IN_RHS") /\ UNCHANGED lem
          \/ tok.c # "::=" /\ Error("RESYNC_AFTER_RULE_ERROR")

-----------------------------------------------------------------------------
(* '.': the rule is put at the end of the list. *)
EndOfRule ==
    /\ To("WAITING_FOR_DECL_OR_RULE")
    /\ lem' = [lem EXCEPT !.rules = Append(@, [lhs |-> ps.lhs, alias |-> ps.lhsalias, rhs |-> ps.rhs,
                                               code |-> FALSE, mark |-> ""])]

(* A symbol of the right-hand side begins without an alias. *)
RhsSymbol == [syms |-> << tok.n >>, own |-> FALSE, alias |-> ""]

(* |A: what is before it becomes a MULTITERMINAL, and the token is added. *)
IsClass(e) == ~e.own /\ e.syms[1] \in DOMAIN lem.subsym
Compound ==
    LET e == Last(ps.rhs)
        first == IF IsClass(e) THEN Append(lem.subsym[e.syms[1]], tok.n)[1] ELSE e.syms[1]
    IN  /\ ps' = [Scanned EXCEPT !.rhs = IF IsClass(e) THEN @
                                         ELSE Append(Front(@), [e EXCEPT !.own = TRUE, !.syms = Append(@, tok.n)]),
                                 !.errorcnt = IF first \in Upper THEN @ ELSE @ + 1]
        /\ lem' = [lem EXCEPT !.symbols = Symbol_new(tok.n),
                              !.subsym = IF IsClass(e) THEN [@ EXCEPT ![e.syms[1]] = Append(@, tok.n)] ELSE @]

RightHandSide ==
    \/ /\ In({"IN_RHS"})
       /\ \/ tok.c = "." /\ EndOfRule
          \/ IsAlpha /\ Len(ps.rhs) >= MAXRHS /\ Error("RESYNC_AFTER_RULE_ERROR")
          \/ /\ IsAlpha /\ Len(ps.rhs) < MAXRHS
             /\ ps' = [Scanned EXCEPT !.rhs = Append(@, RhsSymbol)]
             /\ NewSymbol
          \/ tok.c = "|" /\ ps.rhs # << >> /\ Compound
          \/ tok.c = "(" /\ ps.rhs # << >> /\ To("RHS_ALIAS_1") /\ UNCHANGED lem
          \/ /\ tok.c \notin {".", "lower", "upper"}
             /\ tok.c \notin {"|", "("} \/ ps.rhs = << >>
             /\ Error("RESYNC_AFTER_RULE_ERROR")
    \/ /\ In({"RHS_ALIAS_1"})
       /\ \/ /\ IsAlpha
             /\ ps' = [Scanned EXCEPT !.state = "RHS_ALIAS_2", !.rhs[Len(ps.rhs)].alias = tok.n]
             /\ UNCHANGED lem
          \/ ~IsAlpha /\ Error("RESYNC_AFTER_RULE_ERROR")
    \/ /\ In({"RHS_ALIAS_2"})
       /\ \/ tok.c = ")" /\ To("IN_RHS") /\ UNCHANGED lem
          \/ tok.c # ")" /\ Error("RESYNC_AFTER_RULE_ERROR")

-----------------------------------------------------------------------------
WithArgument == { "name", "include", "code", "token_destructor", "default_destructor", "token_prefix", "syntax_error",
                  "parse_accept", "parse_failure", "stack_overflow", "extra_argument", "extra_context", "token_type",
                  "default_type", "stack_size", "expect", "start_symbol" }
StateFor == [destructor |-> "WAITING_FOR_DESTRUCTOR_SYMBOL", type |-> "WAITING_FOR_DATATYPE_SYMBOL",
             fallback |-> "WAITING_FOR_FALLBACK_ID", token |-> "WAITING_FOR_TOKEN_NAME",
             wildcard |-> "WAITING_FOR_WILDCARD_ID", token_class |-> "WAITING_FOR_CLASS_ID"]

(* Mutant of NewTarget: tokens go on to fall back to the target of the last %fallback. *)
NewTarget_Kept(keyword) == ps.fallback
NewTarget(keyword) == IF keyword = "fallback" THEN "" ELSE ps.fallback

DeclKeyword ==
    /\ In({"WAITING_FOR_DECL_KEYWORD"})
    /\ \/ /\ IsAlpha /\ tok.n \in WithArgument
          /\ ps' = [Scanned EXCEPT !.state = "WAITING_FOR_DECL_ARG", !.declargslot = << tok.n, "" >>]
          /\ UNCHANGED lem
       \/ /\ IsAlpha /\ tok.n \in DOMAIN Precedences
          /\ ps' = [Scanned EXCEPT !.state = "WAITING_FOR_PRECEDENCE_SYMBOL", !.preccounter = @ + 1,
                                   !.declassoc = Precedences[tok.n]]
          /\ UNCHANGED lem
       \/ /\ IsAlpha /\ tok.n \in DOMAIN StateFor
          /\ ps' = [Scanned EXCEPT !.state = StateFor[tok.n], !.fallback = NewTarget(tok.n)]
          /\ UNCHANGED lem
       \/ /\ IsAlpha /\ tok.n = "yacc_prec"
          /\ To("WAITING_FOR_DECL_OR_RULE")
          /\ lem' = [lem EXCEPT !.yaccPrec = TRUE]
       \/ /\ ~IsAlpha \/ tok.n \notin WithArgument \cup DOMAIN Precedences \cup DOMAIN StateFor \cup {"yacc_prec"}
          /\ Error("RESYNC_AFTER_DECL_ERROR")

(* Mutant of HasType: a second %type for a symbol is taken. *)
HasType_Never(name) == FALSE
HasType(name) == \E k \in DOMAIN lem.args : lem.args[k].slot = << "type", name >>
DeclSymbol ==
    \/ /\ In({"WAITING_FOR_DESTRUCTOR_SYMBOL"})
       /\ \/ ~IsAlpha /\ Error("RESYNC_AFTER_DECL_ERROR")
          \/ /\ IsAlpha
             /\ ps' = [Scanned EXCEPT !.state = "WAITING_FOR_DECL_ARG", !.declargslot = << "destructor", tok.n >>]
             /\ NewSymbol
    \/ /\ In({"WAITING_FOR_DATATYPE_SYMBOL"})
       /\ \/ (~IsAlpha \/ HasType(tok.n)) /\ Error("RESYNC_AFTER_DECL_ERROR")
          \/ /\ IsAlpha /\ ~HasType(tok.n)
             /\ ps' = [Scanned EXCEPT !.state = "WAITING_FOR_DECL_ARG", !.declargslot = << "type", tok.n >>]
             /\ NewSymbol

(* What is in the slot already stays in front of the argument. *)
DeclArg ==
    /\ In({"WAITING_FOR_DECL_ARG"})
    /\ \/ /\ tok.c \in {"{", "string", "lower", "upper", "number"}
          /\ To("WAITING_FOR_DECL_OR_RULE")
          /\ lem' = [lem EXCEPT !.args = Append(@, [slot |-> ps.declargslot, arg |-> tok.n])]
       \/ /\ tok.c \notin {"{", "string", "lower", "upper", "number"}
          /\ Error("RESYNC_AFTER_DECL_ERROR")

-----------------------------------------------------------------------------
(* The lists of tokens, up to a dot. *)
ListStates == { "WAITING_FOR_PRECEDENCE_SYMBOL", "WAITING_FOR_FALLBACK_ID", "WAITING_FOR_TOKEN_NAME", "WAITING_FOR_WILDCARD_ID" }
EndOfList == In(ListStates) /\ tok.c = "." /\ To("WAITING_FOR_DECL_OR_RULE") /\ UNCHANGED lem
NoToken == In(ListStates) /\ tok.c \notin {".", "upper"} /\ Error(ps.state)
Listed(s) == In({s}) /\ tok.c = "upper"

PrecedenceSymbol ==
    /\ Listed("WAITING_FOR_PRECEDENCE_SYMBOL")
    /\ \/ file.ignorePrec /\ To(ps.state) /\ UNCHANGED lem
       \/ ~file.ignorePrec /\ tok.n \in DOMAIN lem.prec /\ Error(ps.state)
       \/ /\ ~file.ignorePrec /\ tok.n \notin DOMAIN lem.prec
          /\ To(ps.state)
          /\ lem' = [lem EXCEPT !.symbols = Symbol_new(tok.n),
                                !.prec = (tok.n :> [prec |-> ps.preccounter, assoc |-> ps.declassoc]) @@ @]

Fallback ==
    /\ Listed("WAITING_FOR_FALLBACK_ID")
    /\ \/ ps.fallback = "" /\ ps' = [Scanned EXCEPT !.fallback = tok.n] /\ NewSymbol
       \/ ps.fallback # "" /\ tok.n \in DOMAIN lem.fallback /\ Error(ps.state)
       \/ /\ ps.fallback # "" /\ tok.n \notin DOMAIN lem.fallback
          /\ To(ps.state)
          /\ lem' = [lem EXCEPT !.symbols = Symbol_new(tok.n), !.fallback = (tok.n :> ps.fallback) @@ @]

TokenName == Listed("WAITING_FOR_TOKEN_NAME") /\ To(ps.state) /\ NewSymbol

Wildcard ==
    /\ Listed("WAITING_FOR_WILDCARD_ID")
    /\ \/ /\ lem.wildcard = ""
          /\ To(ps.state)
          /\ lem' = [lem EXCEPT !.symbols = Symbol_new(tok.n), !.wildcard = tok.n]
       \/ /\ lem.wildcard # ""
          /\ ps' = [Scanned EXCEPT !.errorcnt = @ + 1]
          /\ NewSymbol

TokenClass ==
    \/ /\ In({"WAITING_FOR_CLASS_ID"})
       /\ \/ (tok.c # "lower" \/ tok.n \in ToSet(lem.symbols)) /\ Error("RESYNC_AFTER_DECL_ERROR")
          \/ /\ tok.c = "lower" /\ tok.n \notin ToSet(lem.symbols)
             /\ ps' = [Scanned EXCEPT !.state = "WAITING_FOR_CLASS_TOKEN", !.tkclass = tok.n]
             /\ lem' = [lem EXCEPT !.symbols = Append(@, tok.n), !.subsym = (tok.n :> << >>) @@ @]
    \/ /\ In({"WAITING_FOR_CLASS_TOKEN"})
       /\ \/ tok.c = "." /\ To("WAITING_FOR_DECL_OR_RULE") /\ UNCHANGED lem
          \/ /\ tok.c \in {"upper", "|"}
             /\ To(ps.state)
             /\ lem' = [lem EXCEPT !.symbols = Symbol_new(tok.n), !.subsym[ps.tkclass] = Append(@, tok.n)]
          \/ tok.c \notin {".", "upper", "|"} /\ Error("RESYNC_AFTER_DECL_ERROR")

(* After an error tokens are skipped up to a dot or a percent sign. *)
Resync ==
    /\ In({"RESYNC_AFTER_RULE_ERROR", "RESYNC_AFTER_DECL_ERROR"})
    /\ To(IF tok.c = "." THEN "WAITING_FOR_DECL_OR_RULE" ELSE IF tok.c = "%" THEN "WAITING_FOR_DECL_KEYWORD" ELSE ps.state)
    /\ UNCHANGED lem

parseonetoken ==
    /\ \/ DeclOrRule \/ PrecedenceMark \/ LeftHandSide \/ RightHandSide
       \/ DeclKeyword \/ DeclSymbol \/ DeclArg \/ EndOfList \/ NoToken
       \/ PrecedenceSymbol \/ Fallback \/ TokenName \/ Wildcard \/ TokenClass \/ Resync
    /\ text' = Tail(text)
    /\ UNCHANGED << stage, file >>

(* The end of the file, and the tests of main(). *)
EndOfFile ==
    /\ stage = "parse"
    /\ text = << >>
    /\ stage' = IF ps.errorcnt > 0 \/ prevrule = 0 THEN "exit" ELSE "done"
    /\ UNCHANGED << file, text, ps, lem >>

-----------------------------------------------------------------------------
(* What main() makes of it: tokens before variables before token classes, in
   the order they were met; {default} is left out.  FindStates() looks for the
   start symbol, and stack_size is what the template makes of it. *)
tokenNames == SelectSeq(lem.symbols, LAMBDA s : s \in {"$"} \cup Upper)
variableNames == SelectSeq(lem.symbols, LAMBDA s : s \notin {"$"} \cup Upper \cup DOMAIN lem.subsym)
index(name) == SelectInSeq(tokenNames \o variableNames, LAMBDA s : s = name) - 1
indexOr0(name) == IF name \in ToSet(lem.symbols) THEN index(name) ELSE 0
Slot(key) == LET s == SelectSeq(lem.args, LAMBDA e : e.slot[1] = key) IN [k \in DOMAIN s |-> s[k].arg]
StartFound == Slot("start_symbol") = << >> \/ (Len(Slot("start_symbol")) = 1 /\ Slot("start_symbol")[1] \in ToSet(lem.symbols))

TokensFor(e) == IF IsClass(e) THEN lem.subsym[e.syms[1]] ELSE e.syms
PrecedenceOf(name) == IF name \in DOMAIN lem.prec THEN lem.prec[name] ELSE [prec |-> -1, assoc |-> "UNK"]

GrammarRead ==
    LET tokens == 0 .. Len(tokenNames) - 1
        rule(r) == lem.rules[r + 1]
    IN  [ntokens |-> Len(tokenNames), nsyms |-> Len(tokenNames) + Len(variableNames),
         start |-> index(IF StartFound /\ Slot("start_symbol") # << >> THEN Slot("start_symbol")[1] ELSE rule(0).lhs),
         rules |-> [r \in 0 .. prevrule - 1 |->
                      [lhs |-> index(rule(r).lhs), code |-> rule(r).code,
                       rhs |-> [k \in DOMAIN rule(r).rhs |->
                                  [n \in DOMAIN TokensFor(rule(r).rhs[k]) |-> index(TokensFor(rule(r).rhs[k])[n])]]]],
         errsym |-> indexOr0("error"), wildcard |-> indexOr0(lem.wildcard),
         mark |-> [r \in 0 .. prevrule - 1 |-> indexOr0(rule(r).mark)],
         prec |-> [t \in tokens |-> PrecedenceOf(tokenNames[t + 1]).prec],
         assoc |-> [t \in tokens |-> PrecedenceOf(tokenNames[t + 1]).assoc],
         fallback |-> [t \in tokens |-> IF tokenNames[t + 1] \in DOMAIN lem.fallback
                                        THEN index(lem.fallback[tokenNames[t + 1]]) ELSE 0],
         yaccPrec |-> lem.yaccPrec, ignorePrec |-> file.ignorePrec, compress |-> file.compress,
         norecovery |-> file.norecovery,
         stacksize |-> IF Slot("stack_size") = << >> THEN 100 ELSE Numeral(Slot("stack_size"))]

ReaderNext == preprocess_input \/ parseonetoken \/ EndOfFile

-----------------------------------------------------------------------------
(***************************************************************************)
(* What a well-formed file says is what lemon makes of it: the kept lines, *)
(* the numbers of the symbols, the alternatives, precedences and marks of  *)
(* every rule and the aliases its code goes by, whatever state a           *)
(* declaration before it, skipped lines or another rule have left.         *)
(***************************************************************************)
GoodLines == Balanced(file.lines) /\ ConditionsGood(file.lines)
AliasesIn(rules) == [r \in DOMAIN rules |-> << rules[r].alias, [k \in DOMAIN rules[r].rhs |-> rules[r].rhs[k].alias] >>]

GrammarAsWritten ==
    stage = "done" /\ GoodLines /\ WellFormed(file, ItemsOf(file)) =>
        /\ GrammarRead = Meaning(file, ItemsOf(file))
        /\ AliasesIn(lem.rules) = AliasesIn(InSequence(ItemsOf(file), Of(ItemsOf(file), "rule")))

(***************************************************************************)
(* lemon goes on exactly with the files that are well-formed; what it does *)
(* not look for is named in NotLookedFor.  No error is lost by skipping    *)
(* tokens after another, and none reported for a file without one.         *)
(***************************************************************************)
MalformedAreRefused ==
    stage \in {"done", "exit"} /\ GoodLines =>
        LET items == ItemsOf(file)
        IN  /\ WellFormed(file, items) => stage = "done"
            /\ stage = "done" => WellFormed(file, items) \/ NotLookedFor(items)
=============================================================================
