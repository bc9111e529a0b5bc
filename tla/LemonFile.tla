------------------------------ MODULE LemonFile ------------------------------
(***************************************************************************)
(* Grammar files of lemon and what they mean.  A file is a sequence of     *)
(* lines, each of them a directive of the preprocessor or an item:         *)
(*    "rule"  lhs(alias) ::= rhs.  with rhs a sequence of [syms, alias],   *)
(*            where more than one symbol stands for  A|B|C                 *)
(*    "code"  { text }             "mark"  [sym]                           *)
(*    "list"  %key names .         "arg"   %key sym text                   *)
(*    "flag"  %key                                                         *)
(*    "raw"   tokens that are malformed wherever they stand                *)
(*    "cut"   the beginning of an item, at the end of the file             *)
(* It is stated for whole files and items, so that it can be compared with *)
(* LemonReader, which reads token by token.                                *)
(***************************************************************************)
EXTENDS GrammarTheory, FiniteSetsExt, SequencesExt

CONSTANT MAXRHS

Upper == { "A", "B", "C", "D" }
Precedences == [left |-> "LEFT", right |-> "RIGHT", nonassoc |-> "NONE", precedence |-> "PRECEDENCE"]

(* Tokens: what they begin with, the name or text, and whether a string or
   piece of code ends before the file does. *)
Sign(c) == [c |-> c, n |-> "", closed |-> TRUE]
(* atoi() of digits that were written together. *)
Digits == ("0" :> 0) @@ ("1" :> 1) @@ ("2" :> 2) @@ ("3" :> 3)
Numeral(texts) == FoldLeft(LAMBDA v, d : 10 * v + Digits[d], 0, texts)

Text(c, n) == [c |-> c, n |-> n, closed |-> TRUE]
Word(n) == Text(IF n \in Upper THEN "upper" ELSE "lower", n)
Words(names) == [k \in DOMAIN names |-> Word(names[k])]
Aliased(alias) == IF alias = "" THEN << >> ELSE << Sign("("), Word(alias), Sign(")") >>
Alternatives(syms) == << Word(syms[1]) >> \o [k \in 1 .. Len(syms) - 1 |-> Text("|", syms[k + 1])]

TokensOf(item) ==
    CASE item.kind = "rule" ->
           << Word(item.lhs) >> \o Aliased(item.alias) \o << Sign("::=") >>
           \o FlattenSeq([k \in DOMAIN item.rhs |-> Alternatives(item.rhs[k].syms) \o Aliased(item.rhs[k].alias)])
           \o << Sign(".") >>
      [] item.kind = "code" -> << Text("{", item.text) >>
      [] item.kind = "mark" -> << Sign("["), Word(item.sym), Sign("]") >>
      [] item.kind = "list" -> << Sign("%"), Word(item.key) >> \o Words(item.names) \o << Sign(".") >>
      [] item.kind = "arg" ->
           << Sign("%"), Word(item.key) >> \o (IF item.sym = "" THEN << >> ELSE << Word(item.sym) >>)
           \o << Text(item.c, item.text) >>
      [] item.kind = "flag" -> << Sign("%"), Word(item.key) >>
      [] OTHER -> item.tokens

-----------------------------------------------------------------------------
(* Conditions: a name, a negation, one in parentheses, or two of them; && and
   || bind alike, and what is on their right belongs together.  The conditions
   of a length as pairs of their tokens and value, with the names of defs. *)
RECURSIVE Terms(_, _, _), Conditions(_, _, _)
Terms(n, names, defs) ==
    CASE n = 1 -> { << << x >>, IF x \in defs THEN 1 ELSE 0 >> : x \in names }
      [] n > 1 -> { << << "!" >> \o t[1], 1 - t[2] >> : t \in Terms(n - 1, names, defs) }
                  \cup { << << "(" >> \o e[1] \o << ")" >>, e[2] >> : e \in Conditions(n - 2, names, defs) }
      [] OTHER -> {}
Both(t, e, op) == << t[1] \o << op >> \o e[1], IF op = "&&" THEN t[2] * e[2] ELSE IF t[2] + e[2] > 0 THEN 1 ELSE 0 >>
Conditions(n, names, defs) ==
    Terms(n, names, defs) \cup
    UNION { { Both(t, e, op) : t \in Terms(k, names, defs), e \in Conditions(n - 1 - k, names, defs), op \in {"&&", "||"} } :
              k \in 1 .. n - 2 }
ConditionsOf(e, defs) == { v \in Conditions(Len(e), ToSet(e) \ {"!", "&&", "||", "(", ")", "?"}, defs) : v[1] = e }
ValueOf(e, defs) == (CHOOSE v \in ConditionsOf(e, defs) : TRUE)[2]

(* The lines that an %if at line j encloses, up to its %else or %endif. *)
Opens(lines, j) == lines[j].dir \in { "if", "ifndef" }
Depth(lines, j, k) ==
    Cardinality({ l \in j .. k : Opens(lines, l) }) - Cardinality({ l \in j .. k : lines[l].dir = "endif" })
EndsOf(lines, j) == { k \in j .. Len(lines) : Depth(lines, j, k) = 0 }
ElsesOf(lines, j) == { k \in j .. Len(lines) : lines[k].dir = "else" /\ \A l \in j .. k : Depth(lines, j, l) > 0
                                               /\ Depth(lines, j, k) = 1 }
EndOf(lines, j) == Min(EndsOf(lines, j))
Encloses(lines, j, k) == Opens(lines, j) /\ j < k /\ k < EndOf(lines, j)

Balanced(lines) ==
    /\ \A j \in DOMAIN lines : Depth(lines, 1, j) >= 0
    /\ \A j \in DOMAIN lines : Opens(lines, j) => EndsOf(lines, j) # {} /\ Cardinality(ElsesOf(lines, j)) <= 1
    /\ \A k \in DOMAIN lines : lines[k].dir = "else" => \E j \in DOMAIN lines : Opens(lines, j) /\ k \in ElsesOf(lines, j)
ConditionsGood(lines) == \A j \in DOMAIN lines : Opens(lines, j) => ConditionsOf(lines[j].expr, {}) # {}

Holds(lines, j, k, defs) ==
    LET v == IF lines[j].dir = "ifndef" THEN 1 - ValueOf(lines[j].expr, defs) ELSE ValueOf(lines[j].expr, defs)
    IN  IF \E l \in ElsesOf(lines, j) : l < k THEN v = 0 ELSE v = 1
Kept(lines, defs) ==
    { k \in DOMAIN lines : lines[k].dir = "" /\ \A j \in DOMAIN lines : Encloses(lines, j, k) => Holds(lines, j, k, defs) }

ItemsOf(f) ==
    LET kept == InOrder(Kept(f.lines, f.defines), <) IN [n \in DOMAIN kept |-> f.lines[kept[n]].item]

-----------------------------------------------------------------------------
(* The items of a kind, or lists with a key, as sets of their places. *)
Of(items, kind) == { k \in DOMAIN items : items[k].kind = kind }
Lists(items, keys) == { k \in Of(items, "list") : items[k].key \in keys }
Args(items, key) == { k \in Of(items, "arg") : items[k].key = key }
InPlace(S) == InOrder(S, <)
InSequence(s, S) == [n \in 1 .. Cardinality(S) |-> s[InPlace(S)[n]]]
NamesIn(items, S) == FlattenSeq([n \in 1 .. Cardinality(S) |-> InSequence(items, S)[n].names])
RuleBefore(items, k) == Max({0} \cup { r \in Of(items, "rule") : r < k })
ForRule(items, kind, r) == { k \in Of(items, kind) : RuleBefore(items, k) = r }
PrecLists(f, items) == IF f.ignorePrec THEN {} ELSE Lists(items, DOMAIN Precedences)

(* The names that become symbols, in the order they are first met. *)
Mentions(f, item) ==
    CASE item.kind = "rule" -> << item.lhs >> \o FlattenSeq([k \in DOMAIN item.rhs |-> item.rhs[k].syms])
      [] item.kind = "mark" /\ ~f.ignorePrec -> << item.sym >>
      [] item.kind = "list" /\ ~(f.ignorePrec /\ item.key \in DOMAIN Precedences) -> item.names
      [] item.kind = "arg" /\ item.sym # "" -> << item.sym >>
      [] OTHER -> << >>
MentionsUpTo(f, items, k) == << "$" >> \o FlattenSeq([j \in 1 .. k |-> Mentions(f, items[j])])
Firsts(s) == { k \in DOMAIN s : \A j \in 1 .. k - 1 : s[j] # s[k] }
Classes(items) == { items[k].names[1] : k \in Lists(items, {"token_class"}) }

WellFormed(f, items) ==
    LET all(keys) == NamesIn(items, Lists(items, keys))
        lists == InSequence(items, Lists(items, {"fallback"}))
        fallbacks == FlattenSeq([n \in DOMAIN lists |-> Tail(lists[n].names)])
    IN  /\ Of(items, "raw") = {} /\ Of(items, "cut") = {} /\ Of(items, "rule") # {}
        /\ Of(items, "list") = Lists(items, DOMAIN Precedences \cup {"fallback", "token", "wildcard", "token_class"})
        /\ ToSet(all(DOMAIN Precedences \cup {"fallback", "token", "wildcard"})) \subseteq Upper
        /\ IsInjective(NamesIn(items, PrecLists(f, items)))
        /\ IsInjective(fallbacks)
        /\ Len(all({"wildcard"})) <= 1
        /\ \A k \in Lists(items, {"token_class"}) :
              /\ items[k].names[1] \notin Upper \cup ToSet(MentionsUpTo(f, items, k - 1))
              /\ Len(items[k].names) > 1 /\ ToSet(Tail(items[k].names)) \subseteq Upper
        /\ \A j, k \in Args(items, "type") : items[j].sym = items[k].sym => j = k
        /\ \A r \in Of(items, "rule") :
              /\ items[r].lhs \notin Upper \cup Classes(items)
              /\ Len(items[r].rhs) <= MAXRHS
              /\ \A e \in ToSet(items[r].rhs) : Len(e.syms) > 1 => ToSet(e.syms) \subseteq Upper
        /\ \A k \in Of(items, "code") :
              RuleBefore(items, k) > 0 /\ \A j \in ForRule(items, "code", RuleBefore(items, k)) :
                                             j < k => items[j].text = "NEVER-REDUCE"
        /\ \A k \in Of(items, "mark") :
              /\ items[k].sym \in Upper /\ RuleBefore(items, k) > 0
              /\ f.ignorePrec \/ \A j \in ForRule(items, "mark", RuleBefore(items, k)) : j = k

(* What lemon does not look for: rules for a token class, alternatives that
   begin with one, a class without tokens, an item that is not finished. *)
NotLookedFor(items) ==
    \/ \E r \in Of(items, "rule") :
          items[r].lhs \in Classes(items) \/ \E e \in ToSet(items[r].rhs) : Len(e.syms) > 1 /\ e.syms[1] \in Classes(items)
    \/ \E k \in Lists(items, {"token_class"}) : Len(items[k].names) = 1
    \/ \E k \in Of(items, "cut") : k = Len(items)

(* The symbols in the order of their numbers. *)
SymbolsOf(f, items) ==
    LET names == MentionsUpTo(f, items, Len(items))
        symbols == InSequence(names, Firsts(names))
    IN  [terminals |-> SelectSeq(symbols, LAMBDA x : x \in {"$"} \cup Upper),
         variables |-> SelectSeq(symbols, LAMBDA x : x \notin {"$"} \cup Upper \cup Classes(items))]

(* The grammar, in the form LemonBuild describes. *)
Meaning(f, items) ==
    LET T == SymbolsOf(f, items).terminals
        symbols == T \o SymbolsOf(f, items).variables
        number(x) == SelectInSeq(symbols, LAMBDA y : y = x) - 1
        someNumber(S) == IF S = {} THEN 0 ELSE number(CHOOSE x \in S : TRUE)
        tokens(x) ==
            IF x \in Classes(items)
            THEN Tail(items[CHOOSE k \in Lists(items, {"token_class"}) : items[k].names[1] = x].names)
            ELSE << x >>
        rule(r) == items[InPlace(Of(items, "rule"))[r + 1]]
        with(kind, r) == { items[k] : k \in ForRule(items, kind, InPlace(Of(items, "rule"))[r + 1]) }
        numbers(s) == [n \in DOMAIN s |-> number(s[n])]
        level(t) == { k \in PrecLists(f, items) : T[t + 1] \in ToSet(items[k].names) }
        levels == InPlace(Lists(items, DOMAIN Precedences))
        targets(t) == { items[k].names[1] : k \in { l \in Lists(items, {"fallback"}) : T[t + 1] \in ToSet(Tail(items[l].names)) } }
        starts == { items[k].text : k \in Args(items, "start_symbol") }
        rules == 0 .. Cardinality(Of(items, "rule")) - 1
        terminals == 0 .. Len(T) - 1
    IN  [ntokens |-> Len(T), nsyms |-> Len(symbols),
         start |-> IF Cardinality(Args(items, "start_symbol")) = 1 /\ starts \subseteq ToSet(symbols)
                   THEN someNumber(starts) ELSE number(rule(0).lhs),
         rules |-> [r \in rules |->
                      [lhs |-> number(rule(r).lhs), code |-> \E e \in with("code", r) : e.text # "NEVER-REDUCE",
                       rhs |-> [n \in DOMAIN rule(r).rhs |-> numbers(FlattenSeq([l \in DOMAIN rule(r).rhs[n].syms |->
                                                                              tokens(rule(r).rhs[n].syms[l])]))]]],
         errsym |-> someNumber({"error"} \cap ToSet(symbols)),
         wildcard |-> someNumber(ToSet(NamesIn(items, Lists(items, {"wildcard"})))),
         mark |-> [r \in rules |-> someNumber({ e.sym : e \in IF f.ignorePrec THEN {} ELSE with("mark", r) })],
         prec |-> [t \in terminals |-> IF level(t) = {} THEN -1
                                       ELSE SelectInSeq(levels, LAMBDA k : k \in level(t))],
         assoc |-> [t \in terminals |-> IF level(t) = {} THEN "UNK"
                                        ELSE Precedences[items[CHOOSE k \in level(t) : TRUE].key]],
         fallback |-> [t \in terminals |-> someNumber(targets(t))],
         yaccPrec |-> f.yaccPrec \/ \E k \in Of(items, "flag") : items[k].key = "yacc_prec",
         ignorePrec |-> f.ignorePrec, compress |-> f.compress, norecovery |-> f.norecovery,
         stacksize |-> IF Args(items, "stack_size") = {} THEN 100
                       ELSE Numeral([n \in 1 .. Cardinality(Args(items, "stack_size")) |->
                                       items[InPlace(Args(items, "stack_size"))[n]].text])]
=============================================================================
