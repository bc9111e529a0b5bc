-------------------------- MODULE LemonFileSamples --------------------------
(***************************************************************************)
(* Grammar files for lemon: one for each grammar of a set, and files that  *)
(* put two declarations, rules or mistakes between two rules, or use the   *)
(* preprocessor.                                                           *)
(***************************************************************************)
EXTENDS LemonFile

Sym(s) == [syms |-> << s >>, alias |-> ""]
As(e, alias) == [e EXCEPT !.alias = alias]
OneOf(syms) == [syms |-> syms, alias |-> ""]
Rule(lhs, right) == [kind |-> "rule", lhs |-> lhs, alias |-> "", rhs |-> right]
Code(s) == [kind |-> "code", text |-> s]
Mark(s) == [kind |-> "mark", sym |-> s]
ListOf(key, names) == [kind |-> "list", key |-> key, names |-> names]
Arg(key, sym, class, s) == [kind |-> "arg", key |-> key, sym |-> sym, c |-> class, text |-> s]
Flag(key) == [kind |-> "flag", key |-> key]
Raw(tokens) == [kind |-> "raw", tokens |-> tokens]
Cut(tokens) == [kind |-> "cut", tokens |-> tokens]
Item(item) == [dir |-> "", expr |-> << >>, item |-> item]
Dir(dir, expr) == [dir |-> dir, expr |-> expr, item |-> Raw(<< >>)]

FileWith(lines) ==
    [lines |-> lines, defines |-> {}, yaccPrec |-> FALSE, ignorePrec |-> FALSE, compress |-> TRUE, norecovery |-> FALSE]
Items(items) == FileWith([k \in DOMAIN items |-> Item(items[k])])

(* A file for a grammar of LemonGrammarSamples. *)
Terminal == << "A", "B", "C", "D" >>
NameOf(gr, y) ==
    IF y < gr.ntokens THEN Terminal[y]
    ELSE IF y = gr.errsym THEN "error" ELSE << "p", "q", "r", "s", "t" >>[y - gr.ntokens + 1]
NamesOf(gr, s) == [k \in DOMAIN s |-> NameOf(gr, s[k])]
Keyword(assoc) == CHOOSE k \in DOMAIN Precedences : Precedences[k] = assoc
FileOf(gr) ==
    LET T == 1 .. gr.ntokens - 1
        level(p) == { t \in T : gr.prec[t] = p }
        levels == InOrder({ gr.prec[t] : t \in T } \ {-1}, <)
        ruleAt(r) ==
            << Rule(NameOf(gr, gr.rules[r].lhs),
                    [k \in DOMAIN gr.rules[r].rhs |-> OneOf(NamesOf(gr, gr.rules[r].rhs[k]))]) >>
            \o (IF gr.mark[r] = 0 THEN << >> ELSE << Mark(NameOf(gr, gr.mark[r])) >>)
            \o (IF gr.rules[r].code THEN << Code("code") >> ELSE << >>)
        only(condition, item) == IF condition THEN << item >> ELSE << >>
        fallbacks == InOrder({ t \in T : gr.fallback[t] # 0 }, <)
        items ==
            << ListOf("token", SubSeq(Terminal, 1, gr.ntokens - 1)) >>
            \o [k \in 1 .. gr.nsyms - gr.ntokens |-> Arg("type", NameOf(gr, gr.ntokens + k - 1), "lower", "int")]
            \o [k \in DOMAIN levels |->
                  ListOf(Keyword(gr.assoc[CHOOSE t \in level(levels[k]) : TRUE]), NamesOf(gr, InOrder(level(levels[k]), <)))]
            \o [k \in DOMAIN fallbacks |-> ListOf("fallback", NamesOf(gr, << gr.fallback[fallbacks[k]], fallbacks[k] >>))]
            \o only(gr.wildcard # 0, ListOf("wildcard", << NameOf(gr, gr.wildcard) >>))
            \o only(gr.yaccPrec, Flag("yacc_prec"))
            \o only(gr.stacksize # 100, Arg("stack_size", "", "number", CHOOSE n \in DOMAIN Digits : Digits[n] = gr.stacksize))
            \o FlattenSeq([k \in 1 .. Cardinality(DOMAIN gr.rules) |-> ruleAt(k - 1)])
    IN  [Items(items) EXCEPT !.compress = gr.compress, !.norecovery = gr.norecovery]

-----------------------------------------------------------------------------
Declarations ==
    { ListOf("left", << "A" >>), ListOf("right", << "B", "A" >>), ListOf("nonassoc", << "B" >>), ListOf("precedence", << "C" >>),
      ListOf("fallback", << "A", "B" >>), ListOf("fallback", << "C", "A", "B" >>), ListOf("fallback", << "D", "C" >>),
      ListOf("wildcard", << "D" >>),
      ListOf("token", << "C", "B" >>), ListOf("token_class", << "k", "B", "C" >>), ListOf("token_class", << "k" >>),
      Arg("type", "q", "{", "int"), Arg("type", "A", "lower", "int"), Arg("destructor", "r", "{", "code"),
      Arg("start_symbol", "", "lower", "q"), Arg("stack_size", "", "number", "2"), Arg("include", "", "string", "text"),
      Flag("yacc_prec") }
Rules ==
    { Code("code"), Code("NEVER-REDUCE"), Mark("A"), Mark("C"),
      Rule("r", << As(Sym("k"), "x"), OneOf(<< "A", "B" >>) >>), Rule("r", << As(OneOf(<< "C", "A", "D" >>), "x"), Sym("r") >>),
      Rule("r", << >>), Rule("q", << Sym("A"), Sym("error"), Sym("B"), Sym("C") >>),
      Rule("r", << OneOf(<< "k", "D" >>) >>), Rule("k", << Sym("A") >>) }
W(s) == Word(s)
Mistakes ==
    { Rule("r", [k \in 1 .. 6 |-> Sym("A")]), Rule("r", << OneOf(<< "q", "A" >>) >>), Mark("q"),
      ListOf("left", << "q" >>), ListOf("fallback", << "A", "q" >>), ListOf("token", << "q" >>), ListOf("wildcard", << "q" >>),
      ListOf("wildcard", << "A", "D" >>), ListOf("token_class", << "B", "A" >>), ListOf("token_class", << "j", "A", "q" >>),
      ListOf("nothing", << "A" >>),
      Raw(<< W("A") >>), Raw(<< Sign("%"), Sign("%") >>), Raw(<< Sign("["), W("A"), Sign(".") >>),
      Raw(<< W("r"), W("A"), Sign(".") >>), Raw(<< W("r"), Sign("("), Sign(")"), Sign(".") >>),
      Raw(<< W("r"), Sign("("), W("x"), Sign("::="), W("A"), Sign(".") >>),
      Raw(<< W("r"), Sign("("), W("x"), Sign(")"), W("A"), Sign(".") >>),
      Raw(<< W("r"), Sign("::="), Sign("("), W("A"), Sign(")"), Sign(".") >>),
      Raw(<< W("r"), Sign("::="), W("A"), Sign("("), Sign(")"), Sign(".") >>),
      Raw(<< W("r"), Sign("::="), W("A"), Sign("("), W("x"), W("A"), Sign(".") >>),
      Raw(<< W("r"), Sign("::="), Text("|", "A"), Sign(".") >>),
      Raw(<< Sign("%"), W("type"), Sign("(") >>), Raw(<< Sign("%"), W("destructor"), Sign(".") >>),
      Raw(<< Sign("%"), W("name"), Sign(".") >>) }
Unfinished ==
    { Cut(<< >>), Cut(<< W("r"), Sign("::="), W("A") >>), Cut(<< Sign("%"), W("left"), W("A") >>), Cut(<< Sign("%"), W("include") >>),
      Raw(<< Sign("%"), W("include"), [Text("{", "code") EXCEPT !.closed = FALSE] >>),
      Raw(<< Sign("%"), W("include"), [Text("string", "text") EXCEPT !.closed = FALSE] >>) }

First == Rule("p", << As(Sym("q"), "x"), Sym("A") >>)
Final == [Rule("q", << Sym("A"), As(Sym("B"), "y") >>) EXCEPT !.alias = "z"]
TwoItems ==
    { Items(<< First, y, z, Final >>) : y \in Declarations \cup Rules \cup Mistakes, z \in Declarations \cup Rules \cup Mistakes }
    \cup { Items(<< y, z, First, Final >>) : y \in Declarations, z \in Declarations \cup { Code("code"), Mark("A") } }
    \cup { [Items(<< First, y, z, Final >>) EXCEPT !.ignorePrec = TRUE] :
             y \in Declarations, z \in { ListOf("left", << "A" >>), Mark("A"), Mark("C") } }
    \cup { Items(<< First, Final, y >>) : y \in Unfinished }
    \cup { Items(<< Arg("stack_size", "", "number", "2") >>) }

(* Every short condition, and every four directives, with rules between them. *)
Note(k) == Item(Rule("p", << Sym(<< "A", "B", "C", "D" >>[k]) >>))
IfElse(e) ==
    [FileWith(<< Dir("if", e), Note(1), Dir("else", << >>), Note(2), Dir("endif", << >>), Note(3) >>) EXCEPT !.defines = {"X"}]
Directives == { Dir("if", << "X" >>), Dir("ifndef", << "X" >>), Dir("else", << >>), Dir("endif", << >>) }
Conditional ==
    { IfElse(v[1]) : v \in UNION { Conditions(n, {"X", "Y"}, {}) : n \in 1 .. 6 } }
    \cup { IfElse(e) : e \in UNION { [1 .. n -> {"!", "&&", "||", "(", ")", "?", "X", "Y"}] : n \in 0 .. 3 } }
    \cup { [FileWith(<< d[1], Note(1), d[2], Note(2), d[3], Note(3), d[4], Note(4) >>) EXCEPT !.defines = defs] :
             d \in [1 .. 4 -> Directives], defs \in { {}, {"X"} } }
=============================================================================
