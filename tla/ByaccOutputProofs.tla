-------------------------- MODULE ByaccOutputProofs --------------------------
(***************************************************************************)
(* Proofs about the tables byacc writes, for every grammar: they are sound *)
(* (TablesInv) because the parse actions and gotos are those of the        *)
(* automaton (ByaccMkparProofs), and because a lookup in the packed tables *)
(* finds what was packed (ByaccPackProofs); and the lists of rival actions *)
(* that token_actions() overlaps and shares are those of the actions.      *)
(***************************************************************************)
EXTENDS ByaccOutput, ByaccMkparProofs

PP == INSTANCE ByaccPackProofs WITH Packings <- {}

-----------------------------------------------------------------------------
(***************************************************************************)
(* What the vectors hold that are packed: the shifts and the reductions of *)
(* the lists, by the number of the token, and the gotos that are not the   *)
(* default.                                                                *)
(***************************************************************************)
NumbersOK ==
    /\ g.ntokens \in Nat /\ g.nsyms \in Nat /\ g.ntokens > 1 /\ g.ntokens + 1 < g.nsyms
    /\ \A x \in 0 .. g.ntokens - 1 : SymbolValue(x) = g.value[x] /\ g.value[x] \in Nat
    /\ \A x \in Int : x >= g.ntokens => SymbolValue(x) = x - g.ntokens - 1
    /\ g.value[0] = 0
    /\ Numbered

LEMMA NumbersFacts == Built => NumbersOK
<1> SUFFICES ASSUME Built PROVE NumbersOK OBVIOUS
<1>1. g \in Grammars /\ Numbered BY DEF Built, LR0Inv, AutomatonOK
<1>2. GrammarOK(g) BY <1>1, GrammarsAssumption
<1>3. /\ g.ntokens \in Nat /\ g.nsyms \in Nat /\ g.ntokens > 1 /\ g.ntokens + 1 < g.nsyms
      /\ \A x \in 0 .. g.ntokens - 1 : g.value[x] \in Nat
      /\ g.value[0] = 0
  BY <1>2 DEF GrammarOK
<1>4. \A x \in 0 .. g.ntokens - 1 : SymbolValue(x) = g.value[x]
  BY <1>3 DEF SymbolValue, ISTOKEN, start_symbol
<1>5. \A x \in Int : x >= g.ntokens => SymbolValue(x) = x - g.ntokens - 1
  BY <1>3 DEF SymbolValue, ISTOKEN, start_symbol
<1> QED BY <1>1, <1>3, <1>4, <1>5 DEF NumbersOK

(* where token_actions() says that the lists begin *)
ConflictRowsOK == conflictrow \in [DOMAIN states -> [0 .. g.ntokens - 1 -> Nat]]

(* the vector of a row of actions *)
IsRow(w, actions, offset) ==
    /\ PP!VectorOK(w)
    /\ \A k \in 1 .. Len(w.from) : \E x \in 0 .. g.ntokens - 1 :
          actions[x] # 0 /\ w.from[k] = g.value[x] /\ w.to[k] = actions[x] - offset
    /\ \A x \in 0 .. g.ntokens - 1 : actions[x] # 0 =>
          \E k \in 1 .. Len(w.from) : w.from[k] = g.value[x]

LEMMA RowVectorFacts ==
    ASSUME Built, NEW actions, DOMAIN actions = 0 .. g.ntokens - 1, NEW offset,
           \A x \in DOMAIN actions : actions[x] # 0 => actions[x] - offset \in Nat
    PROVE  IsRow(RowVector(actions, offset), actions, offset)
<1> DEFINE S == { x \in DOMAIN actions : actions[x] # 0 }
           xs == InOrder(S, <)
           w == RowVector(actions, offset)
<1>1. NumbersOK BY NumbersFacts
<1>2. IsFiniteSet(S) /\ \A x \in S : x \in Int
  <2>1. 0 \in Int /\ g.ntokens - 1 \in Int BY <1>1 DEF NumbersOK
  <2>2. IsFiniteSet(0 .. g.ntokens - 1) BY <2>1, FS_Interval
  <2>3. S \in SUBSET (0 .. g.ntokens - 1) OBVIOUS
  <2> QED BY <2>1, <2>2, <2>3, FS_Subset
<1>3. Increasing(xs, S)
  <2> HIDE DEF S
  <2> QED BY <1>2, NumbersInOrder
<1>4. /\ w.from = [k \in DOMAIN xs |-> SymbolValue(xs[k])]
      /\ w.to = [k \in DOMAIN xs |-> actions[xs[k]] - offset]
  BY DEF RowVector
<1> HIDE DEF xs, w
<1>5. DOMAIN xs = 1 .. Len(xs) /\ Len(xs) \in Nat /\ \A k \in 1 .. Len(xs) : xs[k] \in S
  BY <1>3 DEF Increasing
<1>6. \A k \in 1 .. Len(xs) :
         /\ xs[k] \in 0 .. g.ntokens - 1 /\ actions[xs[k]] # 0
         /\ SymbolValue(xs[k]) = g.value[xs[k]] /\ g.value[xs[k]] \in Nat
         /\ actions[xs[k]] - offset \in Nat
  BY <1>1, <1>5 DEF NumbersOK
<1>7. /\ w.from \in Seq(Nat) /\ w.to \in Seq(Nat) /\ Len(w.from) = Len(xs) /\ Len(w.to) = Len(xs)
      /\ \A k \in 1 .. Len(xs) : w.from[k] = g.value[xs[k]] /\ w.to[k] = actions[xs[k]] - offset
  <2>1. w.from = [k \in 1 .. Len(xs) |-> SymbolValue(xs[k])] BY <1>4, <1>5
  <2>2. w.to = [k \in 1 .. Len(xs) |-> actions[xs[k]] - offset] BY <1>4, <1>5
  <2>3. w.from \in Seq(Nat) /\ Len(w.from) = Len(xs) BY <1>5, <1>6, <2>1
  <2>4. w.to \in Seq(Nat) /\ Len(w.to) = Len(xs) BY <1>5, <1>6, <2>2
  <2> QED BY <1>6, <2>1, <2>2, <2>3, <2>4
<1>8. PP!VectorOK(w) BY <1>7 DEF PP!VectorOK
<1>9. ASSUME NEW x \in 0 .. g.ntokens - 1, actions[x] # 0
      PROVE  \E k \in 1 .. Len(w.from) : w.from[k] = g.value[x]
  <2>1. x \in S BY <1>9
  <2>2. PICK k \in 1 .. Len(xs) : xs[k] = x BY <1>3, <2>1 DEF Increasing
  <2> QED BY <1>7, <2>2
<1>10. IsRow(w, actions, offset) BY <1>6, <1>7, <1>8, <1>9 DEF IsRow
<1> QED BY <1>10 DEF w

LEMMA ConflictRowFacts ==
    ASSUME Built, ConflictRowsOK, NEW n \in DOMAIN states
    PROVE  IsRow(RowVector(conflictrow[n], 1), conflictrow[n], 1)
<1>1. PICK r : r = conflictrow[n] OBVIOUS
<1>2. r \in [0 .. g.ntokens - 1 -> Nat] BY <1>1 DEF ConflictRowsOK
<1>3. DOMAIN r = 0 .. g.ntokens - 1 /\ \A x \in DOMAIN r : r[x] # 0 => r[x] - 1 \in Nat BY <1>2
<1>4. IsRow(RowVector(r, 1), r, 1) BY <1>3, RowVectorFacts
<1> QED BY <1>1, <1>4

(* What the automaton and the actions are when the tables are written. *)
Generated == Built /\ Origins /\ FinalOK /\ DefredOK /\ GotosListed

LEMMA ActionRowFacts ==
    ASSUME Built, Origins, NEW n \in DOMAIN states, NEW code \in {SHIFT, REDUCE}
    PROVE  /\ DOMAIN ActionRow(n, code) = 0 .. g.ntokens - 1
           /\ \A x \in 0 .. g.ntokens - 1 : ActionRow(n, code)[x] # 0 =>
                 /\ code = SHIFT => /\ Leads(n, ActionRow(n, code)[x])
                                    /\ Accessing(ActionRow(n, code)[x]) = x
                 /\ code = REDUCE => ActionRow(n, code)[x] \in Completed(Itemset(n))
<1>1. DOMAIN ActionRow(n, code) = 0 .. g.ntokens - 1 BY DEF ActionRow
<1>2. ASSUME NEW x \in 0 .. g.ntokens - 1, ActionRow(n, code)[x] # 0
      PROVE  /\ code = SHIFT => Leads(n, ActionRow(n, code)[x]) /\ Accessing(ActionRow(n, code)[x]) = x
             /\ code = REDUCE => ActionRow(n, code)[x] \in Completed(Itemset(n))
  <2> DEFINE ps == { p \in ToSet(parser[n]) :
                        /\ p.symbol = x /\ p.suppressed = 0 /\ p.action_code = code
                        /\ code = REDUCE => p.number # defred[n] }
  <2>1. ActionRow(n, code)[x] = IF ps = {} THEN 0 ELSE (CHOOSE p \in ps : TRUE).number
    BY DEF ActionRow
  <2>2. ps # {} BY <1>2, <2>1
  <2>3. PICK p \in ps : ActionRow(n, code)[x] = p.number BY <2>1, <2>2
  <2>4. p \in ToSet(parser[n]) /\ p.symbol = x /\ p.action_code = code OBVIOUS
  <2>5. PICK k \in 1 .. Len(parser[n]) : p = parser[n][k] BY <2>4 DEF ToSet, Origins, IsList
  <2>6. OriginOK(n, p) BY <2>5 DEF Origins
  <2> QED BY <2>3, <2>4, <2>6 DEF OriginOK
<1> QED BY <1>1, <1>2

(* The column of a variable: its gotos but those to the default state. *)
LEMMA ColumnFacts ==
    ASSUME Built, GotosListed, NEW x
    PROVE  /\ PP!VectorOK(Column(x))
           /\ \A e \in 1 .. Len(Column(x).from) : \E k \in GotosOn(x) :
                 Column(x).from[e] = fromState[k] /\ Column(x).to[e] = toState[k]
           /\ \A k \in GotosOn(x) : toState[k] # DefaultGoto(x) =>
                 \E e \in 1 .. Len(Column(x).from) : Column(x).from[e] = fromState[k]
<1> DEFINE last == Len(InOrder(Gotos, GotoOrder)) - 1
           S == { k \in GotosOn(x) : toState[k] # DefaultGoto(x) }
           ks == InOrder(S, <)
           w == Column(x)
<1>1. last + 1 \in Nat /\ DOMAIN fromState = 0 .. last /\ DOMAIN toState = 0 .. last BY GotoArrays
<1>2. \A k \in 0 .. last : fromState[k] \in Nat /\ toState[k] \in Nat
  <2>1. \A k \in 0 .. last : fromState[k] \in DOMAIN states /\ Leads(fromState[k], toState[k])
    BY <1>1, GotoArrays
  <2>2. \A k \in 0 .. last : toState[k] \in DOMAIN states BY <2>1, Transitions
  <2>3. \A n \in DOMAIN states : n \in Nat BY NumbersFacts DEF NumbersOK, Numbered
  <2> QED BY <2>1, <2>2, <2>3
<1>3. GotosOn(x) \in SUBSET (0 .. last) BY DEF GotosOn
<1>4. IsFiniteSet(S) /\ \A k \in S : k \in Int
  <2>1. 0 \in Int /\ last \in Int BY <1>1
  <2> HIDE DEF last
  <2>2. IsFiniteSet(0 .. last) BY <2>1, FS_Interval
  <2>3. S \in SUBSET (0 .. last) BY <1>3
  <2> QED BY <2>1, <2>2, <2>3, FS_Subset
<1>5. Increasing(ks, S)
  <2> HIDE DEF S
  <2> QED BY <1>4, NumbersInOrder
<1>6. /\ w.from = [e \in DOMAIN ks |-> fromState[ks[e]]]
      /\ w.to = [e \in DOMAIN ks |-> toState[ks[e]]]
  BY DEF Column
<1> HIDE DEF ks, w, last
<1>7. DOMAIN ks = 1 .. Len(ks) /\ Len(ks) \in Nat /\ \A e \in 1 .. Len(ks) : ks[e] \in S
  BY <1>5 DEF Increasing
<1>8. \A e \in 1 .. Len(ks) : /\ ks[e] \in GotosOn(x)
                              /\ fromState[ks[e]] \in Nat /\ toState[ks[e]] \in Nat
  BY <1>2, <1>3, <1>7
<1>9. w.from = [e \in 1 .. Len(ks) |-> fromState[ks[e]]] /\ w.to = [e \in 1 .. Len(ks) |-> toState[ks[e]]]
  BY <1>6, <1>7
<1>10. w.from \in Seq(Nat) /\ Len(w.from) = Len(ks) BY <1>7, <1>8, <1>9
<1>11. w.to \in Seq(Nat) /\ Len(w.to) = Len(ks) BY <1>7, <1>8, <1>9
<1>12. PP!VectorOK(w) BY <1>10, <1>11 DEF PP!VectorOK
<1>13. \A e \in 1 .. Len(w.from) : \E k \in GotosOn(x) : w.from[e] = fromState[k] /\ w.to[e] = toState[k]
  BY <1>8, <1>9, <1>10
<1>14. ASSUME NEW k \in S PROVE \E e \in 1 .. Len(w.from) : w.from[e] = fromState[k]
  <2>1. PICK e \in 1 .. Len(ks) : ks[e] = k BY <1>5 DEF Increasing
  <2> QED BY <1>9, <1>10, <2>1
<1> QED BY <1>12, <1>13, <1>14 DEF w

-----------------------------------------------------------------------------
(***************************************************************************)
(* The lists of rival actions that token_actions() writes with -B.  A list *)
(* that begins at c has its entries behind b: a shift, or a -1 and then a  *)
(* reduction, first.                                                       *)
(***************************************************************************)
Code(a) == IF a.action_code = SHIFT THEN a.number ELSE a.number - 2
RivalsOf(acts, x) == { k \in 1 .. Len(acts) : acts[k].symbol = x /\ acts[k].suppressed = 1 }
RivalsUpto(acts, x, e) == { k \in RivalsOf(acts, x) : k <= e }

BeginsWith(l, c, b, a) ==
    \/ a.action_code = SHIFT /\ b = c - 1
    \/ a.action_code = REDUCE /\ b = c /\ l[c] = -1

Entries(l, c, b, acts, rs) ==
    /\ c \in Nat \ {0} /\ b \in Nat /\ Len(rs) \in Nat \ {0}
    /\ BeginsWith(l, c, b, acts[rs[1]])
    /\ \A q \in 1 .. Len(rs) : l[b + q] = Code(acts[rs[q]])

(* All rivals of token x are listed at c, and the list has ended before e. *)
IsConflictList(l, c, acts, x, e) ==
    \E rs, b :
        /\ Increasing(rs, RivalsOf(acts, x))
        /\ Entries(l, c, b, acts, rs)
        /\ b + Len(rs) + 1 <= e /\ l[b + Len(rs) + 1] = -1

(* The rivals of x among the first e actions are listed behind c, at the end. *)
IsBegun(l, c, acts, x, e) ==
    \E rs, b :
        /\ Increasing(rs, RivalsUpto(acts, x, e))
        /\ Entries(l, c + 1, b, acts, rs)
        /\ b + Len(rs) = Len(l)

(* What is written up to c, and a -1 behind it, stays. *)
ListsOK(l, c) ==
    /\ l \in Seq(Int) /\ Len(l) \in Nat /\ c \in 0 .. Len(l)
    /\ c = 0 \/ l[c] = -1 \/ (c < Len(l) /\ l[c + 1] = -1)
    /\ \A m \in c + 2 .. Len(l) : l[m] # -1
Stable(l, c) == IF c < Len(l) /\ l[c + 1] = -1 THEN c + 1 ELSE c

LEMMA ListKept ==
    ASSUME NEW l, NEW c, NEW acts, NEW x, NEW e \in Int, IsConflictList(l, c, acts, x, e),
           NEW l2, NEW e2 \in Int, e <= e2, \A q \in 1 .. e : l2[q] = l[q]
    PROVE  IsConflictList(l2, c, acts, x, e2)
<1>1. PICK rs, b : /\ Increasing(rs, RivalsOf(acts, x)) /\ Entries(l, c, b, acts, rs)
                   /\ b + Len(rs) + 1 <= e /\ l[b + Len(rs) + 1] = -1
  BY DEF IsConflictList
<1>2. c \in Nat \ {0} /\ b \in Nat /\ Len(rs) \in Nat \ {0} /\ c <= b + 1
  BY <1>1 DEF Entries, BeginsWith
<1>3. b + Len(rs) + 1 \in 1 .. e /\ b + Len(rs) + 1 <= e2 BY <1>1, <1>2
<1>4. \A q \in 1 .. Len(rs) : b + q \in 1 .. e BY <1>1, <1>2
<1>5. c \in 1 .. e BY <1>1, <1>2
<1>6. Entries(l2, c, b, acts, rs) BY <1>1, <1>4, <1>5 DEF Entries, BeginsWith
<1> QED BY <1>1, <1>3, <1>6 DEF IsConflictList

(* The rivals in order, as they are met one by one. *)
LEMMA IncreasingOne ==
    ASSUME NEW k \in Int
    PROVE  Increasing(<< k >>, {k}) /\ Len(<< k >>) = 1 /\ << k >>[1] = k
<1>1. << k >> \in Seq({k}) /\ Len(<< k >>) = 1 /\ << k >>[1] = k OBVIOUS
<1> PICK s : s = << k >> OBVIOUS
<1>2. s \in Seq({k}) /\ Len(s) = 1 /\ s[1] = k BY <1>1
<1>3. \A q \in 1 .. Len(s) : q = 1 BY <1>2
<1>4. 1 \in 1 .. Len(s) BY <1>2
<1>5. \A q, j \in 1 .. Len(s) : (q < j <=> s[q] < s[j]) /\ (s[q] = s[j] => q = j) BY <1>2, <1>3
<1>6. Increasing(s, {k}) BY <1>2, <1>4, <1>5 DEF Increasing
<1> QED BY <1>1, <1>6

LEMMA IncreasingGrows ==
    ASSUME NEW S \in SUBSET Int, NEW s, Increasing(s, S), NEW k \in Int, \A x \in S : x < k
    PROVE  /\ Increasing(Append(s, k), S \cup {k}) /\ Len(Append(s, k)) = Len(s) + 1
           /\ Append(s, k)[Len(s) + 1] = k /\ \A q \in 1 .. Len(s) : Append(s, k)[q] = s[q]
<1> PICK u : u = Append(s, k) OBVIOUS
<1>1. s \in Seq(S) /\ Len(s) \in Nat /\ \A q \in 1 .. Len(s) : s[q] \in S BY DEF Increasing
<1>2. s \in Seq(S \cup {k}) BY <1>1
<1>3. u \in Seq(S \cup {k}) BY <1>2
<1>4. /\ Len(u) = Len(s) + 1 /\ u[Len(s) + 1] = k
      /\ \A q \in 1 .. Len(s) : u[q] = s[q]
  BY <1>1
<1>5. \A x \in S \cup {k} : \E q \in 1 .. Len(u) : u[q] = x
  <2>1. \A x \in S : \E q \in 1 .. Len(s) : s[q] = x BY DEF Increasing
  <2>2. \A x \in S : \E q \in 1 .. Len(u) : u[q] = x BY <1>1, <1>4, <2>1
  <2>3. Len(s) + 1 \in 1 .. Len(u) BY <1>1, <1>4
  <2> QED BY <1>4, <2>2, <2>3
<1>6. \A q \in 1 .. Len(u) : q \in 1 .. Len(s) \/ q = Len(s) + 1 BY <1>1, <1>4
<1>7. \A q \in 1 .. Len(s) : u[q] < k /\ u[q] \in Int /\ q < Len(s) + 1
  <2> SUFFICES ASSUME NEW q \in 1 .. Len(s) PROVE u[q] < k /\ u[q] \in Int /\ q < Len(s) + 1 OBVIOUS
  <2>1. u[q] \in S BY <1>1, <1>4
  <2>2. u[q] < k /\ u[q] \in Int BY <2>1
  <2> QED BY <1>1, <2>2
<1>8. ASSUME NEW q \in 1 .. Len(u), NEW j \in 1 .. Len(u)
      PROVE  (q < j <=> u[q] < u[j]) /\ (u[q] = u[j] => q = j)
  <2>1. CASE q \in 1 .. Len(s) /\ j \in 1 .. Len(s)
    <3>1. u[q] = s[q] /\ u[j] = s[j] BY <1>4, <2>1
    <3> QED BY <2>1, <3>1 DEF Increasing
  <2>2. CASE q = Len(s) + 1 /\ j \in 1 .. Len(s) BY <1>1, <1>4, <1>7, <2>2
  <2>3. CASE q \in 1 .. Len(s) /\ j = Len(s) + 1 BY <1>1, <1>4, <1>7, <2>3
  <2>4. CASE q = Len(s) + 1 /\ j = Len(s) + 1 BY <1>1, <1>4, <2>4
  <2> QED BY <1>6, <2>1, <2>2, <2>3, <2>4
<1>9. Increasing(u, S \cup {k}) BY <1>1, <1>3, <1>4, <1>5, <1>8 DEF Increasing
<1> QED BY <1>4, <1>9

LEMMA ListCut ==
    ASSUME NEW s \in Seq(Int), NEW k \in 0 .. Len(s)
    PROVE  /\ SubSeq(s, 1, k) \in Seq(Int) /\ Len(SubSeq(s, 1, k)) = k
           /\ \A q \in 1 .. k : SubSeq(s, 1, k)[q] = s[q]
<1>1. Len(s) \in Nat OBVIOUS
<1>2. 1 \in 1 .. Len(s) + 1 /\ 1 <= k + 1 /\ k - 1 + 1 = k BY <1>1
<1>3. Len(SubSeq(s, 1, k)) = k - 1 + 1 /\ \A q \in 1 .. k - 1 + 1 : SubSeq(s, 1, k)[q] = s[1 + q - 1]
  BY <1>1, <1>2, PartOf
<1>4. \A q \in 1 .. k : 1 + q - 1 = q OBVIOUS
<1>5. SubSeq(s, 1, k) \in Seq(Int)
  <2>1. \A q \in 1 .. k : q \in 1 .. Len(s) /\ s[q] \in Int BY <1>1
  <2> QED BY <1>1, <2>1
<1> QED BY <1>2, <1>3, <1>4, <1>5

(* token_actions() ends a list with -1, and takes it back if it is found
   before. *)
Ends(l, c, list, found, kept, l2) ==
    /\ list = Append(l, -1)
    /\ found \in 0 .. c /\ \A k \in c + 1 .. Len(list) : list[found + k - c] = list[k]
    /\ kept = IF found = c THEN Len(list) ELSE IF list[c + 1] = -1 THEN c + 1 ELSE c
    /\ l2 = SubSeq(list, 1, kept)

(* The list that was begun at the end of l begins at y in l2. *)
FoundAt(l, c, acts, l2, c2, y) ==
    \A x : IsBegun(l, c, acts, x, Len(acts)) => IsConflictList(l2, y, acts, x, Stable(l2, c2))

(* New lists l2 that begin at c2 keep what is written. *)
KeepsLists(l, c, l2, c2) ==
    /\ ListsOK(l2, c2)
    /\ Stable(l, c) \in Nat /\ Stable(l2, c2) \in Nat /\ Stable(l, c) <= Stable(l2, c2)
    /\ \A q \in 1 .. Stable(l, c) : l2[q] = l[q]

LEMMA ListEnded ==
    ASSUME NEW l, NEW c, ListsOK(l, c), NEW list, NEW found, NEW kept, NEW l2,
           Ends(l, c, list, found, kept, l2)
    PROVE  /\ ListsOK(l2, kept) /\ Len(l2) = kept /\ KeepsLists(l, c, l2, kept)
           /\ \A acts : FoundAt(l, c, acts, l2, kept, found + 1)
<1>0. /\ list = Append(l, -1) /\ found \in 0 .. c
      /\ \A k \in c + 1 .. Len(list) : list[found + k - c] = list[k]
      /\ kept = IF found = c THEN Len(list) ELSE IF list[c + 1] = -1 THEN c + 1 ELSE c
      /\ l2 = SubSeq(list, 1, kept)
  BY DEF Ends
<1> USE <1>0
<1>1. l \in Seq(Int) /\ Len(l) \in Nat /\ c \in 0 .. Len(l) /\ c \in Nat /\ found \in Nat /\ found <= c
  BY DEF ListsOK
<1>2. /\ list \in Seq(Int) /\ Len(list) = Len(l) + 1 /\ list[Len(l) + 1] = -1
      /\ \A q \in 1 .. Len(l) : list[q] = l[q]
  BY <1>1
<1>3. kept \in 0 .. Len(list) /\ kept \in Nat BY <1>1, <1>2
<1>4. l2 \in Seq(Int) /\ Len(l2) = kept /\ \A q \in 1 .. kept : l2[q] = list[q]
  <2> PICK k : k = kept OBVIOUS
  <2>1. k \in 0 .. Len(list) BY <1>3
  <2>2. /\ SubSeq(list, 1, k) \in Seq(Int) /\ Len(SubSeq(list, 1, k)) = k
        /\ \A q \in 1 .. k : SubSeq(list, 1, k)[q] = list[q]
    BY <1>2, <2>1, ListCut
  <2> QED BY <2>2
<1>5. kept = 0 \/ l2[kept] = -1
  <2>1. CASE found = c
    <3>1. kept = Len(l) + 1 /\ kept \in 1 .. kept BY <1>1, <1>2, <2>1
    <3> QED BY <1>2, <1>4, <3>1
  <2>2. CASE found # c /\ list[c + 1] = -1
    <3>1. kept = c + 1 /\ kept \in 1 .. kept BY <1>1, <2>2
    <3> QED BY <1>4, <2>2, <3>1
  <2>3. CASE found # c /\ list[c + 1] # -1
    <3>1. kept = c BY <2>3
    <3>2. c # 0 /\ c \in 1 .. Len(l) /\ c \in 1 .. kept
      <4>1. c # 0 BY <1>1, <2>3
      <4> QED BY <1>1, <3>1, <4>1
    <3>3. l[c] = -1
      <4>1. ~(c < Len(l) /\ l[c + 1] = -1)
        <5>1. c < Len(l) => c + 1 \in 1 .. Len(l) BY <1>1
        <5> QED BY <1>2, <2>3, <5>1
      <4> QED BY <3>2, <4>1 DEF ListsOK
    <3> QED BY <1>2, <1>4, <3>1, <3>2, <3>3
  <2> QED BY <2>1, <2>2, <2>3
<1>6. ListsOK(l2, kept)
  <2>1. \A m \in kept + 2 .. Len(l2) : FALSE
    <3>1. PICK k : k = kept OBVIOUS
    <3>2. k \in Nat /\ Len(l2) = k BY <1>3, <1>4, <3>1
    <3>3. \A m \in k + 2 .. k : FALSE BY <3>2
    <3> QED BY <3>1, <3>2, <3>3
  <2> QED BY <1>3, <1>4, <1>5, <2>1 DEF ListsOK
<1>7. Stable(l2, kept) = kept
  <2>1. PICK k : k = kept OBVIOUS
  <2>2. k \in Nat /\ Len(l2) = k BY <1>3, <1>4, <2>1
  <2>3. ~(k < k)
    <3>1. \A j \in Nat : ~(j < j) OBVIOUS
    <3> QED BY <2>2, <3>1
  <2> QED BY <2>1, <2>2, <2>3 DEF Stable
<1>8. Stable(l, c) \in Nat /\ Stable(l, c) <= kept /\ Stable(l, c) <= Len(l)
  <2>1. CASE c < Len(l) /\ l[c + 1] = -1
    <3>1. c + 1 \in 1 .. Len(l) BY <1>1, <2>1
    <3>2. list[c + 1] = -1 BY <1>2, <2>1, <3>1
    <3> QED BY <1>1, <1>2, <2>1, <3>2 DEF Stable
  <2>2. CASE ~(c < Len(l) /\ l[c + 1] = -1)
    <3>1. Stable(l, c) = c BY <2>2 DEF Stable
    <3>2. c <= kept BY <1>1, <1>2
    <3> QED BY <1>1, <3>1, <3>2
  <2> QED BY <2>1, <2>2
<1>9. ASSUME NEW q \in 1 .. Stable(l, c) PROVE l2[q] = l[q]
  <2>1. q \in 1 .. kept /\ q \in 1 .. Len(l) BY <1>1, <1>3, <1>8
  <2> QED BY <1>2, <1>4, <2>1
<1>10. ASSUME NEW acts, NEW x, IsBegun(l, c, acts, x, Len(acts))
       PROVE  IsConflictList(l2, found + 1, acts, x, kept)
  <2>1. PICK rs, b : /\ Increasing(rs, RivalsUpto(acts, x, Len(acts)))
                     /\ Entries(l, c + 1, b, acts, rs) /\ b + Len(rs) = Len(l)
    BY <1>10 DEF IsBegun
  <2>2. PICK m : m = Len(rs) OBVIOUS
  <2>3. b \in Nat /\ m \in Nat \ {0} /\ b + m = Len(l) /\ (b = c \/ b = c + 1)
    BY <1>1, <2>1, <2>2 DEF Entries, BeginsWith
  <2>4. PICK d : d = c - found OBVIOUS
  <2>5. d \in Nat /\ b - d \in Nat /\ found + 1 = c + 1 - d /\ (d = 0 <=> found = c) BY <1>1, <2>3, <2>4
  <2>6. \A q \in 1 .. m + 1 : b + q \in c + 1 .. Len(list) /\ found + (b + q) - c = b - d + q
    BY <1>1, <1>2, <2>3, <2>4
  <2>7. \A q \in 1 .. m + 1 : list[b - d + q] = list[b + q] BY <2>6
  <2>8. b - d + m + 1 <= kept
    <3>1. CASE found = c BY <1>2, <2>3, <2>5, <3>1
    <3>2. CASE found # c
      <4>1. PICK e : e = b - d + m + 1 OBVIOUS
      <4>2. e \in Nat /\ e <= Len(l) /\ e >= 1 BY <2>3, <2>5, <3>2, <4>1
      <4>3. list[e] = -1
        <5>1. m + 1 \in 1 .. m + 1 /\ b - d + (m + 1) = e /\ b + (m + 1) = Len(l) + 1
          <6>1. m \in Int /\ b \in Int /\ d \in Int /\ b + m = Len(l) /\ m >= 1 BY <2>3, <2>5
          <6>2. e = b - d + m + 1 BY <4>1
          <6> HIDE <1>0
          <6> QED BY <6>1, <6>2
        <5>2. list[b - d + (m + 1)] = list[b + (m + 1)] BY <2>7, <5>1
        <5> QED BY <1>2, <5>1, <5>2
      <4>4. l[e] = -1 BY <1>2, <4>2, <4>3
      <4>5. e <= c + 1
        <5>1. SUFFICES ASSUME e > c + 1 PROVE FALSE BY <1>1, <4>2
        <5>2. e \in c + 2 .. Len(l) BY <1>1, <4>2, <5>1
        <5> QED BY <4>4, <5>2 DEF ListsOK
      <4>6. CASE e = c + 1
        <5>1. kept = c + 1 BY <3>2, <4>3, <4>6
        <5>2. b - d + m + 1 = kept BY <4>1, <4>6, <5>1
        <5>3. \A j \in Nat : j <= j OBVIOUS
        <5> QED BY <1>3, <5>2, <5>3
      <4>7. CASE e # c + 1
        <5>1. kept >= c BY <1>1, <3>2
        <5> QED BY <1>1, <1>3, <4>1, <4>2, <4>5, <4>7, <5>1
      <4> QED BY <4>6, <4>7
    <3> QED BY <3>1, <3>2
  <2>9. \A q \in 1 .. m + 1 : b - d + q \in 1 .. kept
    BY <1>3, <2>3, <2>5, <2>8
  <2>10. \A q \in 1 .. m + 1 : l2[b - d + q] = list[b + q] BY <1>4, <2>7, <2>9
  <2>11. \A q \in 1 .. m : l2[b - d + q] = Code(acts[rs[q]])
    <3> SUFFICES ASSUME NEW q \in 1 .. m PROVE l2[b - d + q] = Code(acts[rs[q]]) OBVIOUS
    <3>1. q \in 1 .. m + 1 /\ b + q \in 1 .. Len(l) BY <2>3
    <3>2. l[b + q] = Code(acts[rs[q]]) BY <2>1, <2>2 DEF Entries
    <3> QED BY <1>2, <2>10, <3>1, <3>2
  <2>12. l2[b - d + m + 1] = -1
    <3>1. m + 1 \in 1 .. m + 1 /\ b - d + (m + 1) = b - d + m + 1 /\ b + (m + 1) = Len(l) + 1
      <4>1. m \in Int /\ b \in Int /\ d \in Int /\ b + m = Len(l) /\ m >= 1 BY <2>3, <2>5
      <4> QED BY <4>1
    <3>2. l2[b - d + (m + 1)] = list[b + (m + 1)] BY <2>10, <3>1
    <3> QED BY <1>2, <3>1, <3>2
  <2>13. BeginsWith(l2, found + 1, b - d, acts[rs[1]])
    <3>1. CASE acts[rs[1]].action_code = SHIFT /\ b = c + 1 - 1
      BY <1>1, <2>4, <3>1 DEF BeginsWith
    <3>2. CASE acts[rs[1]].action_code = REDUCE /\ b = c + 1 /\ l[c + 1] = -1
      <4>1. c + 1 \in c + 1 .. Len(list) /\ c + 1 \in 1 .. Len(l) /\ found + (c + 1) - c = found + 1
        BY <1>1, <1>2, <2>3, <3>2
      <4>2. list[found + 1] = -1
        <5>1. list[found + (c + 1) - c] = list[c + 1] BY <4>1
        <5> QED BY <1>2, <3>2, <4>1, <5>1
      <4>3. found + 1 \in 1 .. kept BY <1>1, <1>3, <2>3, <2>4, <2>8, <3>2
      <4>4. b - d = found + 1 BY <1>1, <2>4, <3>2
      <4> QED BY <1>4, <3>2, <4>2, <4>3, <4>4 DEF BeginsWith
    <3>3. BeginsWith(l, c + 1, b, acts[rs[1]]) BY <2>1 DEF Entries
    <3>4. \/ acts[rs[1]].action_code = SHIFT /\ b = c + 1 - 1
          \/ acts[rs[1]].action_code = REDUCE /\ b = c + 1 /\ l[c + 1] = -1
      BY <1>1, <2>3, <3>3 DEF BeginsWith
    <3> QED BY <3>1, <3>2, <3>4
  <2>14. Entries(l2, found + 1, b - d, acts, rs)
    <3>1. PICK k : k = b - d OBVIOUS
    <3>2. k \in Nat /\ found + 1 \in Nat \ {0}
      <4>1. b \in Int /\ c \in Int /\ d \in Int /\ found \in Nat /\ d = c - found /\ b >= c BY <1>1, <2>3, <2>4, <2>5
      <4> QED BY <3>1, <4>1
    <3>3. Len(rs) \in Nat \ {0} /\ \A q \in 1 .. Len(rs) : l2[k + q] = Code(acts[rs[q]])
      BY <2>2, <2>3, <2>11, <3>1
    <3>4. BeginsWith(l2, found + 1, k, acts[rs[1]]) BY <2>13, <3>1
    <3>5. Entries(l2, found + 1, k, acts, rs) BY <3>2, <3>3, <3>4 DEF Entries
    <3> QED BY <3>1, <3>5
  <2>15. Increasing(rs, RivalsOf(acts, x))
    <3>1. \A k \in RivalsOf(acts, x) : k <= Len(acts) BY DEF RivalsOf
    <3>2. RivalsUpto(acts, x, Len(acts)) = RivalsOf(acts, x) BY <3>1 DEF RivalsUpto
    <3> QED BY <2>1, <3>2
  <2> QED BY <2>2, <2>8, <2>12, <2>14, <2>15 DEF IsConflictList
<1>11. KeepsLists(l, c, l2, kept) BY <1>3, <1>6, <1>7, <1>8, <1>9 DEF KeepsLists
<1>12. \A acts : FoundAt(l, c, acts, l2, kept, found + 1) BY <1>7, <1>10 DEF FoundAt
<1> QED BY <1>4, <1>6, <1>11, <1>12

(* A state that token_actions() has left: every token with rivals has a list.
   And the one it is in: p is its next action, s the token of the list. *)
RowDone(l, c, acts, d, r) ==
    \A x \in DOMAIN r :
        /\ r[x] # 0 <=> RivalsOf(acts, x) # {}
        /\ r[x] # 0 /\ d = 0 => IsConflictList(l, r[x], acts, x, Stable(l, c))

RowBegun(l, c, acts, d, r, p, s) ==
    /\ p \in 1 .. Len(acts) + 1
    /\ \A x \in DOMAIN r : r[x] # 0 =>
          /\ RivalsOf(acts, x) # {}
          /\ \A k \in p .. Len(acts) : acts[k].symbol # x
          /\ d = 0 => IsConflictList(l, r[x], acts, x, Stable(l, c))
    /\ \A k \in 1 .. p - 1 : acts[k].suppressed = 1 => acts[k].symbol = s \/ r[acts[k].symbol] # 0
    /\ s # -1 => /\ \E k \in 1 .. p - 1 : acts[k].suppressed = 1 /\ acts[k].symbol = s
                 /\ d = 0 => IsBegun(l, c, acts, s, p - 1)

(* What the lists need to know of the actions of a state. *)
ListedActions(acts, r) ==
    /\ IsList(acts)
    /\ \A k \in 1 .. Len(acts) : /\ acts[k].symbol \in DOMAIN r /\ Code(acts[k]) \in Nat
                                 /\ acts[k].action_code = REDUCE => acts[k].number # 0

LEMMA RowKept ==
    ASSUME NEW l, NEW c, NEW l2, NEW c2, KeepsLists(l, c, l2, c2)
    PROVE  /\ \A acts, x, y : IsConflictList(l, y, acts, x, Stable(l, c))
                              => IsConflictList(l2, y, acts, x, Stable(l2, c2))
           /\ \A acts, d, r : RowDone(l, c, acts, d, r) => RowDone(l2, c2, acts, d, r)
<1>1. \A acts, x, y : IsConflictList(l, y, acts, x, Stable(l, c))
                      => IsConflictList(l2, y, acts, x, Stable(l2, c2))
  <2> SUFFICES ASSUME NEW acts, NEW x, NEW y, IsConflictList(l, y, acts, x, Stable(l, c))
               PROVE  IsConflictList(l2, y, acts, x, Stable(l2, c2))
    OBVIOUS
  <2>1. PICK e, e2 : e = Stable(l, c) /\ e2 = Stable(l2, c2) OBVIOUS
  <2>2. e \in Int /\ e2 \in Int /\ e <= e2 /\ \A q \in 1 .. e : l2[q] = l[q] BY <2>1 DEF KeepsLists
  <2>3. IsConflictList(l2, y, acts, x, e2) BY <2>1, <2>2, ListKept
  <2> QED BY <2>1, <2>3
<1> QED BY <1>1 DEF RowDone

(* What AddRival makes of the lists. *)
Adds(l, c, a, d, l2, c2) ==
    \/ a.action_code = SHIFT /\ l2 = Append(l, a.number) /\ c2 = c
    \/ a.action_code = REDUCE /\ a.number = d /\ l2 = l /\ c2 = c
    \/ /\ a.action_code = REDUCE /\ a.number # d
       /\ \/ c = Len(l) /\ c = 0 /\ c2 = c /\ l2 = << -1, a.number - 2 >>
          \/ c = Len(l) /\ c # 0 /\ c2 = c - 1 /\ l2 = Append(l, a.number - 2)
          \/ c # Len(l) /\ c2 = c /\ l2 = Append(l, a.number - 2)

LEMMA AddKeepsLists ==
    ASSUME NEW l, NEW c, ListsOK(l, c), NEW a, Code(a) \in Nat, NEW d, NEW l2, NEW c2, Adds(l, c, a, d, l2, c2)
    PROVE  KeepsLists(l, c, l2, c2)
<1>1. l \in Seq(Int) /\ Len(l) \in Nat /\ c \in 0 .. Len(l) /\ c \in Nat BY DEF ListsOK
<1>2. Stable(l, c) \in Nat /\ Stable(l, c) <= Len(l) BY <1>1 DEF Stable
<1>3. CASE l2 = Append(l, Code(a)) /\ c2 = c
  <2>1. /\ l2 \in Seq(Int) /\ Len(l2) = Len(l) + 1 /\ l2[Len(l) + 1] # -1
        /\ \A q \in 1 .. Len(l) : l2[q] = l[q]
    BY <1>1, <1>3
  <2>2. c < Len(l) => l2[c + 1] = l[c + 1]
    <3>1. c < Len(l) => c + 1 \in 1 .. Len(l) BY <1>1
    <3> QED BY <2>1, <3>1
  <2>3. c # 0 => l2[c] = l[c] BY <1>1, <2>1
  <2>4. c = Len(l) => l2[c + 1] # -1 BY <2>1
  <2>5. \A m \in c + 2 .. Len(l2) : l2[m] # -1
    <3> SUFFICES ASSUME NEW m \in c + 2 .. Len(l2) PROVE l2[m] # -1 OBVIOUS
    <3>1. CASE m = Len(l) + 1 BY <2>1, <3>1
    <3>2. CASE m # Len(l) + 1
      <4>1. PICK n : n = Len(l) OBVIOUS
      <4>2. n \in Int /\ c \in Nat /\ m \in c + 2 .. n + 1 /\ m # n + 1 BY <1>1, <2>1, <3>2, <4>1
      <4>3. m \in 1 .. n /\ m \in c + 2 .. n BY <4>2
      <4>4. m \in 1 .. Len(l) /\ m \in c + 2 .. Len(l) BY <4>1, <4>3
      <4> QED BY <2>1, <4>4 DEF ListsOK
    <3> QED BY <3>1, <3>2
  <2>6. c = 0 \/ l2[c] = -1 \/ (c < Len(l2) /\ l2[c + 1] = -1)
    <3>1. c < Len(l) => c < Len(l2) BY <1>1, <2>1
    <3> QED BY <2>2, <2>3, <3>1 DEF ListsOK
  <2>7. ListsOK(l2, c2) BY <1>1, <1>3, <2>1, <2>5, <2>6 DEF ListsOK
  <2>8. Stable(l2, c2) = Stable(l, c)
    <3>1. CASE c = Len(l) BY <1>1, <1>3, <2>4, <3>1 DEF Stable
    <3>2. CASE c # Len(l)
      <4>1. c < Len(l) /\ c < Len(l2) BY <1>1, <2>1, <3>2
      <4> QED BY <1>3, <2>2, <4>1 DEF Stable
    <3> QED BY <3>1, <3>2
  <2>9. \A q \in 1 .. Stable(l, c) : q \in 1 .. Len(l) BY <1>1, <1>2
  <2> QED BY <1>2, <2>1, <2>7, <2>8, <2>9 DEF KeepsLists
<1>4. CASE l2 = l /\ c2 = c BY <1>2, <1>4 DEF KeepsLists
<1>5. CASE c = Len(l) /\ c = 0 /\ c2 = c /\ l2 = << -1, Code(a) >>
  <2>1. l2 \in Seq(Int) /\ Len(l2) = 2 /\ l2[1] = -1 /\ l2[2] # -1 BY <1>5
  <2>2. c2 = 0 /\ c2 + 1 = 1 /\ \A m \in c2 + 2 .. Len(l2) : m = 2 BY <1>5, <2>1
  <2>3. ListsOK(l2, c2) BY <2>1, <2>2 DEF ListsOK
  <2>4. Stable(l2, c2) = 1 BY <2>1, <2>2 DEF Stable
  <2>5. Stable(l, c) = 0 BY <1>5 DEF Stable
  <2> QED BY <2>3, <2>4, <2>5 DEF KeepsLists
<1>6. CASE c = Len(l) /\ c # 0 /\ c2 = c - 1 /\ l2 = Append(l, Code(a))
  <2>1. /\ l2 \in Seq(Int) /\ Len(l2) = c + 1 /\ l2[c + 1] # -1
        /\ \A q \in 1 .. c : l2[q] = l[q]
    BY <1>1, <1>6
  <2>2. c2 \in Nat /\ c2 < Len(l2) /\ c2 + 1 = c /\ c \in 1 .. c BY <1>1, <1>6, <2>1
  <2>3. l2[c2 + 1] = -1
    <3>1. ~(c < Len(l)) BY <1>1, <1>6
    <3> QED BY <1>6, <2>1, <2>2, <3>1 DEF ListsOK
  <2>4. \A m \in c2 + 2 .. Len(l2) : m = c + 1 BY <1>1, <2>1, <2>2
  <2>5. ListsOK(l2, c2)
    <3>1. c2 \in 0 .. Len(l2) /\ Len(l2) \in Nat BY <1>1, <2>1, <2>2
    <3>2. \A m \in c2 + 2 .. Len(l2) : l2[m] # -1 BY <2>1, <2>4
    <3> QED BY <2>1, <2>2, <2>3, <3>1, <3>2 DEF ListsOK
  <2>6. Stable(l2, c2) = c BY <2>2, <2>3 DEF Stable
  <2>7. Stable(l, c) = c BY <1>1, <1>6 DEF Stable
  <2> QED BY <1>1, <2>1, <2>5, <2>6, <2>7 DEF KeepsLists
<1> QED BY <1>3, <1>4, <1>5, <1>6 DEF Adds, Code, SHIFT, REDUCE

(* The first entry of a list, and one that is added. *)
LEMMA FirstEntry ==
    ASSUME NEW l, NEW c, ListsOK(l, c), c = Len(l), NEW acts, NEW p \in Nat, Code(acts[p]) \in Nat,
           NEW d, NEW l2, NEW c2, Adds(l, c, acts[p], d, l2, c2), acts[p].number # d,
           NEW x, RivalsUpto(acts, x, p) = {p}
    PROVE  IsBegun(l2, c2, acts, x, p)
<1>1. l \in Seq(Int) /\ Len(l) \in Nat /\ c \in Nat BY DEF ListsOK
<1>2. PICK rs : rs = << p >> OBVIOUS
<1>3. Increasing(rs, RivalsUpto(acts, x, p)) /\ Len(rs) = 1 /\ rs[1] = p BY <1>2, IncreasingOne
<1>4. \A q \in 1 .. Len(rs) : q = 1 BY <1>3
<1>5. CASE acts[p].action_code = SHIFT /\ l2 = Append(l, Code(acts[p])) /\ c2 = c
  <2>1. Len(l2) = c + 1 /\ l2[c + 1] = Code(acts[p]) BY <1>1, <1>5
  <2>2. Entries(l2, c2 + 1, c, acts, rs)
    BY <1>1, <1>3, <1>4, <1>5, <2>1 DEF Entries, BeginsWith
  <2> QED BY <1>3, <2>1, <2>2 DEF IsBegun
<1>6. CASE acts[p].action_code = REDUCE /\ c = 0 /\ c2 = c /\ l2 = << -1, Code(acts[p]) >>
  <2>1. Len(l2) = 2 /\ l2[1] = -1 /\ l2[2] = Code(acts[p]) BY <1>6
  <2>2. c2 + 1 = 1 BY <1>6
  <2>3. Entries(l2, c2 + 1, 1, acts, rs)
    BY <1>3, <1>4, <1>6, <2>1, <2>2 DEF Entries, BeginsWith
  <2>4. 1 + Len(rs) = Len(l2) BY <1>3, <2>1
  <2> QED BY <1>3, <2>3, <2>4 DEF IsBegun
<1>7. CASE acts[p].action_code = REDUCE /\ c # 0 /\ c2 = c - 1 /\ l2 = Append(l, Code(acts[p]))
  <2>1. Len(l2) = c + 1 /\ l2[c + 1] = Code(acts[p]) /\ \A q \in 1 .. c : l2[q] = l[q] BY <1>1, <1>7
  <2>2. c2 + 1 = c /\ c \in 1 .. c BY <1>1, <1>7
  <2>3. l2[c] = -1 BY <1>1, <1>7, <2>1, <2>2 DEF ListsOK
  <2>4. Entries(l2, c2 + 1, c, acts, rs)
    BY <1>1, <1>3, <1>4, <1>7, <2>1, <2>2, <2>3 DEF Entries, BeginsWith
  <2> QED BY <1>3, <2>1, <2>4 DEF IsBegun
<1> QED BY <1>5, <1>6, <1>7 DEF Adds, Code, SHIFT, REDUCE

LEMMA NextEntry ==
    ASSUME NEW l, NEW c, ListsOK(l, c), NEW acts, NEW p \in Nat, Code(acts[p]) \in Nat,
           NEW x, NEW e \in Nat, IsBegun(l, c, acts, x, e),
           RivalsUpto(acts, x, p) = RivalsUpto(acts, x, e) \cup {p}, e < p,
           NEW d, NEW l2, NEW c2, Adds(l, c, acts[p], d, l2, c2), acts[p].number # d
    PROVE  IsBegun(l2, c2, acts, x, p)
<1>1. l \in Seq(Int) /\ Len(l) \in Nat /\ c \in Nat BY DEF ListsOK
<1>2. PICK rs, b : /\ Increasing(rs, RivalsUpto(acts, x, e))
                   /\ Entries(l, c + 1, b, acts, rs) /\ b + Len(rs) = Len(l)
  BY DEF IsBegun
<1>3. b \in Nat /\ Len(rs) \in Nat \ {0} /\ (b = c \/ b = c + 1) BY <1>1, <1>2 DEF Entries, BeginsWith
<1>4. c # Len(l) /\ c + 1 \in 1 .. Len(l) BY <1>1, <1>2, <1>3
<1>5. l2 = Append(l, Code(acts[p])) /\ c2 = c BY <1>4 DEF Adds, Code, SHIFT, REDUCE
<1>6. Len(l2) = Len(l) + 1 /\ l2[Len(l) + 1] = Code(acts[p]) /\ \A q \in 1 .. Len(l) : l2[q] = l[q]
  BY <1>1, <1>5
<1>7. PICK u : u = Append(rs, p) OBVIOUS
<1>8. RivalsUpto(acts, x, e) \in SUBSET Int /\ \A k \in RivalsUpto(acts, x, e) : k < p
  BY DEF RivalsUpto, RivalsOf
<1>9. /\ Increasing(u, RivalsUpto(acts, x, p)) /\ Len(u) = Len(rs) + 1
      /\ u[Len(rs) + 1] = p /\ \A q \in 1 .. Len(rs) : u[q] = rs[q]
  BY <1>2, <1>7, <1>8, IncreasingGrows
<1>10. ASSUME NEW q \in 1 .. Len(u) PROVE l2[b + q] = Code(acts[u[q]])
  <2>1. CASE q = Len(rs) + 1
    <3>1. b + q = Len(l) + 1 BY <1>2, <1>3, <2>1
    <3> QED BY <1>6, <1>9, <2>1, <3>1
  <2>2. CASE q # Len(rs) + 1
    <3>1. q \in 1 .. Len(rs) /\ b + q \in 1 .. Len(l) BY <1>2, <1>3, <1>9, <2>2
    <3> QED BY <1>2, <1>6, <1>9, <3>1 DEF Entries
  <2> QED BY <2>1, <2>2
<1>11. u[1] = rs[1] /\ Len(u) \in Nat \ {0} /\ 1 \in 1 .. Len(rs) BY <1>3, <1>9
<1>12. Entries(l2, c2 + 1, b, acts, u)
  BY <1>1, <1>2, <1>3, <1>4, <1>5, <1>6, <1>10, <1>11 DEF Entries, BeginsWith
<1>13. b + Len(u) = Len(l2)
  <2>1. PICK m : m = Len(rs) OBVIOUS
  <2>2. b \in Nat /\ m \in Nat /\ b + m = Len(l) /\ Len(u) = m + 1 BY <1>2, <1>3, <1>9, <2>1
  <2>3. b + (m + 1) = (b + m) + 1 BY <2>2
  <2> QED BY <1>6, <2>2, <2>3
<1> QED BY <1>9, <1>12, <1>13 DEF IsBegun

LEMMA RivalAdded ==
    ASSUME NEW l, NEW c, ListsOK(l, c), NEW acts, NEW r, ListedActions(acts, r), NEW d, NEW p, NEW s \in Int,
           RowBegun(l, c, acts, d, r, p, s), s = -1 => c = Len(l), p \in 1 .. Len(acts),
           acts[p].suppressed = 1, s = -1 \/ acts[p].symbol = s,
           NEW l2, NEW c2, Adds(l, c, acts[p], d, l2, c2)
    PROVE  KeepsLists(l, c, l2, c2) /\ RowBegun(l2, c2, acts, d, r, p + 1, acts[p].symbol)
<1>1. KeepsLists(l, c, l2, c2) BY AddKeepsLists DEF ListedActions
<1>2. PICK x : x = acts[p].symbol OBVIOUS
<1>3. /\ Len(acts) \in Nat /\ p \in Nat /\ x \in Nat /\ x # -1
      /\ \A k \in 1 .. Len(acts) : acts[k].symbol \in Nat
  <2>1. Len(acts) \in Nat /\ \A k \in 1 .. Len(acts) : acts[k].symbol \in Nat
    BY DEF ListedActions, IsList, IsAction
  <2>2. p \in Nat /\ x \in Nat BY <1>2, <2>1
  <2>3. x # -1 BY <2>2
  <2> QED BY <2>1, <2>2, <2>3
<1>4. p \in RivalsOf(acts, x) /\ p \in RivalsUpto(acts, x, p) BY <1>2, <1>3 DEF RivalsOf, RivalsUpto
<1>5. RivalsUpto(acts, x, p) = RivalsUpto(acts, x, p - 1) \cup {p}
  BY <1>3, <1>4 DEF RivalsUpto, RivalsOf
<1>6. ASSUME d = 0 PROVE IsBegun(l2, c2, acts, x, p)
  <2>2. Adds(l, c, acts[p], -1, l2, c2) /\ acts[p].number # -1 /\ Code(acts[p]) \in Nat
    <3>1. acts[p].number \in Nat /\ Code(acts[p]) \in Nat BY DEF ListedActions, IsList, IsAction
    <3>2. acts[p].number # -1 BY <3>1
    <3>3. acts[p].action_code = REDUCE => acts[p].number # d BY <1>6 DEF ListedActions
    <3> QED BY <3>1, <3>2, <3>3 DEF Adds
  <2>3. CASE s = -1
    <3>1. RivalsUpto(acts, x, p - 1) = {}
      <4> SUFFICES ASSUME NEW k \in RivalsUpto(acts, x, p - 1) PROVE FALSE OBVIOUS
      <4>1. k \in 1 .. p - 1 /\ acts[k].symbol = x /\ acts[k].suppressed = 1
        BY <1>3 DEF RivalsUpto, RivalsOf
      <4>2. r[x] # 0 BY <1>3, <2>3, <4>1 DEF RowBegun
      <4>3. x \in DOMAIN r BY <1>2 DEF ListedActions
      <4>4. p \in p .. Len(acts) BY <1>3
      <4> QED BY <1>2, <4>2, <4>3, <4>4 DEF RowBegun
    <3>2. RivalsUpto(acts, x, p) = {p} BY <1>5, <3>1
    <3> QED BY <1>3, <2>2, <2>3, <3>2, FirstEntry
  <2>4. CASE s # -1
    <3>1. s = x /\ IsBegun(l, c, acts, x, p - 1) BY <1>2, <1>6, <2>4 DEF RowBegun
    <3>2. p - 1 \in Nat /\ p - 1 < p BY <1>3
    <3> QED BY <1>3, <1>5, <2>2, <3>1, <3>2, NextEntry
  <2> QED BY <2>3, <2>4
<1>7. ASSUME NEW y \in DOMAIN r, r[y] # 0
      PROVE  /\ RivalsOf(acts, y) # {}
             /\ \A k \in p + 1 .. Len(acts) : acts[k].symbol # y
             /\ d = 0 => IsConflictList(l2, r[y], acts, y, Stable(l2, c2))
  <2>1. \A k \in p + 1 .. Len(acts) : k \in p .. Len(acts) BY <1>3
  <2> QED BY <1>1, <1>7, <2>1, RowKept DEF RowBegun
<1>8. ASSUME NEW k \in 1 .. p, acts[k].suppressed = 1
      PROVE  acts[k].symbol = x \/ r[acts[k].symbol] # 0
  <2>1. CASE k = p BY <1>2, <2>1
  <2>2. CASE k # p
    <3>1. k \in 1 .. p - 1 /\ k \in 1 .. Len(acts) BY <1>3, <2>2
    <3>2. acts[k].symbol = s \/ r[acts[k].symbol] # 0 BY <1>8, <3>1 DEF RowBegun
    <3>3. acts[k].symbol # -1
      <4>1. acts[k].symbol \in Nat BY <1>3, <3>1
      <4> QED BY <4>1
    <3> QED BY <1>2, <3>2, <3>3
  <2> QED BY <2>1, <2>2
<1>9. p + 1 \in 1 .. Len(acts) + 1 /\ p + 1 - 1 = p /\ p \in 1 .. p BY <1>3
<1>10. RowBegun(l2, c2, acts, d, r, p + 1, x) BY <1>2, <1>6, <1>7, <1>8, <1>9 DEF RowBegun
<1> QED BY <1>1, <1>2, <1>10

LEMMA RowListEnded ==
    ASSUME NEW l, NEW c, ListsOK(l, c), NEW acts, NEW m, NEW r \in [0 .. m -> Nat], ListedActions(acts, r), NEW d, NEW p, NEW s \in Int,
           RowBegun(l, c, acts, d, r, p, s), s # -1, p <= Len(acts) => acts[p].symbol # s,
           NEW l2, NEW c2, KeepsLists(l, c, l2, c2), NEW y \in Nat \ {0}, FoundAt(l, c, acts, l2, c2, y)
    PROVE  LET r2 == [r EXCEPT ![s] = y]
           IN  r2 \in [0 .. m -> Nat] /\ RowBegun(l2, c2, acts, d, r2, p, -1)
<1> PICK r2 : r2 = [r EXCEPT ![s] = y] OBVIOUS
<1>1. /\ Len(acts) \in Nat /\ p \in Nat /\ p \in 1 .. Len(acts) + 1
      /\ \A k \in 1 .. Len(acts) : acts[k].symbol \in Nat /\ acts[k].symbol \in DOMAIN r
  BY DEF ListedActions, IsList, IsAction, RowBegun
<1>2. PICK k \in 1 .. p - 1 : acts[k].suppressed = 1 /\ acts[k].symbol = s BY DEF RowBegun
<1>3. k \in 1 .. Len(acts) /\ s \in DOMAIN r /\ k \in RivalsOf(acts, s) BY <1>1, <1>2 DEF RivalsOf
<1>4. /\ r2 \in [0 .. m -> Nat] /\ DOMAIN r2 = DOMAIN r /\ r2[s] = y /\ r2[s] # 0
      /\ \A x \in DOMAIN r \ {s} : r2[x] = r[x]
  BY <1>3
<1>5. ASSUME NEW j \in p .. Len(acts) PROVE acts[j].symbol # s
  <2>1. j \in 1 .. Len(acts) /\ p \in 1 .. Len(acts) /\ k <= p /\ p <= j /\ p <= Len(acts) BY <1>1, <1>2
  <2>2. acts[k].symbol <= acts[p].symbol /\ acts[p].symbol <= acts[j].symbol
    BY <1>3, <2>1, BySymbol DEF ListedActions
  <2>3. acts[p].symbol # s /\ acts[p].symbol \in Nat /\ acts[j].symbol \in Nat BY <1>1, <2>1
  <2> QED BY <1>2, <2>2, <2>3
<1>6. ASSUME d = 0 PROVE IsConflictList(l2, r2[s], acts, s, Stable(l2, c2))
  <2>1. IsBegun(l, c, acts, s, p - 1) BY <1>6 DEF RowBegun
  <2>2. RivalsUpto(acts, s, p - 1) = RivalsUpto(acts, s, Len(acts))
    <3>1. \A j \in RivalsOf(acts, s) : j \in 1 .. Len(acts) /\ j \notin p .. Len(acts) BY <1>5 DEF RivalsOf
    <3>2. \A j \in RivalsOf(acts, s) : j <= p - 1 /\ j <= Len(acts) BY <1>1, <3>1
    <3> QED BY <3>2 DEF RivalsUpto
  <2>3. IsBegun(l, c, acts, s, Len(acts)) BY <2>1, <2>2 DEF IsBegun
  <2> QED BY <1>4, <2>3 DEF FoundAt
<1>7. ASSUME NEW x \in DOMAIN r2, r2[x] # 0
      PROVE  /\ RivalsOf(acts, x) # {}
             /\ \A j \in p .. Len(acts) : acts[j].symbol # x
             /\ d = 0 => IsConflictList(l2, r2[x], acts, x, Stable(l2, c2))
  <2>1. CASE x = s BY <1>3, <1>5, <1>6, <2>1
  <2>2. CASE x # s
    <3>1. x \in DOMAIN r /\ r2[x] = r[x] BY <1>4, <2>2
    <3> QED BY <1>7, <3>1, RowKept DEF RowBegun
  <2> QED BY <2>1, <2>2
<1>8. ASSUME NEW j \in 1 .. p - 1, acts[j].suppressed = 1 PROVE r2[acts[j].symbol] # 0
  <2>1. acts[j].symbol = s \/ r[acts[j].symbol] # 0 BY <1>8 DEF RowBegun
  <2>2. acts[j].symbol \in DOMAIN r BY <1>1
  <2> QED BY <1>4, <2>1, <2>2
<1> QED BY <1>1, <1>4, <1>7, <1>8 DEF RowBegun

LEMMA ActionPassed ==
    ASSUME NEW l, NEW c, NEW acts, NEW r, ListedActions(acts, r), NEW d, NEW p, NEW s,
           RowBegun(l, c, acts, d, r, p, s), p \in 1 .. Len(acts), acts[p].suppressed # 1
    PROVE  RowBegun(l, c, acts, d, r, p + 1, s)
<1>1. Len(acts) \in Nat /\ p \in Nat /\ p + 1 - 1 = p /\ p + 1 \in 1 .. Len(acts) + 1
  BY DEF ListedActions, IsList
<1>2. \A k \in p + 1 .. Len(acts) : k \in p .. Len(acts) BY <1>1
<1>3. \A k \in 1 .. p : k = p \/ k \in 1 .. p - 1 BY <1>1
<1>4. \A x : RivalsUpto(acts, x, p) = RivalsUpto(acts, x, p - 1)
  <2> SUFFICES ASSUME NEW x PROVE RivalsUpto(acts, x, p) = RivalsUpto(acts, x, p - 1) OBVIOUS
  <2>1. \A k \in RivalsOf(acts, x) : k \in Nat /\ k # p BY <1>1 DEF RivalsOf
  <2>2. \A k \in RivalsOf(acts, x) : k <= p <=> k <= p - 1 BY <1>1, <2>1
  <2> QED BY <2>2 DEF RivalsUpto
<1>5. \A k \in 1 .. p - 1 : k \in 1 .. p BY <1>1
<1>6. IsBegun(l, c, acts, s, p - 1) => IsBegun(l, c, acts, s, p) BY <1>4 DEF IsBegun
<1> QED BY <1>1, <1>2, <1>3, <1>5, <1>6 DEF RowBegun

LEMMA RowFinished ==
    ASSUME NEW l, NEW c, NEW acts, NEW r, ListedActions(acts, r), NEW d, NEW p,
           RowBegun(l, c, acts, d, r, p, -1), p > Len(acts)
    PROVE  RowDone(l, c, acts, d, r)
<1>1. Len(acts) \in Nat /\ p = Len(acts) + 1 /\ p - 1 = Len(acts)
  BY DEF ListedActions, IsList, RowBegun
<1>2. ASSUME NEW x \in DOMAIN r, RivalsOf(acts, x) # {} PROVE r[x] # 0
  <2>1. PICK k \in 1 .. Len(acts) : acts[k].symbol = x /\ acts[k].suppressed = 1 BY <1>2 DEF RivalsOf
  <2>2. acts[k].symbol \in Nat BY DEF ListedActions, IsList, IsAction
  <2>3. acts[k].symbol # -1 BY <2>2
  <2> QED BY <1>1, <2>1, <2>3 DEF RowBegun
<1> QED BY <1>2 DEF RowBegun, RowDone

(***************************************************************************)
(* The lists while token_actions() runs, state by state: those of the      *)
(* states before actrow are complete, and none of those after it begins.   *)
(***************************************************************************)
NoLists == conflicts = << >> /\ actrow = 0 /\ actpos = 1 /\ csym = -1 /\ cbase = 0

RowsInv(l, c, rows, m, p, s) ==
    \A n \in DOMAIN states :
        /\ n < m => RowDone(l, c, parser[n], defred[n], rows[n])
        /\ n = m => RowBegun(l, c, parser[n], defred[n], rows[n], p, s)
        /\ n > m => \A x \in 0 .. g.ntokens - 1 : rows[n][x] = 0

ListInv ==
    /\ ListsOK(conflicts, cbase)
    /\ csym \in Int /\ (csym = -1 => cbase = Len(conflicts))
    /\ ConflictRowsOK
    /\ actrow \in 0 .. nstates /\ (actrow = nstates => csym = -1)
    /\ RowsInv(conflicts, cbase, conflictrow, actrow, actpos, csym)

LEMMA ActionsListed ==
    ASSUME Generated, NEW n \in DOMAIN states, NEW r \in [0 .. g.ntokens - 1 -> Nat]
    PROVE  ListedActions(parser[n], r)
<1>1. PICK acts : acts = parser[n] OBVIOUS
<1>2. IsList(acts) /\ \A k \in 1 .. Len(acts) : OriginOK(n, acts[k]) BY <1>1 DEF Generated, Origins
<1>3. NumbersOK /\ g \in Grammars /\ FirstDerivesOK /\ StatesOK
  BY NumbersFacts DEF Generated, Built, LR0Inv, AutomatonOK
<1>4. Completed(Itemset(n)) \in SUBSET DOMAIN g.rules BY <1>3, ItemsetFacts, OrderOfReductions
<1>5. \A q \in DOMAIN g.rules : q \in Nat /\ q - 2 \in Nat BY <1>3, RuleFacts
<1>6. DOMAIN r = 0 .. g.ntokens - 1 /\ g.ntokens \in Nat BY <1>3 DEF NumbersOK
<1>7. ASSUME NEW k \in 1 .. Len(acts)
      PROVE  /\ acts[k].symbol \in DOMAIN r /\ Code(acts[k]) \in Nat
             /\ acts[k].action_code = REDUCE => acts[k].number # 0
  <2>1. PICK a : a = acts[k] OBVIOUS
  <2>2. a.symbol \in Nat /\ a.number \in Nat /\ a.action_code \in {SHIFT, REDUCE}
    BY <1>2, <2>1 DEF IsList, IsAction
  <2>3. a.symbol < g.ntokens /\ (a.action_code = REDUCE => a.number \in Completed(Itemset(n)))
    BY <1>2, <2>1 DEF OriginOK
  <2>4. a.action_code = REDUCE => a.number - 2 \in Nat /\ a.number # 0
    <3>1. a.number - 2 \in Nat => a.number # 0 BY <2>2
    <3> QED BY <1>4, <1>5, <2>3, <3>1
  <2>5. Code(a) \in Nat BY <2>2, <2>4 DEF Code, SHIFT, REDUCE
  <2>6. a.symbol \in DOMAIN r BY <1>6, <2>2, <2>3
  <2> QED BY <2>1, <2>4, <2>5, <2>6
<1> QED BY <1>1, <1>2, <1>7 DEF ListedActions

(* The state token_actions() is in. *)
LEMMA RowInHand ==
    ASSUME Generated, ListInv, Listing
    PROVE  /\ actrow \in DOMAIN states /\ actrow \in Nat /\ actrow < nstates
           /\ conflictrow[actrow] \in [0 .. g.ntokens - 1 -> Nat]
           /\ ListedActions(parser[actrow], conflictrow[actrow])
           /\ RowBegun(conflicts, cbase, parser[actrow], defred[actrow], conflictrow[actrow], actpos, csym)
<1>1. NumbersOK BY NumbersFacts DEF Generated
<1>2. nstates \in Nat /\ DOMAIN states = 0 .. nstates - 1 BY <1>1 DEF NumbersOK, Numbered
<1>3. actrow \in 0 .. nstates /\ actrow < nstates BY DEF ListInv, Listing
<1>4. actrow \in 0 .. nstates - 1 /\ actrow \in Nat BY <1>2, <1>3
<1>5. actrow \in DOMAIN states BY <1>2, <1>4
<1>6. conflictrow[actrow] \in [0 .. g.ntokens - 1 -> Nat] BY <1>5 DEF ListInv, ConflictRowsOK
<1>7. ListedActions(parser[actrow], conflictrow[actrow]) BY <1>5, <1>6, ActionsListed
<1> QED BY <1>3, <1>4, <1>5, <1>6, <1>7 DEF ListInv, RowsInv

LEMMA OtherRows ==
    ASSUME Generated, ListInv, Listing, NEW l2, NEW c2, KeepsLists(conflicts, cbase, l2, c2),
           NEW rows, \A n \in DOMAIN states : n # actrow => rows[n] = conflictrow[n],
           NEW p2, NEW s2, RowBegun(l2, c2, parser[actrow], defred[actrow], rows[actrow], p2, s2)
    PROVE  RowsInv(l2, c2, rows, actrow, p2, s2)
<1>1. \A n \in DOMAIN states : n \in Nat BY NumbersFacts DEF Generated, NumbersOK, Numbered
<1>2. actrow \in Nat BY RowInHand
<1> SUFFICES ASSUME NEW n \in DOMAIN states
             PROVE  /\ n < actrow => RowDone(l2, c2, parser[n], defred[n], rows[n])
                    /\ n = actrow => RowBegun(l2, c2, parser[n], defred[n], rows[n], p2, s2)
                    /\ n > actrow => \A x \in 0 .. g.ntokens - 1 : rows[n][x] = 0
  BY DEF RowsInv
<1>3. /\ n < actrow => RowDone(conflicts, cbase, parser[n], defred[n], conflictrow[n])
      /\ n > actrow => \A x \in 0 .. g.ntokens - 1 : conflictrow[n][x] = 0
  BY DEF ListInv, RowsInv
<1>4. n < actrow \/ n > actrow => rows[n] = conflictrow[n]
  <2>1. n < actrow \/ n > actrow => n # actrow BY <1>1, <1>2
  <2> QED BY <2>1
<1>5. n < actrow => RowDone(l2, c2, parser[n], defred[n], rows[n]) BY <1>3, <1>4, RowKept
<1> QED BY <1>3, <1>4, <1>5

(* What token_actions() does not change. *)
ActionsKept == UNCHANGED << g, states, parser, defred >>

LEMMA ListedRowsStay ==
    ASSUME ActionsKept, NEW l, NEW c, NEW rows, NEW m, NEW p, NEW s, RowsInv(l, c, rows, m, p, s)
    PROVE  RowsInv(l, c, rows, m, p, s)'
<1>1. ASSUME NEW n \in DOMAIN states
      PROVE  /\ n < m => RowDone(l, c, parser'[n], defred'[n], rows[n])
             /\ n = m => RowBegun(l, c, parser'[n], defred'[n], rows[n], p, s)
             /\ n > m => \A x \in 0 .. (g.ntokens)' - 1 : rows[n][x] = 0
  <2>1. parser'[n] = parser[n] /\ defred'[n] = defred[n] /\ (g.ntokens)' = g.ntokens BY DEF ActionsKept
  <2>2. /\ n < m => RowDone(l, c, parser[n], defred[n], rows[n])
        /\ n = m => RowBegun(l, c, parser[n], defred[n], rows[n], p, s)
        /\ n > m => \A x \in 0 .. g.ntokens - 1 : rows[n][x] = 0
    BY DEF RowsInv
  <2> QED BY <2>1, <2>2
<1> QED BY <1>1 DEF RowsInv, ActionsKept

LEMMA ListsStart ==
    ASSUME Generated, NoLists, StartActions
    PROVE  ListInv'
<1>1. NumbersOK BY NumbersFacts DEF Generated
<1>2. nstates \in Nat /\ nstates >= 1 /\ \A n \in DOMAIN states : n \in Nat BY <1>1 DEF NumbersOK, Numbered
<1>3. PICK rows : rows = [n \in DOMAIN states |-> [x \in 0 .. g.ntokens - 1 |-> 0]] OBVIOUS
<1>4. /\ conflictrow' = rows /\ ActionsKept /\ nstates' = nstates
      /\ conflicts' = << >> /\ actrow' = 0 /\ actpos' = 1 /\ csym' = -1 /\ cbase' = 0
  BY <1>3 DEF StartActions, NoLists, ActionsKept, mkparVars, nstates
<1>5. ListsOK(<< >>, 0) /\ Len(<< >>) = 0
  <2>1. << >> \in Seq(Int) /\ Len(<< >>) = 0 OBVIOUS
  <2>2. \A m \in 0 + 2 .. 0 : FALSE OBVIOUS
  <2> QED BY <2>1, <2>2 DEF ListsOK
<1>6. RowsInv(<< >>, 0, rows, 0, 1, -1)
  <2> SUFFICES ASSUME NEW n \in DOMAIN states
               PROVE  /\ n < 0 => RowDone(<< >>, 0, parser[n], defred[n], rows[n])
                      /\ n = 0 => RowBegun(<< >>, 0, parser[n], defred[n], rows[n], 1, -1)
                      /\ n > 0 => \A x \in 0 .. g.ntokens - 1 : rows[n][x] = 0
    BY DEF RowsInv
  <2>1. DOMAIN rows[n] = 0 .. g.ntokens - 1 /\ \A x \in DOMAIN rows[n] : rows[n][x] = 0 BY <1>3
  <2>2. ~(n < 0) BY <1>2
  <2>3. Len(parser[n]) \in Nat BY DEF Generated, Origins, IsList
  <2>4. 1 \in 1 .. Len(parser[n]) + 1 /\ 1 .. 1 - 1 = {} BY <2>3
  <2>5. RowBegun(<< >>, 0, parser[n], defred[n], rows[n], 1, -1) BY <2>1, <2>4 DEF RowBegun
  <2> QED BY <2>1, <2>2, <2>5
<1>7. RowsInv(<< >>, 0, rows, 0, 1, -1)' BY <1>4, <1>6, ListedRowsStay
<1>8. ConflictRowsOK'
  <2>1. rows \in [DOMAIN states -> [0 .. g.ntokens - 1 -> Nat]] BY <1>3
  <2> QED BY <1>4, <2>1 DEF ConflictRowsOK, ActionsKept
<1>9. RowsInv(conflicts, cbase, conflictrow, actrow, actpos, csym)' BY <1>4, <1>7
<1>10. actrow' \in 0 .. nstates' /\ actrow' # nstates' BY <1>2, <1>4
<1> QED BY <1>4, <1>5, <1>8, <1>9, <1>10 DEF ListInv

LEMMA ListsAdd ==
    ASSUME Generated, ListInv, AddRival
    PROVE  ListInv'
<1>1. PICK acts, r, d : acts = parser[actrow] /\ r = conflictrow[actrow] /\ d = defred[actrow] OBVIOUS
<1>2. PICK l, c : l = conflicts /\ c = cbase OBVIOUS
<1>3. PICK p, s : p = actpos /\ s = csym OBVIOUS
<1>4. PICK l2, c2 : l2 = conflicts' /\ c2 = cbase' OBVIOUS
<1>5. Listing /\ ~RowEnds /\ ~ListEnds /\ IsRival BY DEF AddRival
<1>6. ListedActions(acts, r) /\ RowBegun(l, c, acts, d, r, p, s) /\ actrow \in DOMAIN states
  BY <1>1, <1>2, <1>3, <1>5, RowInHand
<1>7. ListsOK(l, c) /\ s \in Int /\ (s = -1 => c = Len(l)) BY <1>2, <1>3 DEF ListInv
<1>8. p \in 1 .. Len(acts)
  <2>1. p \in 1 .. Len(acts) + 1 /\ Len(acts) \in Nat BY <1>6 DEF RowBegun, ListedActions, IsList
  <2>2. ~(p > Len(acts)) BY <1>1, <1>3, <1>5 DEF RowEnds
  <2> QED BY <2>1, <2>2
<1>9. acts[p].suppressed = 1 /\ (s = -1 \/ acts[p].symbol = s)
  BY <1>1, <1>3, <1>5 DEF IsRival, ListEnds, Act
<1>10. Adds(l, c, acts[p], d, l2, c2)
  <2>1. \/ Act.action_code = SHIFT /\ conflicts' = Append(conflicts, Act.number) /\ UNCHANGED cbase
        \/ Act.action_code = REDUCE /\ Act.number = defred[actrow] /\ UNCHANGED << conflicts, cbase >>
        \/ Act.action_code = REDUCE /\ Act.number # defred[actrow] /\ MarkReductions
    BY DEF AddRival
  <2>2. Act = acts[p] BY <1>1, <1>3 DEF Act
  <2>3. MarkReductions => \/ c = Len(l) /\ c = 0 /\ c2 = c /\ l2 = << -1, acts[p].number - 2 >>
                          \/ c = Len(l) /\ c # 0 /\ c2 = c - 1 /\ l2 = Append(l, acts[p].number - 2)
                          \/ c # Len(l) /\ c2 = c /\ l2 = Append(l, acts[p].number - 2)
    BY <1>2, <1>4, <2>2 DEF MarkReductions, RULE_NUM_OFFSET
  <2> QED BY <1>1, <1>2, <1>4, <2>1, <2>2, <2>3 DEF Adds
<1>11. KeepsLists(l, c, l2, c2) /\ RowBegun(l2, c2, acts, d, r, p + 1, acts[p].symbol)
  BY <1>6, <1>7, <1>8, <1>9, <1>10, RivalAdded
<1>12. PICK x : x = acts[p].symbol OBVIOUS
<1>13. PICK m : m = actrow OBVIOUS
<1>14. PICK rows : rows = conflictrow OBVIOUS
<1>15. RowsInv(l2, c2, rows, m, p + 1, x)
  <2>1. RowBegun(l2, c2, parser[actrow], defred[actrow], rows[actrow], p + 1, x) BY <1>1, <1>11, <1>12, <1>14
  <2>2. KeepsLists(conflicts, cbase, l2, c2) BY <1>2, <1>11
  <2>3. \A n \in DOMAIN states : n # actrow => rows[n] = conflictrow[n] BY <1>14
  <2>4. RowsInv(l2, c2, rows, actrow, p + 1, x) BY <1>5, <2>1, <2>2, <2>3, OtherRows
  <2> QED BY <1>13, <2>4
<1>16. /\ ActionsKept /\ nstates' = nstates /\ conflictrow' = rows /\ actrow' = m /\ actpos' = p + 1 /\ csym' = x
  BY <1>1, <1>3, <1>12, <1>13, <1>14 DEF AddRival, ActionsKept, vars, lr0Vars, mkparVars, nstates, Act
<1>17. RowsInv(l2, c2, rows, m, p + 1, x)'
  <2>1. PICK p2 : p2 = p + 1 OBVIOUS
  <2>2. RowsInv(l2, c2, rows, m, p2, x) BY <1>15, <2>1
  <2>3. RowsInv(l2, c2, rows, m, p2, x)' BY <1>16, <2>2, ListedRowsStay
  <2> QED BY <2>1, <2>3
<1>18. RowsInv(conflicts, cbase, conflictrow, actrow, actpos, csym)' BY <1>4, <1>16, <1>17
<1>19. ConflictRowsOK' BY <1>14, <1>16 DEF ListInv, ConflictRowsOK, ActionsKept
<1>20. x \in Nat /\ x \in Int /\ x # -1
  <2>1. x \in Nat BY <1>6, <1>8, <1>12 DEF ListedActions, IsList, IsAction
  <2> QED BY <2>1
<1>21. actrow' \in 0 .. nstates' /\ actrow' # nstates'
  <2>1. actrow \in Nat /\ actrow < nstates /\ actrow \in 0 .. nstates BY <1>5, RowInHand DEF ListInv
  <2>2. actrow # nstates BY <2>1
  <2> QED BY <1>13, <1>16, <2>1, <2>2
<1>22. ListsOK(conflicts, cbase)' BY <1>4, <1>11 DEF KeepsLists
<1> QED BY <1>16, <1>18, <1>19, <1>20, <1>21, <1>22 DEF ListInv

LEMMA ListsPass ==
    ASSUME Generated, ListInv, PassAction
    PROVE  ListInv'
<1>1. PICK acts, r, d : acts = parser[actrow] /\ r = conflictrow[actrow] /\ d = defred[actrow] OBVIOUS
<1>2. PICK l, c : l = conflicts /\ c = cbase OBVIOUS
<1>3. PICK p, s : p = actpos /\ s = csym OBVIOUS
<1>4. PICK m, rows : m = actrow /\ rows = conflictrow OBVIOUS
<1>5. Listing /\ ~RowEnds /\ ~IsRival BY DEF PassAction
<1>6. ListedActions(acts, r) /\ RowBegun(l, c, acts, d, r, p, s) BY <1>1, <1>2, <1>3, <1>5, RowInHand
<1>7. p \in 1 .. Len(acts)
  <2>1. p \in 1 .. Len(acts) + 1 /\ Len(acts) \in Nat BY <1>6 DEF RowBegun, ListedActions, IsList
  <2>2. ~(p > Len(acts)) BY <1>1, <1>3, <1>5 DEF RowEnds
  <2> QED BY <2>1, <2>2
<1>8. acts[p].suppressed # 1 BY <1>1, <1>3, <1>5 DEF IsRival, Act
<1>9. PICK p2 : p2 = p + 1 OBVIOUS
<1>10. RowBegun(l, c, acts, d, r, p2, s) BY <1>6, <1>7, <1>8, <1>9, ActionPassed
<1>11. RowsInv(l, c, rows, m, p2, s)
  <2>1. RowsInv(l, c, rows, m, p, s) BY <1>2, <1>3, <1>4 DEF ListInv
  <2> QED BY <1>1, <1>4, <1>10, <2>1 DEF RowsInv
<1>12. /\ ActionsKept /\ nstates' = nstates /\ conflictrow' = rows /\ actrow' = m /\ actpos' = p2 /\ csym' = s
       /\ conflicts' = l /\ cbase' = c
  BY <1>2, <1>3, <1>4, <1>9 DEF PassAction, ActionsKept, vars, lr0Vars, mkparVars, nstates
<1>13. RowsInv(l, c, rows, m, p2, s)' BY <1>11, <1>12, ListedRowsStay
<1>14. RowsInv(conflicts, cbase, conflictrow, actrow, actpos, csym)' BY <1>12, <1>13
<1>15. ConflictRowsOK' BY <1>4, <1>12 DEF ListInv, ConflictRowsOK, ActionsKept
<1> QED BY <1>2, <1>3, <1>4, <1>12, <1>14, <1>15 DEF ListInv

LEMMA ListsNext ==
    ASSUME Generated, ListInv, NextState
    PROVE  ListInv'
<1>1. NumbersOK BY NumbersFacts DEF Generated
<1>2. nstates \in Nat /\ DOMAIN states = 0 .. nstates - 1 /\ \A n \in DOMAIN states : n \in Nat
  BY <1>1 DEF NumbersOK, Numbered
<1>3. PICK l, c : l = conflicts /\ c = cbase OBVIOUS
<1>4. PICK p, m, rows : p = actpos /\ m = actrow /\ rows = conflictrow OBVIOUS
<1>5. Listing /\ RowEnds /\ ~ListEnds BY DEF NextState
<1>6. csym = -1 BY <1>5 DEF ListEnds
<1>7. m \in DOMAIN states /\ m \in Nat /\ m < nstates /\ ListedActions(parser[m], rows[m])
      /\ RowBegun(l, c, parser[m], defred[m], rows[m], p, -1)
  BY <1>3, <1>4, <1>5, <1>6, RowInHand
<1>8. RowDone(l, c, parser[m], defred[m], rows[m])
  <2>1. p > Len(parser[m]) BY <1>4, <1>5 DEF RowEnds
  <2>2. PICK acts, r, d : acts = parser[m] /\ r = rows[m] /\ d = defred[m] OBVIOUS
  <2>3. RowDone(l, c, acts, d, r) BY <1>7, <2>1, <2>2, RowFinished
  <2> QED BY <2>2, <2>3
<1>9. PICK m2 : m2 = m + 1 OBVIOUS
<1>10. RowsInv(l, c, rows, m2, 1, -1)
  <2>1. RowsInv(l, c, rows, m, p, -1) BY <1>3, <1>4, <1>6 DEF ListInv
  <2> SUFFICES ASSUME NEW n \in DOMAIN states
               PROVE  /\ n < m2 => RowDone(l, c, parser[n], defred[n], rows[n])
                      /\ n = m2 => RowBegun(l, c, parser[n], defred[n], rows[n], 1, -1)
                      /\ n > m2 => \A x \in 0 .. g.ntokens - 1 : rows[n][x] = 0
    BY DEF RowsInv
  <2>2. n \in Nat BY <1>2
  <2>3. /\ n < m2 => n < m \/ n = m
        /\ n = m2 \/ n > m2 => n > m
    BY <1>7, <1>9, <2>2
  <2>4. n > m => \A x \in 0 .. g.ntokens - 1 : rows[n][x] = 0 BY <2>1 DEF RowsInv
  <2>5. n = m2 => RowBegun(l, c, parser[n], defred[n], rows[n], 1, -1)
    <3> SUFFICES ASSUME n = m2 PROVE RowBegun(l, c, parser[n], defred[n], rows[n], 1, -1) OBVIOUS
    <3>1. rows[n] \in [0 .. g.ntokens - 1 -> Nat] BY <1>4 DEF ListInv, ConflictRowsOK
    <3>2. \A x \in DOMAIN rows[n] : rows[n][x] = 0 BY <2>3, <2>4, <3>1
    <3>3. Len(parser[n]) \in Nat BY DEF Generated, Origins, IsList
    <3>4. 1 \in 1 .. Len(parser[n]) + 1 /\ 1 .. 1 - 1 = {} BY <3>3
    <3> QED BY <3>2, <3>4 DEF RowBegun
  <2>6. n < m2 => RowDone(l, c, parser[n], defred[n], rows[n]) BY <1>8, <2>1, <2>3 DEF RowsInv
  <2> QED BY <2>3, <2>4, <2>5, <2>6
<1>11. /\ ActionsKept /\ nstates' = nstates /\ conflictrow' = rows /\ actrow' = m2 /\ actpos' = 1 /\ csym' = -1
       /\ conflicts' = l /\ cbase' = c
  BY <1>3, <1>4, <1>6, <1>9 DEF NextState, ActionsKept, vars, lr0Vars, mkparVars, nstates
<1>12. RowsInv(l, c, rows, m2, 1, -1)' BY <1>10, <1>11, ListedRowsStay
<1>13. RowsInv(conflicts, cbase, conflictrow, actrow, actpos, csym)' BY <1>11, <1>12
<1>14. ConflictRowsOK' BY <1>4, <1>11 DEF ListInv, ConflictRowsOK, ActionsKept
<1>15. actrow' \in 0 .. nstates' BY <1>2, <1>7, <1>9, <1>11
<1>16. ListsOK(l, c) /\ c = Len(l) BY <1>3, <1>6 DEF ListInv
<1> QED BY <1>11, <1>13, <1>14, <1>15, <1>16 DEF ListInv

LEMMA ListsEnd ==
    ASSUME Generated, ListInv, EndList
    PROVE  ListInv'
<1>1. PICK acts, r, d : acts = parser[actrow] /\ r = conflictrow[actrow] /\ d = defred[actrow] OBVIOUS
<1>2. PICK l, c : l = conflicts /\ c = cbase OBVIOUS
<1>3. PICK p, s : p = actpos /\ s = csym OBVIOUS
<1>4. PICK list : list = Append(l, -1) OBVIOUS
<1>5. PICK found : found = ConflictBase(list) OBVIOUS
<1>6. PICK kept : kept = IF found = c THEN Len(list) ELSE IF list[c + 1] = -1 THEN c + 1 ELSE c OBVIOUS
<1>7. PICK l2 : l2 = SubSeq(list, 1, kept) OBVIOUS
<1>8. PICK r2 : r2 = [r EXCEPT ![s] = found + 1] OBVIOUS
<1>9. PICK rows : rows = conflictrow' OBVIOUS
<1>10. Listing /\ ListEnds BY DEF EndList
<1>11. /\ ListedActions(acts, r) /\ RowBegun(l, c, acts, d, r, p, s) /\ actrow \in DOMAIN states
       /\ r \in [0 .. g.ntokens - 1 -> Nat]
  BY <1>1, <1>2, <1>3, <1>10, RowInHand
<1>12. ListsOK(l, c) /\ s \in Int /\ s # -1 /\ c \in Nat
  BY <1>2, <1>3, <1>10 DEF ListInv, ListsOK, ListEnds
<1>13. found \in 0 .. c /\ \A k \in c + 1 .. Len(list) : list[found + k - c] = list[k]
  <2>1. Same(list, c)
    <3>1. \A k \in cbase + 1 .. Len(list) : c + k - cbase = k
      <4>1. l \in Seq(Int) /\ Len(list) \in Nat BY <1>4, <1>12 DEF ListsOK
      <4> QED BY <1>2, <1>12, <4>1
    <3> QED BY <3>1 DEF Same
  <2>2. PICK j \in 0 .. c : Same(list, j) /\ \A k \in 0 .. j - 1 : ~Same(list, k)
    <3> DEFINE A == { j \in 0 .. c : Same(list, j) }
    <3>1. A \in SUBSET Nat /\ c \in A BY <1>12, <2>1
    <3> HIDE DEF A
    <3>2. PICK j \in A : \A k \in A : j <= k BY <3>1, LeastExists
    <3>3. j \in 0 .. c /\ Same(list, j) BY <3>2 DEF A
    <3>4. \A k \in 0 .. j - 1 : ~Same(list, k)
      <4> SUFFICES ASSUME NEW k \in 0 .. j - 1, Same(list, k) PROVE FALSE OBVIOUS
      <4>1. k \in 0 .. c /\ ~(j <= k) BY <1>12, <3>3
      <4>2. k \in A BY <4>1 DEF A
      <4> QED BY <3>2, <4>1, <4>2
    <3> QED BY <3>3, <3>4
  <2>3. found \in 0 .. c /\ Same(list, found) BY <1>2, <1>5, <2>2 DEF ConflictBase
  <2> QED BY <1>2, <2>3 DEF Same
<1>14. Ends(l, c, list, found, kept, l2) BY <1>4, <1>6, <1>7, <1>13 DEF Ends
<1>15. /\ ListsOK(l2, kept) /\ Len(l2) = kept /\ KeepsLists(l, c, l2, kept)
       /\ FoundAt(l, c, acts, l2, kept, found + 1)
  BY <1>12, <1>14, ListEnded
<1>16. r2 \in [0 .. g.ntokens - 1 -> Nat] /\ RowBegun(l2, kept, acts, d, r2, p, -1)
  <2>1. p <= Len(acts) => acts[p].symbol # s
    <3>1. p > Len(acts) \/ acts[p].symbol # s BY <1>1, <1>3, <1>10 DEF ListEnds, RowEnds, Act
    <3>2. p \in Int /\ Len(acts) \in Int BY <1>11 DEF RowBegun, ListedActions, IsList
    <3> QED BY <3>1, <3>2
  <2>2. PICK m, y : m = g.ntokens - 1 /\ y = found + 1 OBVIOUS
  <2>3. r \in [0 .. m -> Nat] /\ y \in Nat \ {0} BY <1>11, <1>12, <1>13, <2>2
  <2>4. FoundAt(l, c, acts, l2, kept, y) BY <1>15, <2>2
  <2>5. r2 \in [0 .. m -> Nat] /\ RowBegun(l2, kept, acts, d, r2, p, -1)
    BY <1>8, <1>11, <1>12, <1>15, <2>1, <2>2, <2>3, <2>4, RowListEnded
  <2> QED BY <2>2, <2>5
<1>17. /\ rows = [conflictrow EXCEPT ![actrow][s] = found + 1] /\ conflicts' = l2 /\ cbase' = kept /\ csym' = -1
       /\ actrow' = actrow /\ actpos' = p /\ ActionsKept /\ nstates' = nstates
  BY <1>2, <1>3, <1>4, <1>5, <1>6, <1>7, <1>9
     DEF EndList, ActionsKept, vars, lr0Vars, mkparVars, nstates
<1>18. /\ rows \in [DOMAIN states -> [0 .. g.ntokens - 1 -> Nat]] /\ rows[actrow] = r2
       /\ \A n \in DOMAIN states : n # actrow => rows[n] = conflictrow[n]
  <2>1. conflictrow \in [DOMAIN states -> [0 .. g.ntokens - 1 -> Nat]] BY DEF ListInv, ConflictRowsOK
  <2>2. PICK R0, k : R0 = conflictrow /\ k = actrow OBVIOUS
  <2>3. rows = [R0 EXCEPT ![k] = [R0[k] EXCEPT ![s] = found + 1]] BY <1>17, <2>2
  <2>4. rows = [R0 EXCEPT ![k] = r2] BY <1>1, <1>8, <2>2, <2>3
  <2>5. rows \in [DOMAIN states -> [0 .. g.ntokens - 1 -> Nat]] /\ rows[k] = r2
        /\ \A n \in DOMAIN states : n # k => rows[n] = R0[n]
    BY <1>11, <1>16, <2>1, <2>2, <2>4
  <2> QED BY <2>2, <2>5
<1>19. PICK m : m = actrow OBVIOUS
<1>20. RowsInv(l2, kept, rows, m, p, -1)
  <2>1. RowBegun(l2, kept, parser[actrow], defred[actrow], rows[actrow], p, -1) BY <1>1, <1>16, <1>18
  <2>2. KeepsLists(conflicts, cbase, l2, kept) BY <1>2, <1>15
  <2>3. RowsInv(l2, kept, rows, actrow, p, -1) BY <1>10, <1>18, <2>1, <2>2, OtherRows
  <2> QED BY <1>19, <2>3
<1>21. RowsInv(l2, kept, rows, m, p, -1)' BY <1>17, <1>20, ListedRowsStay
<1>22. RowsInv(conflicts, cbase, conflictrow, actrow, actpos, csym)' BY <1>9, <1>17, <1>19, <1>21
<1>23. ConflictRowsOK' BY <1>9, <1>17, <1>18 DEF ConflictRowsOK, ActionsKept
<1>24. actrow' \in 0 .. nstates' BY <1>17 DEF ListInv
<1> QED BY <1>15, <1>17, <1>22, <1>23, <1>24 DEF ListInv

LEMMA ListsStep ==
    ASSUME Generated, ListInv, TokenActions
    PROVE  ListInv'
BY ListsEnd, ListsAdd, ListsPass, ListsNext DEF TokenActions

-----------------------------------------------------------------------------
(* What is packed, and where. *)
Packed == Vectors
LastVector == 3 * nstates + (g.nsyms - g.ntokens) - 1
ColumnAt(x) == 3 * nstates + (x - g.ntokens - 1)

LEMMA PlacesOfVectors ==
    ASSUME NumbersOK
    PROVE  /\ LastVector \in Nat /\ DOMAIN Packed = 0 .. LastVector
           /\ \A n \in DOMAIN states :
                 /\ n \in 0 .. LastVector /\ Packed[n] = RowVector(ActionRow(n, SHIFT), 0)
                 /\ nstates + n \in 0 .. LastVector
                 /\ Packed[nstates + n] = RowVector(ActionRow(n, REDUCE), 2)
                 /\ 2 * nstates + n \in 0 .. LastVector
                 /\ Packed[2 * nstates + n] = RowVector(conflictrow[n], 1)
           /\ \A x \in g.ntokens + 1 .. g.nsyms - 1 :
                 ColumnAt(x) \in 0 .. LastVector /\ Packed[ColumnAt(x)] = Column(x)
           /\ \A v \in 0 .. LastVector :
                 \/ \E n \in DOMAIN states : v = n
                 \/ \E n \in DOMAIN states : v = nstates + n
                 \/ \E n \in DOMAIN states : v = 2 * nstates + n
                 \/ \E x \in g.ntokens + 1 .. g.nsyms - 1 : v = ColumnAt(x)
                 \/ Packed[v] = EmptyVector
<1> DEFINE w(v) == IF v < nstates THEN RowVector(ActionRow(v, SHIFT), 0)
                   ELSE IF v < 2 * nstates THEN RowVector(ActionRow(v - nstates, REDUCE), 2)
                   ELSE IF v < 3 * nstates THEN RowVector(conflictrow[v - 2 * nstates], 1)
                   ELSE LET x == v - 3 * nstates + g.ntokens + 1
                        IN  IF x < g.nsyms THEN Column(x) ELSE EmptyVector
<1>1. /\ nstates \in Nat /\ nstates >= 1 /\ g.ntokens \in Nat /\ g.nsyms \in Nat
      /\ g.ntokens + 1 < g.nsyms /\ DOMAIN states = 0 .. nstates - 1
  BY DEF NumbersOK, Numbered
<1>2. Packed = [v \in 0 .. LastVector |-> w(v)]
  BY DEF Packed, Vectors, LastVector, RULE_NUM_OFFSET, start_symbol
<1>3. LastVector \in Nat BY <1>1 DEF LastVector
<1>4. DOMAIN Packed = 0 .. LastVector BY <1>2
<1>5. ASSUME NEW n \in DOMAIN states
      PROVE  /\ n \in 0 .. LastVector /\ Packed[n] = RowVector(ActionRow(n, SHIFT), 0)
             /\ nstates + n \in 0 .. LastVector
             /\ Packed[nstates + n] = RowVector(ActionRow(n, REDUCE), 2)
             /\ 2 * nstates + n \in 0 .. LastVector
             /\ Packed[2 * nstates + n] = RowVector(conflictrow[n], 1)
  <2>0. n \in Nat /\ n < nstates
    <3>1. n \in 0 .. nstates - 1 BY <1>1
    <3> QED BY <1>1, <3>1
  <2>1. /\ n <= LastVector /\ nstates + n <= LastVector /\ 2 * nstates + n <= LastVector
        /\ ~(nstates + n < nstates) /\ nstates + n < 2 * nstates
        /\ nstates + n - nstates = n /\ nstates + n \in Nat /\ 2 * nstates + n \in Nat
    <3>1. LastVector >= 3 * nstates BY <1>1 DEF LastVector
    <3> QED BY <1>1, <1>3, <2>0, <3>1
  <2>2. w(n) = RowVector(ActionRow(n, SHIFT), 0) BY <2>0
  <2>3. w(nstates + n) = RowVector(ActionRow(n, REDUCE), 2)
    <3>1. PICK v : v = nstates + n OBVIOUS
    <3>2. ~(v < nstates) /\ v < 2 * nstates /\ v - nstates = n BY <1>1, <2>0, <3>1
    <3>3. w(v) = RowVector(ActionRow(v - nstates, REDUCE), 2) BY <3>2
    <3> HIDE DEF w
    <3> QED BY <3>1, <3>2, <3>3
  <2>4. /\ n \in 0 .. LastVector /\ nstates + n \in 0 .. LastVector
        /\ 2 * nstates + n \in 0 .. LastVector
    BY <1>3, <2>0, <2>1
  <2>5. w(2 * nstates + n) = RowVector(conflictrow[n], 1)
    <3>1. PICK v : v = 2 * nstates + n OBVIOUS
    <3>2. ~(v < nstates) /\ ~(v < 2 * nstates) /\ v < 3 * nstates /\ v - 2 * nstates = n
      BY <1>1, <2>0, <3>1
    <3>3. w(v) = RowVector(conflictrow[v - 2 * nstates], 1) BY <3>2
    <3> HIDE DEF w
    <3> QED BY <3>1, <3>2, <3>3
  <2> HIDE DEF w
  <2> QED BY <1>2, <2>2, <2>3, <2>4, <2>5
<1>6. ASSUME NEW x \in g.ntokens + 1 .. g.nsyms - 1
      PROVE  ColumnAt(x) \in 0 .. LastVector /\ Packed[ColumnAt(x)] = Column(x)
  <2>1. PICK v : v = ColumnAt(x) OBVIOUS
  <2>2. /\ v \in 0 .. LastVector /\ v >= 3 * nstates /\ v - 3 * nstates + g.ntokens + 1 = x
        /\ x < g.nsyms /\ v \in Int
    <3>1. x \in Int /\ x >= g.ntokens + 1 /\ x < g.nsyms BY <1>1
    <3>2. PICK m \in Nat : m = 3 * nstates BY <1>1
    <3>3. v = m + (x - g.ntokens - 1) /\ LastVector = m + (g.nsyms - g.ntokens) - 1
      BY <2>1, <3>2 DEF ColumnAt, LastVector
    <3>4. v >= m /\ v <= LastVector /\ v - m + g.ntokens + 1 = x /\ v \in Int
      <4>1. PICK t \in Nat, s \in Nat : t = g.ntokens /\ s = g.nsyms BY <1>1
      <4>2. v = m + (x - t - 1) /\ LastVector = m + (s - t) - 1 /\ x >= t + 1 /\ x < s /\ x \in Int
        BY <3>1, <3>3, <4>1
      <4>3. v >= m /\ v - m + t + 1 = x /\ v \in Int BY <4>2
      <4>4. v <= LastVector BY <4>2
      <4> QED BY <4>1, <4>3, <4>4
    <3>5. v \in 0 .. LastVector BY <1>3, <3>4
    <3> QED BY <3>1, <3>2, <3>4, <3>5
  <2>3. ~(v < nstates) /\ ~(v < 2 * nstates) /\ ~(v < 3 * nstates) BY <1>1, <2>2
  <2>4. w(v) = Column(x) BY <2>2, <2>3
  <2> HIDE DEF w
  <2> QED BY <1>2, <2>1, <2>2, <2>4
<1>7. ASSUME NEW v \in 0 .. LastVector
      PROVE  \/ \E n \in DOMAIN states : v = n
             \/ \E n \in DOMAIN states : v = nstates + n
             \/ \E n \in DOMAIN states : v = 2 * nstates + n
             \/ \E x \in g.ntokens + 1 .. g.nsyms - 1 : v = ColumnAt(x)
             \/ Packed[v] = EmptyVector
  <2>1. v \in Nat BY <1>3
  <2>2. CASE v < nstates
    <3>1. v \in 0 .. nstates - 1 BY <1>1, <2>1, <2>2
    <3> QED BY <1>1, <3>1
  <2>3. CASE v >= nstates /\ v < 2 * nstates
    <3>1. v - nstates \in 0 .. nstates - 1 /\ v = nstates + (v - nstates) BY <1>1, <2>1, <2>3
    <3> QED BY <1>1, <3>1
  <2>4. CASE v >= 2 * nstates /\ v < 3 * nstates
    <3>1. v - 2 * nstates \in 0 .. nstates - 1 /\ v = 2 * nstates + (v - 2 * nstates) BY <1>1, <2>1, <2>4
    <3> QED BY <1>1, <3>1
  <2>5. CASE v >= 3 * nstates
    <3>1. PICK x : x = v - 3 * nstates + g.ntokens + 1 OBVIOUS
    <3>2. x \in Int /\ x >= g.ntokens + 1 /\ v = 3 * nstates + (x - g.ntokens - 1)
      BY <1>1, <2>1, <2>5, <3>1
    <3>3. CASE x < g.nsyms
      <4>1. x \in g.ntokens + 1 .. g.nsyms - 1 BY <1>1, <3>2, <3>3
      <4> QED BY <3>2, <4>1 DEF ColumnAt
    <3>4. CASE ~(x < g.nsyms)
      <4>1. ~(v < nstates) /\ ~(v < 2 * nstates) /\ ~(v < 3 * nstates) BY <1>1, <2>1, <2>5
      <4>2. w(v) = EmptyVector BY <3>1, <3>4, <4>1
      <4> HIDE DEF w
      <4> QED BY <1>2, <4>2
    <3> QED BY <3>3, <3>4
  <2> QED BY <1>1, <2>1, <2>2, <2>3, <2>4, <2>5
<1> QED BY <1>3, <1>4, <1>5, <1>6, <1>7

LEMMA RowsOfState ==
    ASSUME Built, Origins, NEW n \in DOMAIN states
    PROVE  /\ IsRow(RowVector(ActionRow(n, SHIFT), 0), ActionRow(n, SHIFT), 0)
           /\ IsRow(RowVector(ActionRow(n, REDUCE), 2), ActionRow(n, REDUCE), 2)
<1>1. NumbersOK BY NumbersFacts
<1>2. IsRow(RowVector(ActionRow(n, SHIFT), 0), ActionRow(n, SHIFT), 0)
  <2>1. PICK actions : actions = ActionRow(n, SHIFT) OBVIOUS
  <2>2. DOMAIN actions = 0 .. g.ntokens - 1 BY <2>1, ActionRowFacts
  <2>3. \A x \in DOMAIN actions : actions[x] # 0 => actions[x] \in DOMAIN states
    BY <2>1, <2>2, ActionRowFacts, Transitions
  <2>4. \A q \in DOMAIN states : q - 0 \in Nat BY <1>1 DEF NumbersOK, Numbered
  <2>5. \A x \in DOMAIN actions : actions[x] # 0 => actions[x] - 0 \in Nat BY <2>3, <2>4
  <2> QED BY <2>1, <2>2, <2>5, RowVectorFacts
<1>3. IsRow(RowVector(ActionRow(n, REDUCE), 2), ActionRow(n, REDUCE), 2)
  <2>1. PICK actions : actions = ActionRow(n, REDUCE) OBVIOUS
  <2>2. DOMAIN actions = 0 .. g.ntokens - 1 BY <2>1, ActionRowFacts
  <2>3. g \in Grammars /\ FirstDerivesOK /\ StatesOK BY DEF Built, LR0Inv, AutomatonOK
  <2>4. Completed(Itemset(n)) \in SUBSET DOMAIN g.rules BY <2>3, ItemsetFacts, OrderOfReductions
  <2>5. \A r \in DOMAIN g.rules : r - 2 \in Nat BY <2>3, RuleFacts
  <2>6. \A x \in DOMAIN actions : actions[x] # 0 => actions[x] - 2 \in Nat
    BY <2>1, <2>2, <2>4, <2>5, ActionRowFacts
  <2> QED BY <2>1, <2>2, <2>6, RowVectorFacts
<1> QED BY <1>2, <1>3

LEMMA VectorsWell ==
    ASSUME Built, Origins, GotosListed, ConflictRowsOK
    PROVE  PP!AreVectors(Packed)
<1>1. NumbersOK BY NumbersFacts
<1>2. LastVector \in Nat /\ DOMAIN Packed = 0 .. LastVector BY <1>1, PlacesOfVectors
<1>3. IsFiniteSet(DOMAIN Packed)
  <2>1. 0 \in Int /\ LastVector \in Int BY <1>2
  <2> QED BY <1>2, <2>1, FS_Interval
<1>4. \A n \in DOMAIN states : PP!VectorOK(Packed[n]) /\ PP!VectorOK(Packed[nstates + n])
  <2>1. \A n \in DOMAIN states : /\ Packed[n] = RowVector(ActionRow(n, SHIFT), 0)
                                /\ Packed[nstates + n] = RowVector(ActionRow(n, REDUCE), 2)
    BY <1>1, PlacesOfVectors
  <2> QED BY <2>1, RowsOfState DEF IsRow
<1>5. \A n \in DOMAIN states : PP!VectorOK(Packed[2 * nstates + n])
  <2>1. \A n \in DOMAIN states : Packed[2 * nstates + n] = RowVector(conflictrow[n], 1)
    BY <1>1, PlacesOfVectors
  <2> QED BY <2>1, ConflictRowFacts DEF IsRow
<1>6. PP!VectorOK(EmptyVector)
  <2>1. EmptyVector.from = << >> /\ EmptyVector.to = << >> BY DEF EmptyVector
  <2> QED BY <2>1 DEF PP!VectorOK
<1>7. \A x \in g.ntokens + 1 .. g.nsyms - 1 : PP!VectorOK(Packed[ColumnAt(x)])
  <2>1. \A x \in g.ntokens + 1 .. g.nsyms - 1 : Packed[ColumnAt(x)] = Column(x) BY <1>1, PlacesOfVectors
  <2> QED BY <2>1, ColumnFacts
<1>8. ASSUME NEW v \in DOMAIN Packed PROVE PP!VectorOK(Packed[v])
  <2>1. v \in 0 .. LastVector BY <1>2
  <2>2. \/ \E n \in DOMAIN states : v = n
        \/ \E n \in DOMAIN states : v = nstates + n
        \/ \E n \in DOMAIN states : v = 2 * nstates + n
        \/ \E x \in g.ntokens + 1 .. g.nsyms - 1 : v = ColumnAt(x)
        \/ Packed[v] = EmptyVector
    BY <1>1, <2>1, PlacesOfVectors
  <2> QED BY <1>4, <1>5, <1>6, <1>7, <2>2
<1>9. DOMAIN Packed \in SUBSET Nat BY <1>2
<1>10. PP!IsFiniteSet(DOMAIN Packed) BY <1>3 DEF PP!IsFiniteSet, IsFiniteSet
<1> QED BY <1>8, <1>9, <1>10 DEF PP!AreVectors

(***************************************************************************)
(* What the parser relies on: whatever it finds in the tables t is what    *)
(* the automaton has, a transition or a rule that is completed, and it     *)
(* finds the goto of every variable that can follow in a state.            *)
(***************************************************************************)
Found(t, index, c) == index # 0 /\ index + c \in 0 .. t.YYTABLESIZE /\ t.check[index + c] = c
GotoIn(t, n, r) ==
    IF Found(t, t.gindex[t.lhs[r]], n) THEN t.table[t.gindex[t.lhs[r]] + n] ELSE t.dgoto[t.lhs[r]]

Reduces(n, r) == r \in Nat /\ r + 2 \in Completed(Itemset(n))

ActionsSound(t, n) ==
    /\ t.defred[n] # 0 => Reduces(n, t.defred[n])
    /\ \A c \in Nat : Found(t, t.sindex[n], c) =>
          /\ Leads(n, t.table[t.sindex[n] + c])
          /\ \E x \in 0 .. g.ntokens - 1 :
                Accessing(t.table[t.sindex[n] + c]) = x /\ g.value[x] = c
    /\ \A c \in Nat : Found(t, t.rindex[n], c) => Reduces(n, t.table[t.rindex[n] + c])

GotosSound(t, n) ==
    \A r \in DOMAIN g.rules \ {2} :
        g.rules[r].lhs \in Nexts(Itemset(n)) =>
            Leads(n, GotoIn(t, n, r - 2)) /\ Accessing(GotoIn(t, n, r - 2)) = g.rules[r].lhs

TablesSound(t) ==
    /\ \A n \in DOMAIN states : ActionsSound(t, n) /\ GotosSound(t, n)
    /\ \A r \in DOMAIN g.rules : t.len[r - 2] = Len(Rhs(g, r))
    /\ \A r \in DOMAIN g.rules \ {2} : t.lhs[r - 2] = g.rules[r].lhs - g.ntokens - 1
    /\ Leads(0, t.YYFINAL) /\ Accessing(t.YYFINAL) = g.ntokens + 1
    /\ t.YYERRCODE \in Nat /\ \A c \in t.tokens : c \in Nat

(* The vectors are packed. *)
PackedAll == PP!PackInv /\ PP!Packed /\ ~overflow /\ vectors = Packed

LEMMA ActionsAreSound ==
    ASSUME Generated, PackedAll, NEW n \in DOMAIN states, NEW t, t = Tables
    PROVE  ActionsSound(t, n)
<1>1. NumbersOK BY NumbersFacts DEF Generated
<1>2. /\ t.defred = [m \in DOMAIN states |-> IF defred[m] = 0 THEN 0 ELSE defred[m] - RULE_NUM_OFFSET]
      /\ t.sindex = [m \in DOMAIN states |-> base[m]]
      /\ t.rindex = [m \in DOMAIN states |-> base[nstates + m]]
      /\ t.table = table /\ t.check = check /\ t.YYTABLESIZE = high
  BY DEF Tables
<1>3. /\ n \in DOMAIN vectors /\ vectors[n] = RowVector(ActionRow(n, SHIFT), 0)
      /\ nstates + n \in DOMAIN vectors /\ vectors[nstates + n] = RowVector(ActionRow(n, REDUCE), 2)
  BY <1>1, PlacesOfVectors DEF PackedAll
<1>4. PP!LookupOK(n) /\ PP!LookupOK(nstates + n) BY <1>3, PP!PackedFacts, TableAssumption DEF PackedAll
<1>5. t.defred[n] # 0 => Reduces(n, t.defred[n])
  <2>1. defred[n] = 0 \/ defred[n] \in Completed(Itemset(n)) BY DEF Generated, DefredOK
  <2>2. g \in Grammars /\ FirstDerivesOK /\ StatesOK BY DEF Generated, Built, LR0Inv, AutomatonOK
  <2>3. Completed(Itemset(n)) \in SUBSET DOMAIN g.rules BY <2>2, ItemsetFacts, OrderOfReductions
  <2>4. \A r \in DOMAIN g.rules : r \in Nat /\ r - 2 \in Nat BY <2>2, RuleFacts
  <2>5. t.defred[n] # 0 => t.defred[n] = defred[n] - 2 /\ defred[n] # 0 BY <1>2 DEF RULE_NUM_OFFSET
  <2>6. t.defred[n] # 0 => defred[n] \in Nat /\ defred[n] - 2 \in Nat BY <2>1, <2>3, <2>4, <2>5
  <2>7. t.defred[n] # 0 => t.defred[n] + 2 = defred[n] /\ t.defred[n] \in Nat BY <2>5, <2>6
  <2> QED BY <2>1, <2>5, <2>7 DEF Reduces
<1>6. ASSUME NEW c \in Nat, Found(t, t.sindex[n], c)
      PROVE  /\ Leads(n, t.table[t.sindex[n] + c])
             /\ \E x \in 0 .. g.ntokens - 1 :
                   Accessing(t.table[t.sindex[n] + c]) = x /\ g.value[x] = c
  <2>1. PP!Finds(n, c) BY <1>2, <1>6 DEF Found, PP!Finds
  <2>2. PICK k \in 1 .. PP!tally(n) : vectors[n].from[k] = c /\ table[base[n] + c] = vectors[n].to[k]
    BY <1>4, <2>1 DEF PP!LookupOK
  <2>3. PICK actions : actions = ActionRow(n, SHIFT) OBVIOUS
  <2>4. IsRow(vectors[n], actions, 0) BY <1>3, <2>3, RowsOfState DEF Generated
  <2>5. PICK x \in 0 .. g.ntokens - 1 :
          actions[x] # 0 /\ vectors[n].from[k] = g.value[x] /\ vectors[n].to[k] = actions[x] - 0
    BY <2>2, <2>4 DEF IsRow, PP!tally
  <2>6. Leads(n, actions[x]) /\ Accessing(actions[x]) = x BY <2>3, <2>5, ActionRowFacts DEF Generated
  <2>7. actions[x] \in Nat
    <3>1. actions[x] \in DOMAIN states BY <2>6, Transitions DEF Generated
    <3> QED BY <1>1, <3>1 DEF NumbersOK, Numbered
  <2>8. t.table[t.sindex[n] + c] = actions[x] BY <1>2, <2>2, <2>5, <2>7
  <2> QED BY <2>2, <2>5, <2>6, <2>8
<1>7. ASSUME NEW c \in Nat, Found(t, t.rindex[n], c)
      PROVE  Reduces(n, t.table[t.rindex[n] + c])
  <2>1. PICK v : v = nstates + n OBVIOUS
  <2>2. PP!Finds(v, c) BY <1>2, <1>7, <2>1 DEF Found, PP!Finds
  <2>3. PICK k \in 1 .. PP!tally(v) : vectors[v].from[k] = c /\ table[base[v] + c] = vectors[v].to[k]
    BY <1>4, <2>1, <2>2 DEF PP!LookupOK
  <2>4. PICK actions : actions = ActionRow(n, REDUCE) OBVIOUS
  <2>5. IsRow(vectors[v], actions, 2) BY <1>3, <2>1, <2>4, RowsOfState DEF Generated
  <2>6. PICK x \in 0 .. g.ntokens - 1 :
          actions[x] # 0 /\ vectors[v].from[k] = g.value[x] /\ vectors[v].to[k] = actions[x] - 2
    BY <2>3, <2>5 DEF IsRow, PP!tally
  <2>7. actions[x] \in Completed(Itemset(n)) BY <2>4, <2>6, ActionRowFacts DEF Generated
  <2>8. actions[x] \in Nat /\ actions[x] - 2 \in Nat
    <3>1. g \in Grammars /\ FirstDerivesOK /\ StatesOK BY DEF Generated, Built, LR0Inv, AutomatonOK
    <3>2. actions[x] \in DOMAIN g.rules BY <2>7, <3>1, ItemsetFacts, OrderOfReductions
    <3> QED BY <3>1, <3>2, RuleFacts
  <2>9. t.table[t.rindex[n] + c] + 2 = actions[x] /\ t.table[t.rindex[n] + c] \in Nat
    <3>1. t.table[t.rindex[n] + c] = actions[x] - 2 BY <1>2, <2>1, <2>3, <2>6
    <3> QED BY <2>8, <3>1
  <2> QED BY <2>7, <2>9 DEF Reduces
<1> QED BY <1>5, <1>6, <1>7 DEF ActionsSound

(* yylhs[] numbers the variables after $accept from 0 (the others are negative,
   SymbolValue). *)
LEMMA LhsInTables ==
    ASSUME Generated, NEW t, t = Tables, NEW r \in DOMAIN g.rules \ {2}, NEW x, x = g.rules[r].lhs
    PROVE  /\ x \in g.ntokens + 1 .. g.nsyms - 1 /\ x - g.ntokens - 1 \in 0 .. g.nsyms - g.ntokens - 2
           /\ t.lhs[r - 2] = x - g.ntokens - 1
<1>1. NumbersOK /\ g \in Grammars BY NumbersFacts DEF Generated, Built, LR0Inv
<1>2. /\ x \in g.ntokens + 1 .. g.nsyms - 1 /\ x - g.ntokens - 1 \in 0 .. g.nsyms - g.ntokens - 2
      /\ SymbolValue(x) = x - g.ntokens - 1
  <2>1. x \in Vars(g) /\ x # g.ntokens BY <1>1, RuleFacts
  <2>2. x \in g.ntokens .. g.nsyms - 1 BY <2>1 DEF Vars
  <2> QED BY <1>1, <2>1, <2>2 DEF NumbersOK
<1>3. t.lhs[r - 2] = x - g.ntokens - 1
  <2>1. t.lhs = [s \in Rules2 |-> SymbolValue(g.rules[s + RULE_NUM_OFFSET].lhs)] BY DEF Tables
  <2>2. r - 2 \in Rules2 /\ r - 2 + RULE_NUM_OFFSET = r
    <3>1. DOMAIN g.rules = 2 .. Cardinality(DOMAIN g.rules) + 1 /\ IsFiniteSet(DOMAIN g.rules)
      BY <1>1, GrammarsAssumption DEF GrammarOK
    <3>2. Cardinality(DOMAIN g.rules) \in Nat BY <3>1, FS_CardinalityType
    <3> QED BY <3>1, <3>2 DEF Rules2, RULE_NUM_OFFSET
  <2> QED BY <1>2, <2>1, <2>2
<1> QED BY <1>2, <1>3

LEMMA GotosAreSound ==
    ASSUME Generated, PackedAll, NEW n \in DOMAIN states, NEW t, t = Tables
    PROVE  GotosSound(t, n)
<1> SUFFICES ASSUME NEW r \in DOMAIN g.rules \ {2}, g.rules[r].lhs \in Nexts(Itemset(n))
             PROVE  /\ Leads(n, GotoIn(t, n, r - 2))
                    /\ Accessing(GotoIn(t, n, r - 2)) = g.rules[r].lhs
    BY DEF GotosSound
<1>1. NumbersOK /\ g \in Grammars BY NumbersFacts DEF Generated, Built, LR0Inv
<1>2. PICK x : x = g.rules[r].lhs OBVIOUS
<1>3. x \in g.ntokens + 1 .. g.nsyms - 1 /\ x - g.ntokens - 1 \in 0 .. g.nsyms - g.ntokens - 2
  BY <1>2, LhsInTables
<1>4. t.lhs[r - 2] = x - g.ntokens - 1 BY <1>2, LhsInTables
<1>5. PICK v : v = ColumnAt(x) OBVIOUS
<1>6. /\ t.gindex[x - g.ntokens - 1] = base[v] /\ t.dgoto[x - g.ntokens - 1] = DefaultGoto(x)
      /\ t.table = table /\ t.check = check /\ t.YYTABLESIZE = high
  <2>1. /\ t.gindex = [y \in 0 .. g.nsyms - start_symbol - 2 |-> base[3 * nstates + y]]
        /\ t.dgoto = [y \in 0 .. g.nsyms - start_symbol - 2 |-> DefaultGoto(y + start_symbol + 1)]
        /\ t.table = table /\ t.check = check /\ t.YYTABLESIZE = high
    BY DEF Tables
  <2>2. x - g.ntokens - 1 + start_symbol + 1 = x /\ start_symbol = g.ntokens
    BY <1>1, <1>3 DEF start_symbol, NumbersOK
  <2>3. 3 * nstates + (x - g.ntokens - 1) = v BY <1>5 DEF ColumnAt
  <2> QED BY <1>3, <2>1, <2>2, <2>3
<1>7. v \in DOMAIN vectors /\ vectors[v] = Column(x)
  BY <1>1, <1>3, <1>5, PlacesOfVectors DEF PackedAll
<1>8. PP!LookupOK(v) BY <1>7, PP!PackedFacts, TableAssumption DEF PackedAll
<1>9. PICK q : Leads(n, q) /\ Accessing(q) = x BY <1>2, Transitions DEF Generated
<1>10. PICK k \in DOMAIN toState : fromState[k] = n /\ toState[k] = q
  <2>1. Accessing(q) >= g.ntokens BY <1>1, <1>3, <1>9 DEF NumbersOK
  <2> QED BY <1>9, <2>1, GotoArrays DEF Generated
<1>11. GotosOn(x) = { m \in DOMAIN toState : Accessing(toState[m]) = x } /\ k \in GotosOn(x)
  BY <1>9, <1>10, GotoArrays DEF Generated, GotosOn, AccessingSymbol, Accessing
<1>12. n \in Nat BY <1>1 DEF NumbersOK, Numbered
<1>13. Found(t, base[v], n) <=> PP!Finds(v, n) BY <1>6 DEF Found, PP!Finds
<1>14. CASE PP!Finds(v, n)
  <2>1. PICK e \in 1 .. PP!tally(v) : vectors[v].from[e] = n /\ table[base[v] + n] = vectors[v].to[e]
    BY <1>8, <1>12, <1>14 DEF PP!LookupOK
  <2>2. PICK m \in GotosOn(x) : vectors[v].from[e] = fromState[m] /\ vectors[v].to[e] = toState[m]
    BY <1>7, <2>1, ColumnFacts DEF PP!tally, Generated
  <2>3. m = k BY <1>9, <1>10, <1>11, <2>1, <2>2, GotoArrays DEF Generated
  <2>4. GotoIn(t, n, r - 2) = q BY <1>4, <1>6, <1>10, <1>13, <1>14, <2>1, <2>2, <2>3 DEF GotoIn
  <2> QED BY <1>2, <1>9, <2>4
<1>15. CASE ~PP!Finds(v, n)
  <2>1. toState[k] = DefaultGoto(x)
    <3>1. SUFFICES ASSUME toState[k] # DefaultGoto(x) PROVE FALSE OBVIOUS
    <3>2. PICK e \in 1 .. Len(vectors[v].from) : vectors[v].from[e] = n
      BY <1>7, <1>10, <1>11, <3>1, ColumnFacts DEF Generated
    <3> QED BY <1>8, <1>15, <3>2 DEF PP!LookupOK, PP!tally
  <2>2. GotoIn(t, n, r - 2) = q BY <1>4, <1>6, <1>10, <1>13, <1>15, <2>1 DEF GotoIn
  <2> QED BY <1>2, <1>9, <2>2
<1> QED BY <1>14, <1>15

LEMMA TablesAreSound ==
    ASSUME Generated, PackedAll, NEW t, t = Tables
    PROVE  TablesSound(t)
<1>1. NumbersOK /\ g \in Grammars BY NumbersFacts DEF Generated, Built, LR0Inv
<1>2. \A n \in DOMAIN states : ActionsSound(t, n) /\ GotosSound(t, n) BY ActionsAreSound, GotosAreSound
<1>3. ASSUME NEW r \in DOMAIN g.rules PROVE t.len[r - 2] = Len(Rhs(g, r))
  <2>1. t.len = [s \in Rules2 |-> Len(Rhs(g, s + RULE_NUM_OFFSET))] BY DEF Tables
  <2>2. r - 2 \in Rules2 /\ r - 2 + RULE_NUM_OFFSET = r
    <3>1. DOMAIN g.rules = 2 .. Cardinality(DOMAIN g.rules) + 1 /\ IsFiniteSet(DOMAIN g.rules)
      BY <1>1, GrammarsAssumption DEF GrammarOK
    <3>2. Cardinality(DOMAIN g.rules) \in Nat BY <3>1, FS_CardinalityType
    <3> QED BY <3>1, <3>2 DEF Rules2, RULE_NUM_OFFSET
  <2> QED BY <2>1, <2>2
<1>4. Leads(0, t.YYFINAL) /\ Accessing(t.YYFINAL) = g.ntokens + 1
  <2>1. t.YYFINAL = final_state BY DEF Tables
  <2> QED BY <2>1 DEF Generated, FinalOK
<1>5. t.YYERRCODE \in Nat /\ \A c \in t.tokens : c \in Nat
  <2>1. t.YYERRCODE = g.value[1] /\ t.tokens = { g.value[x] : x \in 2 .. g.ntokens - 1 } BY DEF Tables
  <2>2. 1 \in 0 .. g.ntokens - 1 /\ \A x \in 2 .. g.ntokens - 1 : x \in 0 .. g.ntokens - 1
    BY <1>1 DEF NumbersOK
  <2>3. \A x \in 0 .. g.ntokens - 1 : g.value[x] \in Nat BY <1>1 DEF NumbersOK
  <2> QED BY <2>1, <2>2, <2>3
<1>6. \A r \in DOMAIN g.rules \ {2} : t.lhs[r - 2] = g.rules[r].lhs - g.ntokens - 1 BY LhsInTables
<1> QED BY <1>2, <1>3, <1>4, <1>5, <1>6 DEF TablesSound


-----------------------------------------------------------------------------
(***************************************************************************)
(* From the first step of the generator to its last: the invariants of     *)
(* make_parser() until it is done, then what it found and the lists of     *)
(* rivals, the invariant of pack_table() while the vectors are packed, and *)
(* sound tables when they are written.                                     *)
(***************************************************************************)
Finished == phase \in {"token_actions", "pack_table", "written"}

(* The tables that are written are those that were packed. *)
TablesPacked ==
    PackedAll /\ tables.cindex = [n \in DOMAIN states |-> base[2 * nstates + n]]

TablesInv ==
    /\ ~Finished /\ phase # "fatal" => ActionsInv /\ GotosInv /\ NoLists
    /\ Finished => Generated /\ ListInv
    /\ phase \in {"pack_table", "written"} /\ g.backtrack => actrow >= nstates
    /\ phase = "pack_table" => PP!PackInv /\ vectors = Packed
    /\ phase = "written" => TablesSound(tables) /\ TablesPacked

LEMMA OutputIsLast == Next => ~Finished /\ phase # "fatal" /\ ~Finished'
<1>1. LR0Next => ~Finished /\ phase # "fatal" /\ ~Finished'
  BY DEF Finished, LR0Next, InitializeStates, Expand, OldState, NewState, TooManyStates, NextStateOfList
<1>2. LalrNext => ~Finished /\ phase # "fatal" /\ ~Finished'
  BY DEF Finished, LalrNext, SetGotoMap, TooManyGotos, InitializeF, BuildRelations, RunDigraph,
         ComputeLookaheads, LR0Done, lr0Vars
<1>3. MkparNext => ~Finished /\ phase # "fatal" /\ ~Finished'
  BY DEF Finished, MkparNext, ListActions, RemoveConflicts, NextRow, Finish, LalrDone, lr0Vars
<1> QED BY <1>1, <1>2, <1>3 DEF Next

LEMMA GeneratedStays ==
    ASSUME Generated, phase' \notin {"lr0", "fatal", "expand", "shift"},
           UNCHANGED << g, firstDerives, states, shift, reds, this, pending, parser, final_state,
                        defred, fromState, toState >>
    PROVE  Generated'
<1>1. LR0Inv /\ phase \notin {"lr0", "fatal", "expand", "shift"} BY DEF Generated, Built
<1>2. LR0Inv' BY <1>1, AutomatonStays
<1>3. Built' BY <1>2 DEF Built
<1>4. Origins' /\ FinalOK' BY OriginsStay DEF Generated
<1>5. DefredOK'
  <2>1. \A n : Completed(Itemset(n))' = Completed(Itemset(n)) BY SameOrigin
  <2>2. DefredOK BY DEF Generated
  <2> QED BY <2>1, <2>2 DEF DefredOK
<1>6. GotosListed'
  <2>1. InOrder(Gotos, GotoOrder)' = InOrder(Gotos, GotoOrder) BY SameGotos
  <2>2. GotosListed BY DEF Generated
  <2> QED BY <2>1, <2>2 DEF GotosListed
<1> QED BY <1>3, <1>4, <1>5, <1>6 DEF Generated

(* A default goto, a column and a row, by what they are computed from. *)
MostFrequent(K, f) ==
    IF K = {} THEN 0
    ELSE CHOOSE q \in { f[k] : k \in K } :
            \A p \in { f[k] : k \in K } :
                \/ Cardinality({ k \in K : f[k] = p }) < Cardinality({ k \in K : f[k] = q })
                \/ Cardinality({ k \in K : f[k] = p }) = Cardinality({ k \in K : f[k] = q }) /\ q <= p

ColumnOf(K, from, f, q) ==
    LET ks == InOrder({ k \in K : f[k] # q }, <)
    IN  [from |-> [e \in DOMAIN ks |-> from[ks[e]]], to |-> [e \in DOMAIN ks |-> f[ks[e]]]]

RowTokens(actions) == InOrder({ x \in DOMAIN actions : actions[x] # 0 }, <)

ComputedFrom ==
    /\ \A x : DefaultGoto(x) = MostFrequent(GotosOn(x), toState)
    /\ \A x : Column(x) = ColumnOf(GotosOn(x), fromState, toState, DefaultGoto(x))
    /\ \A actions, offset :
          RowVector(actions, offset) =
              [from |-> [k \in DOMAIN RowTokens(actions) |-> SymbolValue(RowTokens(actions)[k])],
               to |-> [k \in DOMAIN RowTokens(actions) |-> actions[RowTokens(actions)[k]] - offset]]

LEMMA ColumnsAndRows == ComputedFrom
<1>1. \A x : DefaultGoto(x) = MostFrequent(GotosOn(x), toState) BY DEF DefaultGoto, StateCount, MostFrequent
<1>2. \A x : Column(x) = ColumnOf(GotosOn(x), fromState, toState, DefaultGoto(x)) BY DEF Column, ColumnOf
<1>3. \A actions, offset :
          RowVector(actions, offset) =
              [from |-> [k \in DOMAIN RowTokens(actions) |-> SymbolValue(RowTokens(actions)[k])],
               to |-> [k \in DOMAIN RowTokens(actions) |-> actions[RowTokens(actions)[k]] - offset]]
  BY DEF RowVector, RowTokens
<1> QED BY <1>1, <1>2, <1>3 DEF ComputedFrom

LEMMA PackedStays ==
    ASSUME UNCHANGED << g, states, shift, parser, defred, fromState, toState, conflictrow >>
    PROVE  Packed' = Packed
<1>1. \A x : SymbolValue(x)' = SymbolValue(x) BY DEF SymbolValue, ISTOKEN, start_symbol
<1>2. \A n, code : ActionRow(n, code)' = ActionRow(n, code) BY DEF ActionRow
<1>3. ComputedFrom /\ ComputedFrom' BY ColumnsAndRows, PTL
<1>4. \A actions, offset : RowVector(actions, offset)' = RowVector(actions, offset)
  BY <1>1, <1>3 DEF ComputedFrom
<1>5. InOrder(Gotos, GotoOrder)' = InOrder(Gotos, GotoOrder) BY SameGotos
<1>6. \A x : GotosOn(x)' = GotosOn(x) BY <1>5 DEF GotosOn, AccessingSymbol
<1>7. \A x : DefaultGoto(x)' = DefaultGoto(x) BY <1>3, <1>6 DEF ComputedFrom
<1>8. \A x : Column(x)' = Column(x) BY <1>3, <1>6, <1>7 DEF ComputedFrom
<1>9. nstates' = nstates /\ start_symbol' = start_symbol
  BY DEF nstates, start_symbol
<1> QED BY <1>2, <1>4, <1>8, <1>9 DEF Packed, Vectors

LEMMA SoundStays ==
    ASSUME NEW t, TablesSound(t), UNCHANGED << g, firstDerives, states, shift >>
    PROVE  TablesSound(t)'
<1>1. /\ \A n : Completed(Itemset(n))' = Completed(Itemset(n))
      /\ \A n, q : Leads(n, q)' <=> Leads(n, q)
      /\ \A q : Accessing(q)' = Accessing(q)
  BY SameOrigin
<1>2. \A n : Nexts(Itemset(n))' = Nexts(Itemset(n))
  <2>1. \A it : NextSymbol(it)' = NextSymbol(it) BY DEF NextSymbol
  <2>2. \A n : Itemset(n)' = Itemset(n) BY <2>1 DEF Itemset, closure, start_symbol
  <2> QED BY <2>1, <2>2 DEF Nexts
<1>3. \A n \in DOMAIN states : ActionsSound(t, n)'
  <2>1. \A n \in DOMAIN states : ActionsSound(t, n) BY DEF TablesSound
  <2> QED BY <1>1, <2>1 DEF ActionsSound, Found, Reduces
<1>4. \A n \in DOMAIN states : GotosSound(t, n)'
  <2>1. \A n \in DOMAIN states : GotosSound(t, n) BY DEF TablesSound
  <2>2. \A n, r : Accessing(GotoIn(t, n, r))' = Accessing(GotoIn(t, n, r)) BY DEF Accessing, GotoIn, Found
  <2> QED BY <1>1, <1>2, <2>1, <2>2 DEF GotosSound, GotoIn, Found
<1> QED BY <1>1, <1>3, <1>4 DEF TablesSound, Rhs


(* P and PP are two instances of the module of pack_table(). *)
LEMMA SameOrder ==
    /\ \A w : P!WidthOf(w) = PP!WidthOf(w)
    /\ \A vs : P!SortActions(vs) = PP!SortActions(vs)
<1>1. \A w : P!WidthOf(w) = PP!WidthOf(w) BY DEF P!WidthOf, PP!WidthOf, P!Span, PP!Span
<1>2. \A vs : P!SortActions(vs) = PP!SortActions(vs)
  BY DEF P!SortActions, PP!SortActions, P!Before, PP!Before, P!WidthOf, PP!WidthOf, P!Span, PP!Span,
         P!Cardinality, PP!Cardinality, P!IsFiniteSet, PP!IsFiniteSet
<1> QED BY <1>1, <1>2

LEMMA SamePacking ==
    ASSUME P!Next, PP!PackInv
    PROVE  PP!PackInv' /\ UNCHANGED vectors
<1>1. CASE P!Share
  <2>1. PP!Share
    BY <1>1, SameOrder DEF P!Share, PP!Share, P!Packing, PP!Packing, P!NotSearching, PP!NotSearching,
                P!Matches, PP!Matches, P!cur, PP!cur, P!SameShape, PP!SameShape, P!tally, PP!tally,
                P!input, PP!input
  <2> QED BY <1>1, <2>1, PP!ShareInv, TableAssumption DEF P!Share, P!input
<1>2. CASE P!StartSearch
  <2>1. PP!StartSearch
    BY <1>2, SameOrder DEF P!StartSearch, PP!StartSearch, P!Packing, PP!Packing, P!NotSearching, PP!NotSearching,
                P!Matches, PP!Matches, P!cur, PP!cur, P!SameShape, PP!SameShape, P!tally, PP!tally,
                P!input, PP!input, P!NextPlace, PP!NextPlace
  <2> QED BY <1>2, <2>1, PP!StartSearchInv, TableAssumption DEF P!StartSearch, P!input
<1>3. CASE P!EntryFits
  <2>1. PP!EntryFits
    BY <1>3 DEF P!EntryFits, PP!EntryFits, P!Looking, PP!Looking, P!Searching, PP!Searching, P!Packing,
                PP!Packing, P!NotSearching, PP!NotSearching, P!cur, PP!cur, P!tally, PP!tally, P!Loc, PP!Loc,
                P!TooLarge, PP!TooLarge, P!Full, PP!Full, P!Enlarged, PP!Enlarged, P!Resized, PP!Resized,
                P!NONE, PP!NONE, P!Unused, PP!Unused, P!input, PP!input
  <2> QED BY <1>3, <2>1, PP!EntryFitsInv, TableAssumption DEF P!EntryFits, P!input
<1>4. CASE P!EntryCollides
  <2>1. PP!EntryCollides
    BY <1>4 DEF P!EntryCollides, PP!EntryCollides, P!Looking, PP!Looking, P!Searching, PP!Searching, P!Packing,
                PP!Packing, P!NotSearching, PP!NotSearching, P!cur, PP!cur, P!tally, PP!tally, P!Loc, PP!Loc,
                P!TooLarge, PP!TooLarge, P!Full, PP!Full, P!Enlarged, PP!Enlarged, P!Resized, PP!Resized,
                P!NONE, PP!NONE, P!Unused, PP!Unused, P!input, PP!input, P!TryNext, PP!TryNext,
                P!NextPlace, PP!NextPlace
  <2> QED BY <1>4, <2>1, PP!EntryCollidesInv, TableAssumption DEF P!EntryCollides, P!input
<1>5. CASE P!BaseTaken
  <2>1. PP!BaseTaken
    BY <1>5 DEF P!BaseTaken, PP!BaseTaken, P!Looking, PP!Looking, P!Searching, PP!Searching, P!Packing,
                PP!Packing, P!NotSearching, PP!NotSearching, P!cur, PP!cur, P!tally, PP!tally,
                P!IsNewBase, PP!IsNewBase, P!input, PP!input, P!TryNext, PP!TryNext, P!NextPlace, PP!NextPlace
  <2> QED BY <1>5, <2>1, PP!BaseTakenInv, TableAssumption DEF P!BaseTaken, P!input
<1>6. CASE P!Place
  <2>1. PP!Place
    BY <1>6 DEF P!Place, PP!Place, P!Looking, PP!Looking, P!Searching, PP!Searching, P!Packing,
                PP!Packing, P!NotSearching, PP!NotSearching, P!cur, PP!cur, P!tally, PP!tally, P!Loc, PP!Loc,
                P!IsNewBase, PP!IsNewBase, P!Stored, PP!Stored, P!Latest, PP!Latest,
                P!NONE, PP!NONE, P!Unused, PP!Unused, P!input, PP!input
  <2> QED BY <1>6, <2>1, PP!PlaceInv, TableAssumption DEF P!Place, P!input
<1>7. CASE P!TableOverflow
  <2>1. UNCHANGED << PP!input, order, next, place, entry, base, table, check, maxtable, lowzero, high >>
    BY <1>7 DEF P!TableOverflow, P!input, PP!input
  <2> QED BY <1>7, <2>1, PP!StutterInv, TableAssumption DEF P!TableOverflow, P!input
<1> QED BY <1>1, <1>2, <1>3, <1>4, <1>5, <1>6, <1>7 DEF P!Next

(* What output_actions() leaves to pack_table(). *)
FreshPack ==
    LET in == [nvectors |-> nvectors, vectors |-> vectors, nrows |-> nrows]
    IN  PP!Given(in) /\ PP!StartPacking(in)

LEMMA FreshIsPackInv == FreshPack => PP!PackInv
<1> SUFFICES ASSUME FreshPack PROVE PP!PackInv OBVIOUS
<1>1. PICK in : PP!Given(in) /\ PP!StartPacking(in) BY DEF FreshPack
<1> QED BY <1>1, PP!StartInv, TableAssumption

LEMMA OutputActionsKeeps ==
    ASSUME Generated, ConflictRowsOK, OutputActions
    PROVE  PP!PackInv' /\ vectors' = Packed'
<1>1. UNCHANGED << g, firstDerives, states, shift, reds, this, pending, parser, final_state,
                   defred, fromState, toState, conflictrow >>
  BY DEF OutputActions, lalrVars, gotoVars, mkparVars, listVars
<1>2. vectors' = Packed
  <2> QED BY DEF OutputActions, Packed
<1>3. PP!AreVectors(Packed) BY VectorsWell DEF Generated
<1>4. FreshPack'
  <2>1. PICK in : in = [nvectors |-> nvectors', vectors |-> vectors', nrows |-> nrows'] OBVIOUS
  <2>2. in.nvectors = nvectors' /\ in.vectors = vectors' /\ in.nrows = nrows' BY <2>1
  <2>3. PP!Given(in) BY <1>2, <1>3, <2>2, TableAssumption DEF PP!Given
  <2>4. order' = PP!SortActions(vectors') BY SameOrder DEF OutputActions
  <2>5. /\ next' = 1 /\ place' = 0 /\ entry' = 1
        /\ base' = [v \in DOMAIN vectors' |-> 0]
        /\ table' = [l \in 0 .. InitialTable - 1 |-> 0]
        /\ check' = [l \in 0 .. InitialTable - 1 |-> -1]
        /\ maxtable' = InitialTable /\ lowzero' = 0 /\ high' = 0 /\ overflow' = FALSE
    BY DEF OutputActions
  <2>6. PP!StartPacking(in)'
    BY <2>2, <2>4, <2>5 DEF PP!StartPacking, PP!NotSearching, PP!NONE
  <2>7. FreshPack' <=> PP!Given(in)' /\ PP!StartPacking(in)' BY <2>1 DEF FreshPack
  <2>8. PP!Given(in)' BY <2>3
  <2> QED BY <2>6, <2>7, <2>8
<1>5. PP!PackInv' BY <1>4, FreshIsPackInv, PTL
<1> QED BY <1>1, <1>2, <1>5, PackedStays


LEMMA PackingStays ==
    ASSUME PackedAll, UNCHANGED << g, states, shift, parser, defred, fromState, toState, conflictrow >>,
           UNCHANGED << PP!input, order, next, place, entry, base, table, check, maxtable, lowzero, high >>,
           UNCHANGED << vectors, overflow >>
    PROVE  PackedAll'
<1>1. PP!PackInv' BY PP!StutterInv, TableAssumption DEF PackedAll
<1>2. PP!Packed' BY DEF PackedAll, PP!Packed, PP!Packing
<1>3. Packed' = Packed BY PackedStays
<1> QED BY <1>1, <1>2, <1>3 DEF PackedAll

LEMMA ListInvStays ==
    ASSUME ListInv, UNCHANGED << g, states, parser, defred, listVars >>
    PROVE  ListInv'
<1>1. PICK l, c, rows : l = conflicts /\ c = cbase /\ rows = conflictrow OBVIOUS
<1>2. PICK m, p, s : m = actrow /\ p = actpos /\ s = csym OBVIOUS
<1>3. ActionsKept /\ nstates' = nstates BY DEF ActionsKept, nstates
<1>4. /\ conflicts' = l /\ cbase' = c /\ conflictrow' = rows
      /\ actrow' = m /\ actpos' = p /\ csym' = s
  BY <1>1, <1>2 DEF listVars
<1>5. RowsInv(l, c, rows, m, p, s) BY <1>1, <1>2 DEF ListInv
<1>6. RowsInv(l, c, rows, m, p, s)' BY <1>3, <1>5, ListedRowsStay
<1>7. RowsInv(conflicts, cbase, conflictrow, actrow, actpos, csym)' BY <1>4, <1>6
<1>8. ConflictRowsOK' BY <1>1, <1>4 DEF ListInv, ConflictRowsOK
<1> QED BY <1>1, <1>2, <1>3, <1>4, <1>7, <1>8 DEF ListInv

LEMMA WriteTablesKeeps ==
    ASSUME Generated, PP!PackInv, vectors = Packed, WriteTables, phase' = "written"
    PROVE  TablesSound(tables)' /\ TablesPacked'
<1>1. UNCHANGED << g, firstDerives, states, shift >> BY DEF WriteTables
<1>2. PackedAll
  <2>1. PP!Packed BY DEF WriteTables, P!Packed, PP!Packed, P!Packing, PP!Packing
  <2>2. ~overflow BY DEF WriteTables
  <2> QED BY <2>1, <2>2 DEF PackedAll
<1>3. PICK t : t = Tables OBVIOUS
<1>4. TablesSound(t) BY <1>2, <1>3, TablesAreSound
<1>5. TablesSound(t)' BY <1>1, <1>4, SoundStays
<1>6. tables' = t BY <1>3 DEF WriteTables
<1>7. PackedAll'
  <2>1. /\ UNCHANGED << g, states, shift, parser, defred, fromState, toState, conflictrow >>
        /\ UNCHANGED << PP!input, order, next, place, entry, base, table, check, maxtable, lowzero, high >>
        /\ UNCHANGED << vectors, overflow >>
    BY DEF WriteTables, lalrVars, gotoVars, mkparVars, listVars, packVars, PP!input
  <2> QED BY <1>2, <2>1, PackingStays
<1>8. tables'.cindex = [n \in DOMAIN states |-> base[2 * nstates + n]]
  <2>1. t.cindex = [n \in DOMAIN states |-> base[2 * nstates + n]] BY <1>3 DEF Tables
  <2> QED BY <1>6, <2>1
<1>9. TablesPacked'
  <2>1. states' = states /\ base' = base /\ nstates' = nstates BY DEF WriteTables, packVars, nstates
  <2> QED BY <1>7, <1>8, <2>1 DEF TablesPacked
<1> QED BY <1>5, <1>6, <1>9


LEMMA TablesStart == Init /\ OutputInit => TablesInv
<1> SUFFICES ASSUME Init, OutputInit PROVE TablesInv OBVIOUS
<1>1. Init /\ phase = "lr0" BY DEF Init, LR0Init
<1>2. ActionsInv BY <1>1, ActionsStart
<1>3. GotosInv BY <1>1 DEF GotosInv
<1>4. NoLists BY DEF OutputInit, NoLists
<1> QED BY <1>1, <1>2, <1>3, <1>4 DEF TablesInv, Finished

GeneratorStep == (Next /\ UNCHANGED outputVars) \/ OutputNext

LEMMA TablesStep == TablesInv /\ [GeneratorStep]_<< vars, outputVars >> => TablesInv'
<1> SUFFICES ASSUME TablesInv, [GeneratorStep]_<< vars, outputVars >> PROVE TablesInv' OBVIOUS
<1>1. CASE Next /\ UNCHANGED outputVars
  <2>1. ~Finished /\ phase # "fatal" /\ ~Finished' BY <1>1, OutputIsLast
  <2>2. ActionsInv' BY <1>1, <2>1, ActionsStep DEF TablesInv
  <2>3. GotosInv' BY <1>1, <2>1, GotosStep DEF TablesInv
  <2>4. NoLists' BY <1>1, <2>1 DEF TablesInv, NoLists, outputVars, listVars
  <2> QED BY <2>1, <2>2, <2>3, <2>4 DEF TablesInv, Finished
<1>2. CASE StartActions
  <2>1. phase = "done" /\ phase' = "token_actions" BY <1>2 DEF StartActions
  <2>2. Generated
    <3>1. ActionsInv /\ GotosInv BY <2>1 DEF TablesInv, Finished
    <3>2. MkparInv /\ Origins /\ FinalOK /\ DefredOK BY <2>1, <3>1 DEF ActionsInv
    <3>3. Built BY <2>1, <3>2 DEF MkparInv, Built
    <3>4. GotosListed BY <2>1, <3>1 DEF GotosInv
    <3> QED BY <3>2, <3>3, <3>4 DEF Generated
  <2>3. Generated' BY <1>2, <2>1, <2>2, GeneratedStays DEF StartActions, lalrVars, gotoVars, mkparVars
  <2>4. ListInv'
    <3>1. NoLists BY <2>1 DEF TablesInv, Finished
    <3> QED BY <1>2, <2>2, <3>1, ListsStart
  <2> QED BY <2>1, <2>3, <2>4 DEF TablesInv, Finished
<1>3. CASE TokenActions
  <2>1. /\ phase = "token_actions" /\ phase' = phase
        /\ UNCHANGED << g, firstDerives, states, shift, reds, this, pending, parser, final_state,
                        defred, fromState, toState >>
    BY <1>3 DEF TokenActions, EndList, AddRival, PassAction, NextState, Listing, vars, lr0Vars, lalrVars,
                gotoVars, mkparVars
  <2>2. Generated /\ ListInv BY <2>1 DEF TablesInv, Finished
  <2>3. Generated' BY <2>1, <2>2, GeneratedStays
  <2>4. ListInv' BY <1>3, <2>2, ListsStep
  <2> QED BY <2>1, <2>3, <2>4 DEF TablesInv, Finished
<1>4. CASE OutputActions
  <2>1. /\ phase = "token_actions" /\ phase' = "pack_table" /\ ~Listing
        /\ UNCHANGED << g, firstDerives, states, shift, reds, this, pending, parser, final_state,
                        defred, fromState, toState, listVars >>
    BY <1>4 DEF OutputActions, lalrVars, gotoVars, mkparVars
  <2>2. Generated /\ ListInv BY <2>1 DEF TablesInv, Finished
  <2>3. Generated' BY <2>1, <2>2, GeneratedStays
  <2>4. ListInv' BY <2>1, <2>2, ListInvStays
  <2>5. PP!PackInv' /\ vectors' = Packed' BY <1>4, <2>2, OutputActionsKeeps DEF ListInv
  <2>6. g.backtrack => actrow >= nstates
    <3>1. actrow \in 0 .. nstates /\ nstates \in Nat
      BY <2>2, NumbersFacts DEF ListInv, Generated, NumbersOK, Numbered
    <3>2. g.backtrack => ~(actrow < nstates) BY <2>1 DEF Listing
    <3> QED BY <3>1, <3>2
  <2>7. g'.backtrack => actrow' >= nstates' BY <2>1, <2>6 DEF nstates, listVars
  <2> QED BY <2>1, <2>3, <2>4, <2>5, <2>7 DEF TablesInv, Finished
<1>5. CASE PackTable
  <2>1. /\ phase = "pack_table" /\ phase' = phase
        /\ UNCHANGED << g, firstDerives, states, shift, reds, this, pending, parser, final_state,
                        defred, fromState, toState, listVars >>
    BY <1>5 DEF PackTable, lr0Vars, lalrVars, gotoVars, mkparVars
  <2>2. Generated /\ ListInv /\ PP!PackInv /\ vectors = Packed BY <2>1 DEF TablesInv, Finished
  <2>3. Generated' BY <2>1, <2>2, GeneratedStays
  <2>4. ListInv' BY <2>1, <2>2, ListInvStays
  <2>5. PP!PackInv' /\ vectors' = Packed'
    <3>1. PP!PackInv' /\ vectors' = vectors BY <1>5, <2>2, SamePacking DEF PackTable
    <3> QED BY <2>1, <2>2, <3>1, PackedStays DEF listVars
  <2>6. g'.backtrack => actrow' >= nstates' BY <2>1 DEF TablesInv, nstates, listVars
  <2> QED BY <2>1, <2>3, <2>4, <2>5, <2>6 DEF TablesInv, Finished
<1>6. CASE WriteTables
  <2>1. /\ phase = "pack_table" /\ phase' \in {"written", "fatal"}
        /\ UNCHANGED << g, firstDerives, states, shift, reds, this, pending, parser, final_state,
                        defred, fromState, toState, listVars >>
    BY <1>6 DEF WriteTables, lalrVars, gotoVars, mkparVars
  <2>2. Generated /\ ListInv /\ PP!PackInv /\ vectors = Packed BY <2>1 DEF TablesInv, Finished
  <2>3. CASE phase' = "written"
    <3>1. Generated' BY <2>1, <2>2, <2>3, GeneratedStays
    <3>2. ListInv' BY <2>1, <2>2, ListInvStays
    <3>3. TablesSound(tables)' /\ TablesPacked' BY <1>6, <2>2, <2>3, WriteTablesKeeps
    <3>4. g'.backtrack => actrow' >= nstates' BY <2>1 DEF TablesInv, nstates, listVars
    <3> QED BY <2>3, <3>1, <3>2, <3>3, <3>4 DEF TablesInv, Finished
  <2>4. CASE phase' = "fatal" BY <2>4 DEF TablesInv, Finished
  <2> QED BY <2>1, <2>3, <2>4
<1>7. CASE UNCHANGED << vars, outputVars >>
  <2>1. /\ UNCHANGED vars /\ phase' = phase
        /\ UNCHANGED << g, firstDerives, states, shift, reds, this, pending, parser, final_state,
                        defred, fromState, toState, listVars >>
        /\ UNCHANGED << PP!input, order, next, place, entry, base, table, check, maxtable, lowzero, high >>
        /\ UNCHANGED << tables, vectors, overflow >>
    BY <1>7 DEF vars, lr0Vars, lalrVars, gotoVars, mkparVars, outputVars, packVars, PP!input
  <2>2. ~Finished /\ phase # "fatal" => ActionsInv' /\ GotosInv' /\ NoLists'
    <3>1. NoLists => NoLists' BY <2>1 DEF NoLists, listVars
    <3> QED BY <2>1, <3>1, ActionsStep, GotosStep DEF TablesInv
  <2>3. Finished => Generated' /\ ListInv'
    <3>1. Finished => Generated' BY <2>1, GeneratedStays DEF TablesInv, Finished
    <3>2. Finished => ListInv' BY <2>1, ListInvStays DEF TablesInv
    <3> QED BY <3>1, <3>2
  <2>4. phase = "pack_table" => PP!PackInv' /\ vectors' = Packed'
    <3>1. PP!PackInv => PP!PackInv' BY <2>1, PP!StutterInv, TableAssumption
    <3> QED BY <2>1, <3>1, PackedStays DEF TablesInv, listVars
  <2>5. phase = "written" => TablesSound(tables)' /\ TablesPacked'
    <3>1. PICK t : t = tables OBVIOUS
    <3>2. TablesSound(t) => TablesSound(t)' BY <2>1, SoundStays
    <3>3. TablesPacked => TablesPacked'
      <4>1. PackedAll => PackedAll' BY <2>1, PackingStays DEF listVars
      <4>2. nstates' = nstates /\ base' = base BY <2>1 DEF nstates
      <4> QED BY <2>1, <4>1, <4>2 DEF TablesPacked
    <3> QED BY <2>1, <3>1, <3>2, <3>3 DEF TablesInv
  <2>6. phase \in {"pack_table", "written"} /\ g'.backtrack => actrow' >= nstates'
    BY <2>1 DEF TablesInv, nstates, listVars
  <2> QED BY <2>1, <2>2, <2>3, <2>4, <2>5, <2>6 DEF TablesInv, Finished
<1> QED BY <1>1, <1>2, <1>3, <1>4, <1>5, <1>6, <1>7 DEF GeneratorStep, OutputNext

-----------------------------------------------------------------------------
(***************************************************************************)
(* What the parser of -B finds in the written tables: for a state and a    *)
(* token, the list of all their rival actions.                             *)
(***************************************************************************)
Agrees(s, u) == \A k \in 1 .. Len(s) : k <= Len(u) /\ u[k] = s[k]

LEMMA IncreasingAgree ==
    ASSUME NEW S \in SUBSET Int, NEW s, NEW u, Increasing(s, S), Increasing(u, S)
    PROVE  Agrees(s, u)
<1>1. /\ Len(s) \in Nat /\ \A k \in 1 .. Len(s) : s[k] \in S
      /\ Len(u) \in Nat /\ \A k \in 1 .. Len(u) : u[k] \in S
  BY DEF Increasing
<1> DEFINE Bad == { k \in 1 .. Len(s) : ~(k <= Len(u) /\ u[k] = s[k]) }
<1>2. SUFFICES ASSUME Bad # {} PROVE FALSE BY DEF Agrees
<1>3. Bad \in SUBSET Nat BY <1>1
<1>4. PICK m \in Bad : \A k \in Bad : m <= k
  <2> HIDE DEF Bad
  <2> QED BY <1>2, <1>3, LeastExists
<1>5. m \in 1 .. Len(s) /\ ~(m <= Len(u) /\ u[m] = s[m]) OBVIOUS
<1>6. \A k \in 1 .. m - 1 : k \in 1 .. Len(s) /\ k \in 1 .. Len(u) /\ u[k] = s[k]
  <2> SUFFICES ASSUME NEW k \in 1 .. m - 1 PROVE k \in 1 .. Len(s) /\ k \in 1 .. Len(u) /\ u[k] = s[k]
    OBVIOUS
  <2>1. k \in 1 .. Len(s) /\ ~(m <= k) BY <1>1, <1>5
  <2>2. k \notin Bad BY <1>4, <2>1
  <2> QED BY <1>1, <2>1, <2>2
<1>7. PICK j \in 1 .. Len(u) : u[j] = s[m] BY <1>1, <1>5 DEF Increasing
<1>8. ~(j < m)
  <2> SUFFICES ASSUME j < m PROVE FALSE OBVIOUS
  <2>1. j \in 1 .. m - 1 BY <1>1, <1>5
  <2>2. s[j] = s[m] /\ j \in 1 .. Len(s) BY <1>6, <1>7, <2>1
  <2>3. j = m BY <1>5, <2>2 DEF Increasing
  <2> QED BY <1>1, <1>5, <2>3
<1>9. m \in 1 .. Len(u) /\ m < j BY <1>1, <1>5, <1>7, <1>8
<1>10. u[m] < s[m] BY <1>7, <1>9 DEF Increasing
<1>11. PICK k \in 1 .. Len(s) : s[k] = u[m] BY <1>1, <1>9 DEF Increasing
<1>12. k < m BY <1>5, <1>10, <1>11 DEF Increasing
<1>13. k \in 1 .. m - 1 BY <1>1, <1>5, <1>12
<1>14. k \in 1 .. Len(u) /\ u[k] = u[m] BY <1>6, <1>11, <1>13
<1>15. k = m BY <1>9, <1>14 DEF Increasing
<1> QED BY <1>1, <1>5, <1>12, <1>15

(* There is one way to put numbers in order. *)
LEMMA IncreasingSame ==
    ASSUME NEW S \in SUBSET Int, NEW s, NEW u, Increasing(s, S), Increasing(u, S)
    PROVE  Len(s) = Len(u) /\ \A k \in 1 .. Len(s) : s[k] = u[k]
<1>1. Agrees(s, u) /\ Agrees(u, s) BY IncreasingAgree
<1>2. Len(s) \in Nat /\ Len(u) \in Nat BY DEF Increasing
<1>3. Len(s) <= Len(u)
  <2>1. CASE Len(s) = 0 BY <1>2, <2>1
  <2>2. CASE Len(s) # 0
    <3>1. Len(s) \in 1 .. Len(s) BY <1>2, <2>2
    <3> QED BY <1>1, <3>1 DEF Agrees
  <2> QED BY <2>1, <2>2
<1>4. Len(u) <= Len(s)
  <2>1. CASE Len(u) = 0 BY <1>2, <2>1
  <2>2. CASE Len(u) # 0
    <3>1. Len(u) \in 1 .. Len(u) BY <1>2, <2>2
    <3> QED BY <1>1, <3>1 DEF Agrees
  <2> QED BY <2>1, <2>2
<1> QED BY <1>1, <1>2, <1>3, <1>4 DEF Agrees

(* A list is read up to its -1. *)
LEMMA ListFromIs ==
    ASSUME conflicts \in Seq(Int), NEW b \in Nat, NEW m \in Nat, b + m + 1 <= Len(conflicts),
           conflicts[b + m + 1] = -1, \A q \in 1 .. m : conflicts[b + q] # -1
    PROVE  Len(ListFrom(b + 1)) = m /\ \A q \in 1 .. m : ListFrom(b + 1)[q] = conflicts[b + q]
<1> PICK l : l = conflicts OBVIOUS
<1>1. l \in Seq(Int) /\ Len(l) \in Nat OBVIOUS
<1> DEFINE ends(e) == e \in b + 1 .. Len(l) /\ l[e] = -1 /\ \A d \in b + 1 .. e - 1 : l[d] # -1
<1>2. ends(b + m + 1)
  <2>1. b + m + 1 \in b + 1 .. Len(l) BY <1>1
  <2>2. ASSUME NEW d \in b + 1 .. b + m + 1 - 1 PROVE l[d] # -1
    <3>1. d - b \in 1 .. m /\ b + (d - b) = d OBVIOUS
    <3> QED BY <3>1
  <2> QED BY <2>1, <2>2
<1>3. \A e : ends(e) => e = b + m + 1
  <2> SUFFICES ASSUME NEW e, ends(e) PROVE e = b + m + 1 OBVIOUS
  <2>1. e \in Int /\ b + 1 <= e BY <1>1
  <2>2. ~(b + m + 1 < e)
    <3> SUFFICES ASSUME b + m + 1 < e PROVE FALSE OBVIOUS
    <3>1. b + m + 1 \in b + 1 .. e - 1 BY <2>1
    <3> QED BY <3>1
  <2>3. ~(e < b + m + 1)
    <3> SUFFICES ASSUME e < b + m + 1 PROVE FALSE OBVIOUS
    <3>1. e \in b + 1 .. b + m + 1 - 1 BY <2>1
    <3> QED BY <1>2, <3>1
  <2> QED BY <2>1, <2>2, <2>3
<1>4. PICK e : e = CHOOSE k \in b + 1 .. Len(l) : l[k] = -1 /\ \A d \in b + 1 .. k - 1 : l[d] # -1 OBVIOUS
<1>5. ends(e) BY <1>2, <1>4
<1>6. e = b + m + 1 BY <1>3, <1>5
<1>7. ListFrom(b + 1) = SubSeq(l, b + 1, e - 1) BY <1>4 DEF ListFrom
<1>8. e - 1 = b + m BY <1>6
<1>9. /\ b + 1 \in 1 .. Len(l) + 1 /\ b + m \in 0 .. Len(l) /\ b + 1 <= b + m + 1
      /\ b + m - (b + 1) + 1 = m
  BY <1>1
<1>10. /\ Len(SubSeq(l, b + 1, b + m)) = m
       /\ \A q \in 1 .. m : SubSeq(l, b + 1, b + m)[q] = l[b + 1 + q - 1]
  <2>1. PICK z, y : z = b + 1 /\ y = b + m OBVIOUS
  <2>2. z \in 1 .. Len(l) + 1 /\ y \in 0 .. Len(l) /\ z <= y + 1 /\ y - z + 1 = m BY <1>9, <2>1
  <2>3. Len(SubSeq(l, z, y)) = m /\ \A q \in 1 .. m : SubSeq(l, z, y)[q] = l[z + q - 1]
    BY <1>1, <2>2, PartOf
  <2> QED BY <2>1, <2>3
<1>11. \A q \in 1 .. m : b + 1 + q - 1 = b + q OBVIOUS
<1> QED BY <1>7, <1>8, <1>10, <1>11

LEMMA PrefixedIs ==
    ASSUME NEW S, NEW a \in S, NEW u \in Seq(S)
    PROVE  /\ << a >> \o u \in Seq(S) /\ Len(<< a >> \o u) = Len(u) + 1
           /\ (<< a >> \o u)[1] = a
           /\ \A k \in 1 .. Len(u) : (<< a >> \o u)[k + 1] = u[k]
<1>1. << a >> \in Seq(S) /\ Len(<< a >>) = 1 /\ << a >>[1] = a OBVIOUS
<1>2. PICK o : o = << a >> OBVIOUS
<1>3. o \in Seq(S) /\ Len(o) = 1 /\ o[1] = a BY <1>1, <1>2
<1>4. Len(u) \in Nat OBVIOUS
<1>5. /\ o \o u \in Seq(S) /\ Len(o \o u) = Len(u) + 1
      /\ \A q \in 1 .. Len(o) + Len(u) : (o \o u)[q] = IF q <= Len(o) THEN o[q] ELSE u[q - Len(o)]
  <2>1. /\ o \o u \in Seq(S) /\ Len(o \o u) = Len(o) + Len(u)
        /\ \A q \in 1 .. Len(o) + Len(u) : (o \o u)[q] = IF q <= Len(o) THEN o[q] ELSE u[q - Len(o)]
    BY <1>3, ConcatProperties
  <2>2. Len(o \o u) = Len(u) + 1 BY <1>3, <1>4, <2>1
  <2> QED BY <2>1, <2>2
<1>6. (o \o u)[1] = a BY <1>3, <1>4, <1>5
<1>7. ASSUME NEW k \in 1 .. Len(u) PROVE (o \o u)[k + 1] = u[k]
  <2>1. k + 1 \in 1 .. Len(o) + Len(u) /\ ~(k + 1 <= Len(o)) /\ k + 1 - Len(o) = k BY <1>3, <1>4
  <2> QED BY <1>5, <2>1
<1> QED BY <1>2, <1>5, <1>6, <1>7

Pair(a) == << a.action_code, a.number >>

(* Only the first of the rivals can be a shift. *)
LEMMA RivalFacts ==
    ASSUME Generated, NEW n \in DOMAIN states, NEW acts, acts = parser[n], NEW x, NEW rs,
           Increasing(rs, RivalsOf(acts, x))
    PROVE  /\ Len(rs) \in Nat
           /\ \A k \in 1 .. Len(rs) :
                 /\ acts[rs[k]].action_code \in {SHIFT, REDUCE} /\ acts[rs[k]].number \in Nat
                 /\ Code(acts[rs[k]]) \in Nat
                 /\ k # 1 => acts[rs[k]].action_code = REDUCE
<1>1. IsList(acts) /\ \A k \in 1 .. Len(acts) : OriginOK(n, acts[k]) BY DEF Generated, Origins
<1>2. Len(rs) \in Nat /\ \A k \in 1 .. Len(rs) : rs[k] \in RivalsOf(acts, x) BY DEF Increasing
<1>3. \A k \in 1 .. Len(rs) : rs[k] \in 1 .. Len(acts) /\ acts[rs[k]].symbol = x BY <1>2 DEF RivalsOf
<1>4. \A k \in 1 .. Len(acts) : acts[k].action_code \in {SHIFT, REDUCE} /\ acts[k].number \in Nat
  BY <1>1 DEF IsList, IsAction
<1>5. \A k \in 1 .. Len(acts) : Code(acts[k]) \in Nat
  <2>1. [y \in 0 .. g.ntokens - 1 |-> 0] \in [0 .. g.ntokens - 1 -> Nat] OBVIOUS
  <2> QED BY <2>1, ActionsListed DEF ListedActions
<1>6. ASSUME NEW k \in 1 .. Len(rs), k # 1 PROVE acts[rs[k]].action_code = REDUCE
  <2>1. 1 \in 1 .. Len(rs) /\ 1 < k BY <1>2, <1>6
  <2>2. rs[1] < rs[k] BY <2>1 DEF Increasing
  <2>3. PICK a, b : a = acts[rs[1]] /\ b = acts[rs[k]] OBVIOUS
  <2>4. ActionOrder(a, b) BY <1>1, <1>3, <2>1, <2>2, <2>3 DEF IsList
  <2>5. /\ a.action_code \in {SHIFT, REDUCE} /\ a.number \in Nat /\ a.symbol = x /\ OriginOK(n, a)
        /\ b.action_code \in {SHIFT, REDUCE} /\ b.number \in Nat /\ b.symbol = x /\ OriginOK(n, b)
    BY <1>1, <1>3, <1>4, <2>1, <2>3
  <2>6. x \in Nat BY <1>1, <1>3, <2>1 DEF IsList, IsAction
  <2> SUFFICES ASSUME b.action_code = SHIFT PROVE FALSE BY <2>3, <2>5
  <2>7. a.action_code = SHIFT /\ a.number < b.number BY <2>4, <2>5, <2>6 DEF ActionOrder, SHIFT, REDUCE
  <2>8. /\ Leads(n, a.number) /\ Accessing(a.number) = x
        /\ Leads(n, b.number) /\ Accessing(b.number) = x
    BY <2>5, <2>7 DEF OriginOK
  <2>9. a.number = b.number BY <2>8, Transitions DEF Generated
  <2> QED BY <2>5, <2>7, <2>9
<1> QED BY <1>2, <1>3, <1>4, <1>5, <1>6

(* The rivals as the property names them. *)
LEMMA RivalActionsAre ==
    ASSUME Generated, NEW n \in DOMAIN states, NEW acts, acts = parser[n], NEW x
    PROVE  \E rs : /\ Increasing(rs, RivalsOf(acts, x))
                   /\ RivalActions(n, x) = [k \in 1 .. Len(rs) |-> Pair(acts[rs[k]])]
<1>1. Len(acts) \in Nat /\ DOMAIN acts = 1 .. Len(acts) BY DEF Generated, Origins, IsList
<1>2. PICK S : S = { k \in DOMAIN acts : acts[k].symbol = x /\ acts[k].suppressed = 1 } OBVIOUS
<1>3. S = RivalsOf(acts, x) BY <1>1, <1>2 DEF RivalsOf
<1>4. IsFiniteSet(S) /\ \A k \in S : k \in Int
  <2>1. PICK m : m = Len(acts) OBVIOUS
  <2>2. IsFiniteSet(1 .. m)
    <3>1. 1 \in Int /\ m \in Int BY <1>1, <2>1
    <3> QED BY <3>1, FS_Interval
  <2>3. S \in SUBSET (1 .. m) BY <1>1, <1>2, <2>1
  <2>4. IsFiniteSet(S) BY <2>2, <2>3, FS_Subset
  <2>5. \A k \in S : k \in Int BY <1>1, <2>1, <2>3
  <2> QED BY <2>4, <2>5
<1>5. PICK rs : rs = InOrder(S, <) OBVIOUS
<1>6. Increasing(rs, S) BY <1>4, <1>5, NumbersInOrder
<1>7. DOMAIN rs = 1 .. Len(rs) BY <1>6 DEF Increasing
<1>8. RivalActions(n, x) = [k \in DOMAIN rs |-> << acts[rs[k]].action_code, acts[rs[k]].number >>]
  BY <1>2, <1>5 DEF RivalActions
<1> QED BY <1>3, <1>6, <1>7, <1>8 DEF Pair

(* What is read from a list that token_actions() wrote. *)
ReadFrom(c) ==
    IF conflicts[c] # -1 THEN << << SHIFT, conflicts[c] >> >> \o
             [k \in 1 .. Len(ListFrom(c)) - 1 |-> << REDUCE, ListFrom(c)[k + 1] + RULE_NUM_OFFSET >>]
    ELSE [k \in 1 .. Len(ListFrom(c + 1)) |-> << REDUCE, ListFrom(c + 1)[k] + RULE_NUM_OFFSET >>]

LEMMA ListIsRead ==
    ASSUME Generated, conflicts \in Seq(Int), NEW n \in DOMAIN states, NEW acts, acts = parser[n],
           NEW x, NEW e \in Int, e <= Len(conflicts), NEW c, IsConflictList(conflicts, c, acts, x, e)
    PROVE  ReadFrom(c) = RivalActions(n, x)
<1> PICK l : l = conflicts OBVIOUS
<1>1. PICK rs, b : /\ Increasing(rs, RivalsOf(acts, x))
                   /\ Entries(l, c, b, acts, rs)
                   /\ b + Len(rs) + 1 <= e /\ l[b + Len(rs) + 1] = -1
  BY DEF IsConflictList
<1>2. PICK us : /\ Increasing(us, RivalsOf(acts, x))
                /\ RivalActions(n, x) = [k \in 1 .. Len(us) |-> Pair(acts[us[k]])]
  BY RivalActionsAre
<1>3. RivalsOf(acts, x) \in SUBSET Int
  <2>1. Len(acts) \in Nat BY DEF Generated, Origins, IsList
  <2> QED BY <2>1 DEF RivalsOf
<1>4. Len(rs) = Len(us) /\ \A k \in 1 .. Len(rs) : rs[k] = us[k] BY <1>1, <1>2, <1>3, IncreasingSame
<1>5. PICK m : m = Len(rs) OBVIOUS
<1>6. PICK w : w = [k \in 1 .. m |-> Pair(acts[rs[k]])] OBVIOUS
<1>7. RivalActions(n, x) = w BY <1>2, <1>4, <1>5, <1>6
<1>8. /\ m \in Nat \ {0} /\ b \in Nat /\ c \in Nat \ {0} /\ Len(l) \in Nat
      /\ BeginsWith(l, c, b, acts[rs[1]])
      /\ \A q \in 1 .. m : l[b + q] = Code(acts[rs[q]])
  BY <1>1, <1>5 DEF Entries
<1>9. \A k \in 1 .. m : /\ acts[rs[k]].action_code \in {SHIFT, REDUCE} /\ acts[rs[k]].number \in Nat
                        /\ Code(acts[rs[k]]) \in Nat
                        /\ k # 1 => acts[rs[k]].action_code = REDUCE
  <2>1. \A k \in 1 .. Len(rs) :
          /\ acts[rs[k]].action_code \in {SHIFT, REDUCE} /\ acts[rs[k]].number \in Nat
          /\ Code(acts[rs[k]]) \in Nat
          /\ k # 1 => acts[rs[k]].action_code = REDUCE
    <3>1. Increasing(rs, RivalsOf(acts, x)) BY <1>1
    <3> QED BY <3>1, RivalFacts
  <2> QED BY <1>5, <2>1
<1>10. \A k \in 1 .. m : l[b + k] \in Nat /\ l[b + k] # -1
  <2>1. \A y \in Nat : y # -1 OBVIOUS
  <2>2. \A k \in 1 .. m : l[b + k] = Code(acts[rs[k]]) /\ Code(acts[rs[k]]) \in Nat BY <1>8, <1>9
  <2> QED BY <2>1, <2>2
<1>11. b + m + 1 <= Len(l) /\ l[b + m + 1] = -1 BY <1>1, <1>5, <1>8
<1>12. PICK z : z = ListFrom(b + 1) OBVIOUS
<1>13. Len(z) = m /\ \A q \in 1 .. m : z[q] = l[b + q] BY <1>8, <1>10, <1>11, <1>12, ListFromIs
<1>14. \A k \in 1 .. m : acts[rs[k]].action_code = REDUCE =>
          z[k] + RULE_NUM_OFFSET = acts[rs[k]].number
  <2> SUFFICES ASSUME NEW k \in 1 .. m, acts[rs[k]].action_code = REDUCE
               PROVE  z[k] + RULE_NUM_OFFSET = acts[rs[k]].number
    OBVIOUS
  <2>1. PICK a : a = acts[rs[k]] OBVIOUS
  <2>2. z[k] = Code(a) /\ a.number \in Nat /\ a.action_code = REDUCE BY <1>8, <1>9, <1>13, <2>1
  <2>3. Code(a) = a.number - 2 BY <2>2 DEF Code, SHIFT, REDUCE
  <2> QED BY <2>1, <2>2, <2>3 DEF RULE_NUM_OFFSET
<1>15. 1 \in 1 .. m BY <1>8
<1>16. CASE acts[rs[1]].action_code = SHIFT
  <2>1. b + 1 = c BY <1>8, <1>16 DEF BeginsWith, SHIFT, REDUCE
  <2>2. l[c] # -1 /\ l[c] = acts[rs[1]].number
    BY <1>8, <1>10, <1>15, <1>16, <2>1 DEF Code
  <2>3. PICK u : u = [k \in 1 .. m - 1 |-> << REDUCE, z[k + 1] + RULE_NUM_OFFSET >>] OBVIOUS
  <2>4. \A k \in 1 .. m - 1 : k + 1 \in 1 .. m /\ k + 1 # 1 BY <1>8
  <2>5. \A k \in 1 .. m - 1 : u[k] = Pair(acts[rs[k + 1]]) BY <1>9, <1>14, <2>3, <2>4 DEF Pair
  <2>6. PICK S : S = { Pair(acts[rs[k]]) : k \in 1 .. m } OBVIOUS
  <2>7. u \in Seq(S) /\ Len(u) = m - 1
    <3>1. \A k \in 1 .. m - 1 : u[k] \in S BY <2>4, <2>5, <2>6
    <3>2. m - 1 \in Nat BY <1>8
    <3>3. u \in [1 .. m - 1 -> S] BY <2>3, <3>1
    <3> QED BY <3>2, <3>3
  <2>8. PICK a : a = << SHIFT, l[c] >> OBVIOUS
  <2>9. a = Pair(acts[rs[1]]) /\ a \in S BY <1>15, <1>16, <2>2, <2>6, <2>8 DEF Pair
  <2>10. PICK v : v = << a >> \o u OBVIOUS
  <2>11. v \in Seq(S) /\ Len(v) = Len(u) + 1 /\ v[1] = a /\ \A k \in 1 .. Len(u) : v[k + 1] = u[k]
    BY <2>7, <2>9, <2>10, PrefixedIs
  <2>12. Len(v) = m BY <1>8, <2>7, <2>11
  <2>13. ASSUME NEW k \in 1 .. m PROVE v[k] = Pair(acts[rs[k]])
    <3>1. CASE k = 1 BY <2>9, <2>11, <3>1
    <3>2. CASE k # 1
      <4>1. k - 1 \in 1 .. m - 1 /\ k - 1 + 1 = k BY <1>8, <3>2
      <4> QED BY <2>5, <2>7, <2>11, <4>1
    <3> QED BY <3>1, <3>2
  <2>14. v = w
    <3>1. v = [k \in 1 .. m |-> v[k]] BY <2>11, <2>12
    <3> QED BY <1>6, <2>13, <3>1
  <2>15. ReadFrom(c) = v BY <1>12, <1>13, <2>1, <2>2, <2>3, <2>8, <2>10 DEF ReadFrom
  <2> QED BY <1>7, <2>14, <2>15
<1>17. CASE acts[rs[1]].action_code = REDUCE
  <2>1. b = c /\ l[c] = -1 BY <1>8, <1>17 DEF BeginsWith, SHIFT, REDUCE
  <2>2. PICK v : v = [k \in 1 .. m |-> << REDUCE, z[k] + RULE_NUM_OFFSET >>] OBVIOUS
  <2>3. \A k \in 1 .. m : v[k] = Pair(acts[rs[k]])
    <3>1. \A k \in 1 .. m : acts[rs[k]].action_code = REDUCE BY <1>9, <1>17
    <3> QED BY <1>14, <2>2, <3>1 DEF Pair
  <2>4. v = w BY <1>6, <2>2, <2>3
  <2>5. ReadFrom(c) = v BY <1>12, <1>13, <2>1, <2>2 DEF ReadFrom
  <2> QED BY <1>7, <2>4, <2>5
<1> QED BY <1>9, <1>15, <1>16, <1>17

(* No two tokens have one number: byacc gives them different ones, and a
   file that gives numbers itself must do so, too. *)
DistinctValues ==
    \A gr \in Grammars : \A x, y \in 0 .. gr.ntokens - 1 : gr.value[x] = gr.value[y] => x = y

(* The packed vector of the conflicts of state n has an entry for token x
   if it has rivals, the place of their list. *)
LEMMA ConflictsArePacked ==
    ASSUME Generated, ConflictRowsOK, PackedAll, DistinctValues, NEW n \in DOMAIN states,
           NEW x \in 0 .. g.ntokens - 1, NEW v, v = 2 * nstates + n, NEW f, f = g.value[x]
    PROVE  /\ PP!Finds(v, f) <=> conflictrow[n][x] # 0
           /\ PP!Finds(v, f) => table[base[v] + f] + 1 = conflictrow[n][x]
<1>1. NumbersOK /\ g \in Grammars BY NumbersFacts DEF Generated, Built, LR0Inv
<1>2. PICK r : r = conflictrow[n] OBVIOUS
<1>3. r \in [0 .. g.ntokens - 1 -> Nat] BY <1>2 DEF ConflictRowsOK
<1>4. v \in DOMAIN vectors /\ vectors[v] = RowVector(r, 1)
  BY <1>1, <1>2, PlacesOfVectors DEF PackedAll
<1>5. IsRow(vectors[v], r, 1) BY <1>2, <1>4, ConflictRowFacts DEF Generated
<1>6. PP!LookupOK(v) BY <1>4, PP!PackedFacts, TableAssumption DEF PackedAll
<1>7. f \in Nat BY <1>1 DEF NumbersOK
<1>8. PP!tally(v) = Len(vectors[v].from) BY DEF PP!tally
<1>9. ASSUME PP!Finds(v, f) PROVE r[x] # 0 /\ table[base[v] + f] + 1 = r[x]
  <2>1. PICK k \in 1 .. PP!tally(v) : vectors[v].from[k] = f /\ table[base[v] + f] = vectors[v].to[k]
    BY <1>6, <1>7, <1>9 DEF PP!LookupOK
  <2>2. PICK y \in 0 .. g.ntokens - 1 :
          r[y] # 0 /\ vectors[v].from[k] = g.value[y] /\ vectors[v].to[k] = r[y] - 1
    BY <1>5, <1>8, <2>1 DEF IsRow
  <2>3. y = x BY <1>1, <2>1, <2>2 DEF DistinctValues
  <2>4. r[x] \in Nat BY <1>3
  <2>5. table[base[v] + f] = r[x] - 1 BY <2>1, <2>2, <2>3
  <2> QED BY <2>2, <2>3, <2>4, <2>5
<1>10. ASSUME r[x] # 0 PROVE PP!Finds(v, f)
  <2>1. PICK k \in 1 .. Len(vectors[v].from) : vectors[v].from[k] = f BY <1>5, <1>10 DEF IsRow
  <2> QED BY <1>6, <1>8, <2>1 DEF PP!LookupOK
<1> QED BY <1>2, <1>9, <1>10

LEMMA TrialsAre ==
    ASSUME Generated, TablesPacked, NEW n \in DOMAIN states, NEW x \in 0 .. g.ntokens - 1,
           NEW v, v = 2 * nstates + n, NEW f, f = g.value[x]
    PROVE  Trials(n, x) = IF PP!Finds(v, f) THEN ReadFrom(table[base[v] + f] + 1) ELSE << >>
<1>1. SymbolValue(x) = f BY NumbersFacts DEF Generated, NumbersOK
<1>2. tables.cindex[n] = base[v] BY DEF TablesPacked
<1>3. PICK b, c : b = base[v] /\ c = table[base[v] + f] + 1 OBVIOUS
<1>4. Trials(n, x) = IF b = 0 \/ b + f \notin 0 .. high THEN << >>
                     ELSE IF check[b + f] # f THEN << >> ELSE ReadFrom(c)
  BY <1>1, <1>2, <1>3 DEF Trials, ReadFrom
<1>5. PP!Finds(v, f) <=> b # 0 /\ b + f \in 0 .. high /\ check[b + f] = f BY <1>3 DEF PP!Finds
<1> QED BY <1>3, <1>4, <1>5

LEMMA ListsAreExact ==
    ASSUME Generated, ListInv, TablesPacked, DistinctValues, actrow >= nstates,
           NEW n \in DOMAIN states, defred[n] = 0, NEW x \in 0 .. g.ntokens - 1
    PROVE  Trials(n, x) = RivalActions(n, x)
<1>1. PICK v, f : v = 2 * nstates + n /\ f = g.value[x] OBVIOUS
<1>2. PICK acts, r : acts = parser[n] /\ r = conflictrow[n] OBVIOUS
<1>3. ConflictRowsOK /\ PackedAll BY DEF ListInv, TablesPacked
<1>4. /\ PP!Finds(v, f) <=> r[x] # 0
      /\ PP!Finds(v, f) => table[base[v] + f] + 1 = r[x]
  BY <1>1, <1>2, <1>3, ConflictsArePacked
<1>5. Trials(n, x) = IF PP!Finds(v, f) THEN ReadFrom(table[base[v] + f] + 1) ELSE << >> BY <1>1, TrialsAre
<1>6. PICK e : e = Stable(conflicts, cbase) OBVIOUS
<1>7. RowDone(conflicts, cbase, acts, defred[n], r)
  <2>1. DOMAIN states = 0 .. nstates - 1 /\ nstates \in Nat BY NumbersFacts DEF Generated, NumbersOK, Numbered
  <2>2. n < actrow BY <2>1 DEF ListInv
  <2> QED BY <1>2, <2>2 DEF ListInv, RowsInv
<1>8. x \in DOMAIN r BY <1>2, <1>3 DEF ConflictRowsOK
<1>9. /\ r[x] # 0 <=> RivalsOf(acts, x) # {}
      /\ r[x] # 0 => IsConflictList(conflicts, r[x], acts, x, e)
  BY <1>6, <1>7, <1>8 DEF RowDone
<1>10. conflicts \in Seq(Int) /\ e \in Int /\ e <= Len(conflicts) BY <1>6 DEF ListInv, ListsOK, Stable
<1>11. CASE r[x] # 0
  <2>1. ReadFrom(r[x]) = RivalActions(n, x) BY <1>2, <1>9, <1>10, <1>11, ListIsRead
  <2> QED BY <1>4, <1>5, <1>11, <2>1
<1>12. CASE r[x] = 0
  <2>1. PICK rs : /\ Increasing(rs, RivalsOf(acts, x))
                  /\ RivalActions(n, x) = [k \in 1 .. Len(rs) |-> Pair(acts[rs[k]])]
    BY <1>2, RivalActionsAre
  <2>2. Len(rs) \in Nat /\ \A k \in 1 .. Len(rs) : rs[k] \in {} BY <1>9, <1>12, <2>1 DEF Increasing
  <2>3. 1 .. Len(rs) = {} BY <2>2
  <2>4. RivalActions(n, x) = << >>
    <3>1. RivalActions(n, x) \in [1 .. 0 -> {}] BY <2>1, <2>3
    <3>2. << >> \in [1 .. 0 -> {}] OBVIOUS
    <3> QED BY <3>1, <3>2
  <2> QED BY <1>4, <1>5, <1>12, <2>4
<1> QED BY <1>11, <1>12

-----------------------------------------------------------------------------
(***************************************************************************)
(* What token_actions() needs of conflicts[].  Of the counted trials U     *)
(* those before position p of state n have been met, some of them in the   *)
(* list of token s that is begun; a list that has ended took three entries *)
(* a counted trial at most: two trials, one of them not counted, and a -1. *)
(***************************************************************************)
Met(U, n, p) == { u \in U : u[1] < n \/ (u[1] = n /\ u[2] < p) }
InList(U, n, p, s) == { u \in U : u[1] = n /\ u[2] < p /\ parser[n][u[2]].symbol = s }
Uncounted(U, n, p, s) ==
    IF \E k \in 1 .. p - 1 : IsTrial(parser[n], k) /\ parser[n][k].symbol = s /\ << n, k >> \notin U
    THEN 1 ELSE 0

Room(U, n, p, s) ==
    3 * Cardinality(Met(U, n, p) \ InList(U, n, p, s)) + 1
        + Cardinality(InList(U, n, p, s)) + Uncounted(U, n, p, s)

Fits(U) == Len(conflicts) <= Room(U, actrow, actpos, csym) /\ most <= 4 * Cardinality(U)

LEMMA RoomFacts ==
    ASSUME NEW U, IsFiniteSet(U), NEW n, NEW p, NEW s
    PROVE  /\ IsFiniteSet(InList(U, n, p, s)) /\ IsFiniteSet(Met(U, n, p) \ InList(U, n, p, s))
           /\ Cardinality(InList(U, n, p, s)) \in Nat
           /\ Cardinality(Met(U, n, p) \ InList(U, n, p, s)) \in Nat
           /\ Cardinality(U) \in Nat /\ Cardinality(Met(U, n, p)) \in Nat
           /\ Cardinality(Met(U, n, p)) <= Cardinality(U)
           /\ Cardinality(Met(U, n, p))
                 = Cardinality(Met(U, n, p) \ InList(U, n, p, s)) + Cardinality(InList(U, n, p, s))
           /\ Uncounted(U, n, p, s) \in {0, 1} /\ Room(U, n, p, s) \in Nat
<1>1. PICK A, B : A = Met(U, n, p) /\ B = InList(U, n, p, s) OBVIOUS
<1>2. A \subseteq U /\ B \subseteq A BY <1>1 DEF Met, InList
<1>3. IsFiniteSet(A) /\ Cardinality(A) <= Cardinality(U) BY <1>2, FS_Subset
<1>4. IsFiniteSet(B) BY <1>2, <1>3, FS_Subset
<1>5. IsFiniteSet(A \ B) /\ Cardinality(A \ B) = Cardinality(A) - Cardinality(A \cap B)
  BY <1>3, FS_Difference
<1>6. A \cap B = B BY <1>2
<1>7. Cardinality(U) \in Nat /\ Cardinality(A) \in Nat /\ Cardinality(B) \in Nat /\ Cardinality(A \ B) \in Nat
  BY <1>3, <1>4, <1>5, FS_CardinalityType
<1>8. Cardinality(A) = Cardinality(A \ B) + Cardinality(B) BY <1>5, <1>6, <1>7
<1>9. Uncounted(U, n, p, s) \in {0, 1} BY DEF Uncounted
<1>10. Room(U, n, p, s) = 3 * Cardinality(A \ B) + 1 + Cardinality(B) + Uncounted(U, n, p, s)
  BY <1>1 DEF Room
<1> QED BY <1>1, <1>3, <1>4, <1>5, <1>7, <1>8, <1>9, <1>10

(* The state token_actions() is in, and what is counted of it. *)
LEMMA TrialsInHand ==
    ASSUME Generated, ListInv, Listing, NEW U, Counted(U)
    PROVE  LET acts == parser[actrow]
           IN  /\ IsList(acts) /\ actrow \in Nat /\ Len(acts) \in Nat /\ actpos \in 1 .. Len(acts) + 1
               /\ \A k \in 1 .. Len(acts) : acts[k].symbol \in Nat
               /\ IsFiniteSet(U)
               /\ \A u \in U : /\ u = << u[1], u[2] >> /\ u[1] \in Nat /\ u[2] \in Nat
                               /\ u[1] = actrow => u[2] \in 1 .. Len(acts) /\ IsTrial(acts, u[2])
               /\ \A k \in 1 .. Len(acts) : IsTrial(acts, k) /\ << actrow, k >> \notin U =>
                     /\ \E l \in 1 .. Len(acts) : << actrow, l >> \in U /\ acts[l].symbol = acts[k].symbol
                     /\ \A m \in 1 .. Len(acts) \ {k} :
                           IsTrial(acts, m) /\ acts[m].symbol = acts[k].symbol => << actrow, m >> \in U
<1>1. PICK acts, V : acts = parser[actrow] /\ V = CountedIn(U, actrow) OBVIOUS
<1>2. /\ actrow \in DOMAIN states /\ actrow \in Nat /\ IsList(acts)
      /\ actpos \in 1 .. Len(acts) + 1
  BY <1>1, RowInHand DEF ListedActions, RowBegun
<1>3. DOMAIN parser = DOMAIN states /\ \A n \in DOMAIN states : n \in Nat
  BY NumbersFacts DEF Generated, Origins, NumbersOK, Numbered
<1>4. RowCounted(acts, V) BY <1>1, <1>2, <1>3 DEF Counted
<1>5. Len(acts) \in Nat /\ \A k \in 1 .. Len(acts) : acts[k].symbol \in Nat BY <1>2 DEF IsList, IsAction
<1>6. \A u \in U : /\ u = << u[1], u[2] >> /\ u[1] \in Nat /\ u[2] \in Nat
                   /\ u[1] = actrow => u[2] \in 1 .. Len(acts) /\ IsTrial(acts, u[2])
  <2> SUFFICES ASSUME NEW u \in U
               PROVE  /\ u = << u[1], u[2] >> /\ u[1] \in Nat /\ u[2] \in Nat
                      /\ u[1] = actrow => u[2] \in 1 .. Len(acts) /\ IsTrial(acts, u[2]) OBVIOUS
  <2>1. u = << u[1], u[2] >> /\ u[1] \in Nat /\ u[2] \in Nat BY <1>3 DEF Counted
  <2>2. u[1] = actrow => u[2] \in V BY <1>1, <2>1 DEF CountedIn
  <2> QED BY <1>4, <2>1, <2>2 DEF RowCounted
<1>7. \A k \in Nat : k \in V <=> << actrow, k >> \in U BY <1>1 DEF CountedIn
<1>8. ASSUME NEW k \in 1 .. Len(acts), IsTrial(acts, k), << actrow, k >> \notin U
      PROVE  /\ \E l \in 1 .. Len(acts) : << actrow, l >> \in U /\ acts[l].symbol = acts[k].symbol
             /\ \A m \in 1 .. Len(acts) \ {k} :
                   IsTrial(acts, m) /\ acts[m].symbol = acts[k].symbol => << actrow, m >> \in U
  <2>1. k \in 1 .. Len(acts) \ V BY <1>5, <1>7, <1>8
  <2>2. /\ \E l \in V : SameSymbol(acts, l, k)
        /\ \A m \in 1 .. Len(acts) \ {k} : IsTrial(acts, m) /\ SameSymbol(acts, m, k) => m \in V
    BY <1>4, <1>8, <2>1 DEF RowCounted
  <2>3. \A l \in V : l \in 1 .. Len(acts) /\ << actrow, l >> \in U BY <1>4, <1>5, <1>7 DEF RowCounted
  <2> QED BY <2>2, <2>3 DEF SameSymbol
<1>9. IsFiniteSet(U) BY DEF Counted
<1> QED BY <1>1, <1>2, <1>5, <1>6, <1>8, <1>9

(* An entry is added for a trial. *)
LEMMA RoomAdd ==
    ASSUME Generated, ListInv, Listing, NEW U, Counted(U), ~RowEnds, ~ListEnds, IsRival
    PROVE  Room(U, actrow, actpos + 1, Act.symbol) >= Room(U, actrow, actpos, csym) + 1
<1>1. PICK acts, n, p, s, x : acts = parser[actrow] /\ n = actrow /\ p = actpos /\ s = csym /\ x = acts[p].symbol
  OBVIOUS
<1>2. /\ IsList(acts) /\ n \in Nat /\ Len(acts) \in Nat /\ p \in 1 .. Len(acts) + 1
      /\ \A k \in 1 .. Len(acts) : acts[k].symbol \in Nat
      /\ IsFiniteSet(U)
      /\ \A u \in U : /\ u = << u[1], u[2] >> /\ u[1] \in Nat /\ u[2] \in Nat
                      /\ u[1] = n => u[2] \in 1 .. Len(acts) /\ IsTrial(acts, u[2])
      /\ \A k \in 1 .. Len(acts) : IsTrial(acts, k) /\ << n, k >> \notin U =>
            \A m \in 1 .. Len(acts) \ {k} :
                IsTrial(acts, m) /\ acts[m].symbol = acts[k].symbol => << n, m >> \in U
  BY <1>1, TrialsInHand
<1>3. p \in 1 .. Len(acts) /\ IsTrial(acts, p) /\ (s = -1 \/ s = x) /\ x \in Nat
  <2>1. ~(p > Len(acts)) BY <1>1 DEF RowEnds
  <2>2. acts[p].suppressed = 1 /\ (s = -1 \/ s = x) BY <1>1 DEF IsRival, ListEnds, Act
  <2> QED BY <1>1, <1>2, <2>1, <2>2 DEF IsTrial
<1>4. \A k \in 1 .. p - 1 : IsTrial(acts, k) /\ acts[k].symbol = x => s = x
  <2> SUFFICES ASSUME NEW k \in 1 .. p - 1, IsTrial(acts, k), acts[k].symbol = x PROVE s = x OBVIOUS
  <2>1. PICK r : r = conflictrow[actrow] OBVIOUS
  <2>2. RowBegun(conflicts, cbase, acts, defred[actrow], r, p, s) /\ ListedActions(acts, r)
    BY <1>1, <2>1, RowInHand
  <2>3. acts[k].symbol = s \/ r[x] # 0 BY <2>2 DEF RowBegun, IsTrial
  <2>4. x \in DOMAIN r BY <1>1, <1>3, <2>2 DEF ListedActions
  <2>5. r[x] # 0 => \A m \in p .. Len(acts) : acts[m].symbol # x BY <2>2, <2>4 DEF RowBegun
  <2>6. p \in p .. Len(acts) BY <1>2, <1>3
  <2> QED BY <1>1, <2>3, <2>5, <2>6
<1> PICK e : e = << n, p >> OBVIOUS
<1> PICK A, B, A2, B2 : /\ A = Met(U, n, p) /\ B = InList(U, n, p, s)
                        /\ A2 = Met(U, n, p + 1) /\ B2 = InList(U, n, p + 1, x)
  OBVIOUS
<1>5. \A u \in U : u[1] = n /\ u[2] < p + 1 <=> (u[1] = n /\ u[2] < p) \/ u = e
  BY <1>2, <1>3
<1>6. B2 = B \cup (U \cap {e})
  <2>1. \A u \in U : u[1] = n /\ u[2] < p /\ acts[u[2]].symbol = x
                     <=> u[1] = n /\ u[2] < p /\ acts[u[2]].symbol = s
    <3> SUFFICES ASSUME NEW u \in U, u[1] = n, u[2] < p
                 PROVE  acts[u[2]].symbol = x <=> acts[u[2]].symbol = s OBVIOUS
    <3>1. u[2] \in 1 .. p - 1 /\ IsTrial(acts, u[2]) /\ acts[u[2]].symbol \in Nat BY <1>2
    <3> QED BY <1>3, <1>4, <3>1
  <2>2. e[1] = n /\ e[2] = p /\ acts[e[2]].symbol = x BY <1>1
  <2> QED BY <1>1, <1>5, <2>1, <2>2 DEF InList
<1>7. A2 \ B2 = A \ B
  <2>1. A2 = A \cup (U \cap {e}) BY <1>5 DEF Met
  <2>2. e \notin A BY <1>2 DEF Met
  <2> QED BY <1>6, <2>1, <2>2
<1>8. e \notin B BY <1>2 DEF InList
<1>9. /\ IsFiniteSet(B) /\ Cardinality(B) \in Nat /\ Cardinality(A \ B) \in Nat /\ Cardinality(B2) \in Nat
      /\ Uncounted(U, n, p, s) \in {0, 1} /\ Uncounted(U, n, p + 1, x) \in {0, 1}
  BY <1>2, RoomFacts
<1>10. /\ Room(U, n, p, s) = 3 * Cardinality(A \ B) + 1 + Cardinality(B) + Uncounted(U, n, p, s)
       /\ Room(U, n, p + 1, x) = 3 * Cardinality(A2 \ B2) + 1 + Cardinality(B2) + Uncounted(U, n, p + 1, x)
  BY DEF Room
<1> PICK a, b, b2, z, z2 : /\ a = Cardinality(A \ B) /\ b = Cardinality(B) /\ b2 = Cardinality(B2)
                           /\ z = Uncounted(U, n, p, s) /\ z2 = Uncounted(U, n, p + 1, x)
  OBVIOUS
<1>n. a \in Nat /\ b \in Nat /\ b2 \in Nat /\ z \in {0, 1} /\ z2 \in {0, 1} BY <1>9
<1>r. /\ Room(U, actrow, actpos, csym) = 3 * a + 1 + b + z
      /\ Room(U, actrow, actpos + 1, Act.symbol) = 3 * a + 1 + b2 + z2
  BY <1>1, <1>7, <1>10 DEF Act
<1>11. CASE e \in U
  <2>1. B2 = B \cup {e} BY <1>6, <1>11
  <2>2. Cardinality(B2) = Cardinality(B) + 1 BY <1>8, <1>9, <2>1, FS_AddElement
  <2>3. Uncounted(U, n, p, s) = 1 => Uncounted(U, n, p + 1, x) = 1
    <3> SUFFICES ASSUME Uncounted(U, n, p, s) = 1 PROVE Uncounted(U, n, p + 1, x) = 1 OBVIOUS
    <3>1. PICK k \in 1 .. p - 1 : IsTrial(acts, k) /\ acts[k].symbol = s /\ << n, k >> \notin U
      <4>1. Uncounted(U, n, p, s)
              = IF \E k \in 1 .. p - 1 : IsTrial(acts, k) /\ acts[k].symbol = s /\ << n, k >> \notin U THEN 1 ELSE 0
        BY <1>1 DEF Uncounted
      <4>2. 0 # 1 OBVIOUS
      <4> QED BY <4>1, <4>2
    <3>2. k \in 1 .. Len(acts) BY <1>2, <1>3
    <3>3. s = x BY <1>2, <1>3, <3>1, <3>2
    <3>4. k \in 1 .. (p + 1) - 1 BY <1>2
    <3> QED BY <1>1, <3>1, <3>3, <3>4 DEF Uncounted
  <2>4. Uncounted(U, n, p + 1, x) >= Uncounted(U, n, p, s) BY <1>9, <2>3
  <2>5. b2 = b + 1 /\ z2 >= z BY <2>2, <2>4
  <2> QED BY <1>n, <1>r, <2>5
<1>12. CASE e \notin U
  <2>1. B2 = B BY <1>6, <1>12
  <2>2. Uncounted(U, n, p + 1, x) = 1
    <3>1. p \in 1 .. (p + 1) - 1 BY <1>2
    <3> QED BY <1>1, <1>3, <1>12, <3>1 DEF Uncounted
  <2>3. Uncounted(U, n, p, s) = 0
    <3> SUFFICES ASSUME NEW k \in 1 .. p - 1, IsTrial(acts, k), acts[k].symbol = s, << n, k >> \notin U
                 PROVE  FALSE
      BY <1>1 DEF Uncounted
    <3>1. k \in 1 .. Len(acts) /\ k # p BY <1>2, <1>3
    <3>2. acts[k].symbol = x BY <1>2, <1>3, <3>1
    <3> QED BY <1>1, <1>2, <1>3, <1>12, <3>1, <3>2
  <2>4. b2 = b /\ z2 = 1 /\ z = 0 BY <2>1, <2>2, <2>3
  <2> QED BY <1>n, <1>r, <2>4
<1> QED BY <1>11, <1>12

(* An action that is no trial is passed, or the state is left. *)
LEMMA RoomPass ==
    ASSUME Generated, ListInv, Listing, NEW U, Counted(U), ~RowEnds, ~IsRival
    PROVE  Room(U, actrow, actpos + 1, csym) = Room(U, actrow, actpos, csym)
<1>1. PICK acts, n, p, s : acts = parser[actrow] /\ n = actrow /\ p = actpos /\ s = csym
  OBVIOUS
<1>2. /\ n \in Nat /\ Len(acts) \in Nat /\ p \in 1 .. Len(acts) + 1
      /\ \A u \in U : /\ u = << u[1], u[2] >> /\ u[1] \in Nat /\ u[2] \in Nat
                      /\ u[1] = n => u[2] \in 1 .. Len(acts) /\ IsTrial(acts, u[2])
  BY <1>1, TrialsInHand
<1>3. ~IsTrial(acts, p) BY <1>1 DEF IsRival, Act, IsTrial
<1>4. \A u \in U : u[1] = n /\ u[2] < p + 1 <=> u[1] = n /\ u[2] < p BY <1>2, <1>3
<1>5. Met(U, n, p + 1) = Met(U, n, p) /\ InList(U, n, p + 1, s) = InList(U, n, p, s)
  BY <1>4 DEF Met, InList
<1>6. Uncounted(U, n, p + 1, s) = Uncounted(U, n, p, s)
  <2>1. \A k : k \in 1 .. (p + 1) - 1 <=> k \in 1 .. p - 1 \/ k = p BY <1>2
  <2> QED BY <1>1, <1>3, <2>1 DEF Uncounted
<1> QED BY <1>1, <1>5, <1>6 DEF Room

LEMMA RoomNext ==
    ASSUME Generated, ListInv, Listing, NEW U, Counted(U), RowEnds, csym = -1
    PROVE  Room(U, actrow + 1, 1, csym) = Room(U, actrow, actpos, csym)
<1>1. PICK acts, n, p : acts = parser[actrow] /\ n = actrow /\ p = actpos OBVIOUS
<1>2. /\ n \in Nat /\ Len(acts) \in Nat /\ p \in 1 .. Len(acts) + 1
      /\ \A k \in 1 .. Len(acts) : acts[k].symbol \in Nat
      /\ \A u \in U : /\ u = << u[1], u[2] >> /\ u[1] \in Nat /\ u[2] \in Nat
                      /\ u[1] = n => u[2] \in 1 .. Len(acts) /\ IsTrial(acts, u[2])
  BY <1>1, TrialsInHand
<1>3. p > Len(acts) BY <1>1 DEF RowEnds
<1>4. Met(U, n + 1, 1) = Met(U, n, p)
  <2>1. \A u \in U : u[1] < n + 1 \/ (u[1] = n + 1 /\ u[2] < 1) <=> u[1] < n \/ (u[1] = n /\ u[2] < p)
    <3> SUFFICES ASSUME NEW u \in U
                 PROVE  u[1] < n + 1 \/ (u[1] = n + 1 /\ u[2] < 1) <=> u[1] < n \/ (u[1] = n /\ u[2] < p)
      OBVIOUS
    <3>1. u[1] \in Nat /\ u[2] \in Nat /\ (u[1] = n => u[2] < p) BY <1>2, <1>3
    <3>2. ~(u[1] = n + 1 /\ u[2] < 1)
      <4>1. CASE n + 1 \in DOMAIN parser
        <5>1. u[1] = n + 1 => u[2] \in CountedIn(U, n + 1) BY <1>2 DEF CountedIn
        <5>2. \A k \in CountedIn(U, n + 1) : k \in 1 .. Len(parser[n + 1])
          BY <4>1 DEF Counted, RowCounted
        <5> QED BY <5>1, <5>2
      <4>2. CASE n + 1 \notin DOMAIN parser BY <4>2 DEF Counted
      <4> QED BY <4>1, <4>2
    <3> QED BY <1>2, <3>1, <3>2
  <2> QED BY <2>1 DEF Met
<1>5. InList(U, n + 1, 1, -1) = {}
  <2> SUFFICES ASSUME NEW u \in U, u[1] = n + 1, u[2] < 1 PROVE FALSE BY DEF InList
  <2>1. u \in Met(U, n + 1, 1) BY DEF Met
  <2>2. u \in Met(U, n, p) BY <1>4, <2>1
  <2> QED BY <1>2, <2>2 DEF Met
<1>6. InList(U, n, p, -1) = {} BY <1>1, <1>2 DEF InList
<1>7. Uncounted(U, n + 1, 1, -1) = 0 /\ Uncounted(U, n, p, -1) = 0
  <2>1. \A k \in 1 .. p - 1 : acts[k].symbol # -1 BY <1>2
  <2>2. 1 .. 1 - 1 = {} OBVIOUS
  <2> QED BY <1>1, <2>1, <2>2 DEF Uncounted
<1> QED BY <1>1, <1>4, <1>5, <1>6, <1>7 DEF Room

(* A list ends with one entry more; one of its trials is counted. *)
LEMMA RoomEnd ==
    ASSUME Generated, ListInv, Listing, NEW U, Counted(U), ListEnds
    PROVE  /\ Room(U, actrow, actpos, csym) + 1 <= Room(U, actrow, actpos, -1)
           /\ Room(U, actrow, actpos, csym) + 1 <= 4 * Cardinality(U)
<1>1. PICK acts, n, p, s : acts = parser[actrow] /\ n = actrow /\ p = actpos /\ s = csym
  OBVIOUS
<1>2. /\ IsList(acts) /\ n \in Nat /\ Len(acts) \in Nat /\ p \in 1 .. Len(acts) + 1
      /\ \A k \in 1 .. Len(acts) : acts[k].symbol \in Nat
      /\ IsFiniteSet(U)
      /\ \A u \in U : /\ u = << u[1], u[2] >> /\ u[1] \in Nat /\ u[2] \in Nat
                      /\ u[1] = n => u[2] \in 1 .. Len(acts) /\ IsTrial(acts, u[2])
      /\ \A k \in 1 .. Len(acts) : IsTrial(acts, k) /\ << n, k >> \notin U =>
            \E l \in 1 .. Len(acts) : << n, l >> \in U /\ acts[l].symbol = acts[k].symbol
  BY <1>1, TrialsInHand
<1>3. s # -1 /\ (p > Len(acts) \/ acts[p].symbol # s) BY <1>1 DEF ListEnds, RowEnds, Act
<1>4. PICK k \in 1 .. p - 1 : IsTrial(acts, k) /\ acts[k].symbol = s
  <2>1. RowBegun(conflicts, cbase, acts, defred[actrow], conflictrow[actrow], p, s) BY <1>1, RowInHand
  <2> QED BY <1>3, <2>1 DEF RowBegun, IsTrial
<1>5. k \in 1 .. Len(acts) BY <1>2
<1>6. PICK l \in 1 .. Len(acts) : << n, l >> \in U /\ acts[l].symbol = s BY <1>2, <1>4, <1>5
<1>7. l < p
  <2> SUFFICES ASSUME ~(l < p) PROVE FALSE OBVIOUS
  <2>1. p \in 1 .. Len(acts) /\ p <= l /\ k <= p BY <1>2, <1>4
  <2>2. acts[p].symbol <= acts[l].symbol /\ acts[k].symbol <= acts[p].symbol BY <1>2, <1>5, <2>1, BySymbol
  <2>3. acts[p].symbol = s BY <1>2, <1>4, <1>5, <1>6, <2>1, <2>2
  <2> QED BY <1>2, <1>3, <2>1, <2>3
<1> PICK A, B : A = Met(U, n, p) /\ B = InList(U, n, p, s) OBVIOUS
<1>8. /\ Cardinality(B) \in Nat /\ Cardinality(A \ B) \in Nat /\ Cardinality(U) \in Nat /\ Cardinality(A) \in Nat
      /\ Cardinality(A) = Cardinality(A \ B) + Cardinality(B) /\ Cardinality(A) <= Cardinality(U)
      /\ Uncounted(U, n, p, s) \in {0, 1} /\ IsFiniteSet(B)
  <2>1. IsFiniteSet(U) BY <1>2
  <2> QED BY <2>1, RoomFacts
<1>9. Cardinality(B) >= 1
  <2>1. << n, l >> \in B BY <1>1, <1>6, <1>7 DEF InList
  <2>2. Cardinality(B) # 0 BY <1>8, <2>1, FS_EmptySet
  <2> QED BY <1>8, <2>2
<1>10. Room(U, n, p, s) = 3 * Cardinality(A \ B) + 1 + Cardinality(B) + Uncounted(U, n, p, s) BY DEF Room
<1>11. Room(U, n, p, -1) = 3 * Cardinality(A) + 1
  <2>1. InList(U, n, p, -1) = {} BY <1>1, <1>2 DEF InList
  <2>2. Uncounted(U, n, p, -1) = 0
    <3>1. \A j \in 1 .. p - 1 : acts[j].symbol # -1 BY <1>2
    <3> QED BY <1>1, <3>1 DEF Uncounted
  <2>3. Cardinality({}) = 0 /\ A \ {} = A BY FS_EmptySet
  <2>4. Room(U, n, p, -1) = 3 * Cardinality(A \ {}) + 1 + Cardinality({}) + 0 BY <2>1, <2>2 DEF Room
  <2>5. PICK y : y = Cardinality(A) OBVIOUS
  <2>6. Room(U, n, p, -1) = 3 * y + 1 + 0 + 0 /\ y \in Nat BY <1>8, <2>3, <2>4, <2>5
  <2> QED BY <2>5, <2>6
<1>12. PICK a, b, c, u, z : /\ a = Cardinality(A \ B) /\ b = Cardinality(B) /\ c = Cardinality(A)
                            /\ u = Cardinality(U) /\ z = Uncounted(U, n, p, s)
  OBVIOUS
<1>13. /\ a \in Nat /\ b \in Nat /\ c \in Nat /\ u \in Nat /\ z \in {0, 1} /\ b >= 1
       /\ c = a + b /\ c <= u
  BY <1>8, <1>9, <1>12
<1>14. 3 * a + 1 + b + z + 1 <= 3 * c + 1 /\ 3 * a + 1 + b + z + 1 <= 4 * u BY <1>13
<1> QED BY <1>1, <1>10, <1>11, <1>12, <1>14

LEMMA FitsStays ==
    ASSUME NEW U, Counted(U), Fits(U), UNCHANGED << parser, SRtotal, RRtotal, listVars >>
    PROVE  Counted(U)' /\ Fits(U)'
<1>1. Counted(U)' BY CountedStays
<1>2. UNCHANGED << conflicts, most, actrow, actpos, csym >> BY DEF listVars
<1>3. Room(U, actrow, actpos, csym)' = Room(U, actrow, actpos, csym)
  BY <1>2 DEF Room, Met, InList, Uncounted, IsTrial
<1> QED BY <1>1, <1>2, <1>3 DEF Fits

(* The room in the next state, with the actions that do not change. *)
LEMMA RoomStays ==
    ASSUME UNCHANGED parser, NEW U, NEW n, NEW p, NEW s
    PROVE  Room(U, n, p, s)' = Room(U, n, p, s)
BY DEF Room, Met, InList, Uncounted, IsTrial

LEMMA LengthAdded ==
    ASSUME ListsOK(conflicts, cbase), AddRival, NEW m \in Nat, Len(conflicts) <= m, m >= 1
    PROVE  Len(conflicts') <= m + 1
<1>1. conflicts \in Seq(Int) /\ Len(conflicts) \in Nat BY DEF ListsOK
<1>2. \A x : Len(Append(conflicts, x)) = Len(conflicts) + 1 BY <1>1
<1>3. \A x, y : Len(<< x, y >>) = 2 OBVIOUS
<1>4. \/ \E x : conflicts' = Append(conflicts, x)
      \/ conflicts' = conflicts
      \/ \E x, y : conflicts' = << x, y >>
  BY DEF AddRival, MarkReductions
<1>5. PICK l2 : l2 = conflicts' OBVIOUS
<1>6. \/ Len(l2) = Len(conflicts) + 1 \/ Len(l2) = Len(conflicts) \/ Len(l2) = 2
  BY <1>2, <1>3, <1>4, <1>5
<1>7. PICK t, u : t = Len(conflicts) /\ u = Len(l2) OBVIOUS
<1>8. t \in Nat /\ t <= m /\ (u = t + 1 \/ u = t \/ u = 2) BY <1>1, <1>6, <1>7
<1>9. u <= m + 1 BY <1>8
<1> QED BY <1>5, <1>7, <1>9

LEMMA FitsStep ==
    ASSUME Generated, ListInv, NEW U, Counted(U), Fits(U), TokenActions
    PROVE  Counted(U)' /\ Fits(U)'
<1>1. /\ Listing /\ UNCHANGED << parser, SRtotal, RRtotal >>
  BY DEF TokenActions, EndList, AddRival, PassAction, NextState, vars, mkparVars
<1>2. Counted(U)' BY <1>1, CountedStays
<1>3. IsFiniteSet(U) BY DEF Counted
<1> PICK n, p, s, r, t, z : n = actrow /\ p = actpos /\ s = csym /\ r = Room(U, actrow, actpos, csym)
                            /\ t = Len(conflicts) /\ z = 4 * Cardinality(U)
  OBVIOUS
<1>4. /\ r \in Nat /\ r >= 1 /\ t <= r /\ most <= z /\ t \in Nat
  <2>1. r \in Nat BY <1>3, RoomFacts
  <2>2. r >= 1
    <3>1. /\ Cardinality(InList(U, n, p, s)) \in Nat /\ Cardinality(Met(U, n, p) \ InList(U, n, p, s)) \in Nat
          /\ Uncounted(U, n, p, s) \in {0, 1}
      BY <1>3, RoomFacts
    <3>2. \A a, b, c : a \in Nat /\ b \in Nat /\ c \in {0, 1} => 3 * a + 1 + b + c >= 1 OBVIOUS
    <3>3. r = 3 * Cardinality(Met(U, n, p) \ InList(U, n, p, s)) + 1 + Cardinality(InList(U, n, p, s))
                + Uncounted(U, n, p, s) BY DEF Room
    <3> QED BY <3>1, <3>2, <3>3
  <2> QED BY <2>1, <2>2 DEF Fits, ListInv, ListsOK
<1>5. CASE AddRival
  <2>1. ~RowEnds /\ ~ListEnds /\ IsRival /\ actrow' = n /\ actpos' = p + 1 /\ csym' = Act.symbol /\ most' = most
    BY <1>5 DEF AddRival
  <2>2. PICK r2 : r2 = Room(U, n, p + 1, Act.symbol) OBVIOUS
  <2>3. r2 >= r + 1 BY <1>1, <2>1, <2>2, RoomAdd
  <2>4. Len(conflicts') <= r + 1 BY <1>4, <1>5, LengthAdded DEF ListInv
  <2>5. r2 \in Nat BY <1>3, <2>2, RoomFacts
  <2>6. Len(conflicts') \in Nat
    <3>1. ListInv' BY <1>5, ListsAdd
    <3> QED BY <3>1 DEF ListInv, ListsOK
  <2>7. Room(U, actrow, actpos, csym)' = r2
    <3>1. PICK x : x = Act.symbol OBVIOUS
    <3>2. PICK p2 : p2 = p + 1 OBVIOUS
    <3>3. Room(U, n, p2, x)' = Room(U, n, p2, x) BY <1>1, RoomStays
    <3>4. Room(U, actrow, actpos, csym)' = Room(U, n, p2, x)' BY <2>1, <3>1, <3>2 DEF Room, Met, InList, Uncounted, IsTrial
    <3> QED BY <2>2, <3>1, <3>2, <3>3, <3>4
  <2>8. Len(conflicts') <= r2 BY <1>4, <2>3, <2>4, <2>5, <2>6
  <2> QED BY <1>2, <1>4, <2>1, <2>7, <2>8 DEF Fits
<1>6. CASE PassAction
  <2>1. ~RowEnds /\ ~IsRival /\ actrow' = n /\ actpos' = p + 1 /\ csym' = s /\ most' = most /\ conflicts' = conflicts
    BY <1>6 DEF PassAction
  <2>2. PICK p2 : p2 = p + 1 OBVIOUS
  <2>3. Room(U, n, p2, s) = r BY <1>1, <2>1, <2>2, RoomPass
  <2>4. Room(U, n, p2, s)' = Room(U, n, p2, s) BY <1>1, RoomStays
  <2>5. Room(U, actrow, actpos, csym)' = Room(U, n, p2, s)'
    BY <2>1, <2>2 DEF Room, Met, InList, Uncounted, IsTrial
  <2> QED BY <1>2, <1>4, <2>1, <2>3, <2>4, <2>5 DEF Fits
<1>7. CASE NextState
  <2>1. RowEnds /\ csym = -1 /\ actrow' = n + 1 /\ actpos' = 1 /\ csym' = s /\ most' = most /\ conflicts' = conflicts
    BY <1>7 DEF NextState, ListEnds
  <2>2. PICK n2 : n2 = n + 1 OBVIOUS
  <2>3. Room(U, n2, 1, s) = r BY <1>1, <2>1, <2>2, RoomNext
  <2>4. Room(U, n2, 1, s)' = Room(U, n2, 1, s) BY <1>1, RoomStays
  <2>5. Room(U, actrow, actpos, csym)' = Room(U, n2, 1, s)'
    BY <2>1, <2>2 DEF Room, Met, InList, Uncounted, IsTrial
  <2> QED BY <1>2, <1>4, <2>1, <2>3, <2>4, <2>5 DEF Fits
<1>8. CASE EndList
  <2>1. PICK list : list = Append(conflicts, -1) OBVIOUS
  <2>2. Len(list) = t + 1 BY <2>1 DEF ListInv, ListsOK
  <2>3. /\ ListEnds /\ actrow' = n /\ actpos' = p /\ csym' = -1
        /\ most' = IF most < Len(list) THEN Len(list) ELSE most
    BY <1>8, <2>1 DEF EndList
  <2>4. r + 1 <= Room(U, n, p, -1) /\ r + 1 <= z BY <1>1, <2>3, RoomEnd
  <2>5. PICK kept : conflicts' = SubSeq(list, 1, kept) /\ kept \in 0 .. Len(list)
    <3> PICK found : found = ConflictBase(list) OBVIOUS
    <3> PICK kept : kept = IF found = cbase THEN Len(list)
                           ELSE IF list[cbase + 1] = -1 THEN cbase + 1 ELSE cbase
      OBVIOUS
    <3>1. /\ kept = IF found = cbase THEN Len(list) ELSE IF list[cbase + 1] = -1 THEN cbase + 1 ELSE cbase
          /\ conflicts' = SubSeq(list, 1, kept)
      BY <1>8, <2>1 DEF EndList
    <3>2. cbase \in 0 .. t BY DEF ListInv, ListsOK
    <3>3. kept \in 0 .. t + 1 BY <1>4, <2>2, <3>1, <3>2
    <3> QED BY <2>2, <3>1, <3>3
  <2>6. Len(conflicts') <= t + 1 /\ Len(conflicts') \in Nat
    <3>1. list \in Seq(Int) BY <2>1 DEF ListInv, ListsOK
    <3>2. Len(SubSeq(list, 1, kept)) = kept BY <2>5, <3>1, ListCut
    <3> QED BY <1>4, <2>2, <2>5, <3>2
  <2>7. Room(U, n, p, -1)' = Room(U, n, p, -1) BY <1>1, RoomStays
  <2>8. Room(U, actrow, actpos, csym)' = Room(U, n, p, -1)'
    BY <2>3 DEF Room, Met, InList, Uncounted, IsTrial
  <2>9. Room(U, n, p, -1) \in Nat /\ z \in Nat
    <3>1. Cardinality(U) \in Nat BY <1>3, FS_CardinalityType
    <3>2. Room(U, n, p, -1) \in Nat BY <1>3, RoomFacts
    <3> QED BY <3>1, <3>2
  <2>10. Len(conflicts') <= Room(U, n, p, -1) BY <1>4, <2>4, <2>6, <2>9
  <2>11. t + 1 <= z BY <1>4, <2>4, <2>9
  <2>12. most' <= z BY <1>4, <2>2, <2>3, <2>11
  <2> QED BY <1>2, <2>7, <2>8, <2>10, <2>12 DEF Fits
<1> QED BY <1>5, <1>6, <1>7, <1>8 DEF TokenActions

(* What is counted bounds what was in use. *)
LEMMA FitsIsEnough ==
    ASSUME NEW U, Counted(U), Fits(U)
    PROVE  ConflictsFit
BY DEF Counted, Fits, ConflictsFit, Totals

FitInv ==
    /\ CountedInv
    /\ ~Finished /\ phase # "fatal" => most = 0
    /\ phase = "token_actions" => \E U : Counted(U) /\ Fits(U)
    /\ ConflictsFit

LEMMA FitStart == Init /\ OutputInit => FitInv
<1> SUFFICES ASSUME Init, OutputInit PROVE FitInv OBVIOUS
<1>1. phase = "lr0" /\ SRtotal = 0 /\ RRtotal = 0 /\ most = 0
  BY DEF Init, LR0Init, MkparInit, OutputInit
<1> QED BY <1>1 DEF FitInv, CountedInv, Finished, ConflictsFit

LEMMA FitStep == TablesInv /\ FitInv /\ [GeneratorStep]_<< vars, outputVars >> => FitInv'
<1> SUFFICES ASSUME TablesInv, FitInv, [GeneratorStep]_<< vars, outputVars >> PROVE FitInv' OBVIOUS
<1>1. CASE Next /\ UNCHANGED outputVars
  <2>1. ~Finished /\ phase # "fatal" /\ ~Finished' BY <1>1, OutputIsLast
  <2>2. ActionsInv /\ ActionsInv' BY <1>1, <2>1, ActionsStep DEF TablesInv
  <2>3. CountedInv' BY <1>1, <2>2, CountedStep DEF FitInv
  <2>4. most' = 0 BY <1>1, <2>1 DEF FitInv, outputVars, listVars
  <2>5. SRtotal' \in Nat /\ RRtotal' \in Nat
    <3>1. MkparInv' BY <2>2 DEF ActionsInv
    <3>2. CASE phase' \in {"remove_conflicts", "done"} BY <3>1, <3>2 DEF MkparInv, RowsOK
    <3>3. CASE phase' \notin {"remove_conflicts", "done"} BY <3>1, <3>3 DEF MkparInv
    <3> QED BY <3>2, <3>3
  <2>6. phase' # "token_actions" BY <2>1 DEF Finished
  <2>7. ConflictsFit'
    <3>1. PICK a, b, m : a = SRtotal' /\ b = RRtotal' /\ m = most' OBVIOUS
    <3>2. a \in Nat /\ b \in Nat /\ m = 0 BY <2>4, <2>5, <3>1
    <3>3. m <= 4 * (a + b) BY <3>2
    <3> QED BY <3>1, <3>3 DEF ConflictsFit
  <2> QED BY <2>3, <2>4, <2>6, <2>7 DEF FitInv
<1>2. CASE StartActions
  <2>1. /\ phase = "done" /\ phase' = "token_actions"
        /\ UNCHANGED << parser, SRtotal, RRtotal, most, conflicts, actrow, actpos, csym >>
    BY <1>2 DEF StartActions, mkparVars
  <2>2. most = 0 /\ conflicts = << >> BY <2>1 DEF FitInv, TablesInv, Finished, NoLists
  <2>3. PICK U : Counted(U) BY <2>1 DEF FitInv, CountedInv, CountedRows
  <2>4. Counted(U)' BY <2>1, <2>3, CountedStays
  <2>5. Fits(U)'
    <3>1. PICK n, p, s : n = actrow' /\ p = actpos' /\ s = csym' OBVIOUS
    <3>2. IsFiniteSet(U) BY <2>3 DEF Counted
    <3>3. Room(U, n, p, s) \in Nat /\ Cardinality(U) \in Nat BY <3>2, RoomFacts
    <3>4. Room(U, actrow, actpos, csym)' = Room(U, n, p, s)
      BY <2>1, <3>1 DEF Room, Met, InList, Uncounted, IsTrial
    <3>5. Len(conflicts') = 0 /\ most' = 0 BY <2>1, <2>2
    <3> QED BY <3>3, <3>4, <3>5 DEF Fits
  <2>6. ConflictsFit' BY <2>1 DEF FitInv, ConflictsFit
  <2> QED BY <2>1, <2>4, <2>5, <2>6 DEF FitInv, CountedInv, Finished
<1>3. CASE TokenActions
  <2>1. phase = "token_actions" /\ phase' = phase
    BY <1>3 DEF TokenActions, EndList, AddRival, PassAction, NextState, Listing, vars, lr0Vars
  <2>2. Generated /\ ListInv BY <2>1 DEF TablesInv, Finished
  <2>3. PICK U : Counted(U) /\ Fits(U) BY <2>1 DEF FitInv
  <2>4. Counted(U)' /\ Fits(U)' BY <1>3, <2>2, <2>3, FitsStep
  <2>5. ConflictsFit' BY <2>4 DEF Counted, Fits, ConflictsFit, Totals
  <2> QED BY <2>1, <2>4, <2>5 DEF FitInv, CountedInv, Finished
<1>4. CASE OutputActions \/ PackTable \/ WriteTables
  <2>1. /\ phase \in {"token_actions", "pack_table"} /\ phase' \in {"pack_table", "written", "fatal"}
        /\ UNCHANGED << SRtotal, RRtotal, most >>
    BY <1>4 DEF OutputActions, PackTable, WriteTables, lr0Vars, mkparVars, listVars
  <2>2. ConflictsFit' BY <2>1 DEF FitInv, ConflictsFit
  <2> QED BY <2>1, <2>2 DEF FitInv, CountedInv, Finished
<1>5. CASE UNCHANGED << vars, outputVars >>
  <2>1. UNCHANGED << phase, parser, SRtotal, RRtotal, most, listVars >>
    BY <1>5 DEF vars, lr0Vars, mkparVars, outputVars, listVars
  <2>2. CountedInv'
    <3>1. UNCHANGED vars BY <1>5
    <3>2. phase \in {"remove_conflicts", "done"} => ActionsInv BY DEF TablesInv, Finished
    <3>3. phase \notin {"remove_conflicts", "done"} => CountedInv' BY <2>1 DEF CountedInv
    <3> QED BY <3>1, <3>2, <3>3, CountedStep DEF FitInv
  <2>3. phase = "token_actions" => \E U : Counted(U)' /\ Fits(U)'
    <3> SUFFICES ASSUME phase = "token_actions" PROVE \E U : Counted(U)' /\ Fits(U)' OBVIOUS
    <3>1. PICK U : Counted(U) /\ Fits(U) BY DEF FitInv
    <3> QED BY <2>1, <3>1, FitsStays
  <2>4. ConflictsFit' BY <2>1 DEF FitInv, ConflictsFit
  <2> QED BY <2>1, <2>2, <2>3, <2>4 DEF FitInv, Finished
<1> QED BY <1>1, <1>2, <1>3, <1>4, <1>5 DEF GeneratorStep, OutputNext
=============================================================================
