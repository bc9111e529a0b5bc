------------------------------ MODULE ByaccPack ------------------------------
(***************************************************************************)
(* byacc/output.c, sort_actions() to pack_table(): the rows of the shift   *)
(* and reduce tables and the columns of the goto table, each a list of     *)
(* (from, to) pairs, are laid over each other in one array "table".        *)
(* Vector v can be looked up at from f if  check[base[v] + f] = f,  and is *)
(* found in table[base[v] + f]; a base of 0 means that v is empty.         *)
(*                                                                         *)
(* No entry says which vector it belongs to: a lookup is only right        *)
(* because no two different vectors have the same base.                    *)
(***************************************************************************)
EXTENDS Integers, Sequences, FiniteSets

CONSTANTS
    MAXTABLE,       \* the largest size of the table
    InitialTable,   \* its first size (1000)
    Increment,      \* what it grows by (200)
    Packings        \* the calls: records [nvectors, vectors, nrows]

(* vectors is a function from 0 .. nvectors - 1 to records [from, to]; the
   first nrows of them, rows of shifts and of reductions, may be shared.
   Two entries of one vector may have the same from: the file can give two
   tokens one number. *)
VectorOK(w) ==
    /\ w.from \in Seq(Nat)
    /\ w.to \in Seq(Nat)
    /\ Len(w.to) = Len(w.from)

PackingOK(in) ==
    /\ in.nvectors \in Nat
    /\ DOMAIN in.vectors = 0 .. in.nvectors - 1
    /\ in.nrows \in Nat
    /\ \A v \in DOMAIN in.vectors : VectorOK(in.vectors[v])

ASSUME PackAssumption ==
    /\ MAXTABLE \in Nat /\ InitialTable \in Nat \ {0} /\ Increment \in Nat \ {0}
    /\ \A in \in Packings : PackingOK(in)

VARIABLES
    nvectors, vectors, nrows,   \* the call
    order,      \* S->order[0..nentries-1], as a sequence: the vectors to pack
    next,       \* the loop variable of pack_table(), from 1
    place,      \* the base pack_vector() is trying, or NotSearching
    entry,      \* k of its first loop, from 1: the entry it looks at
    base,       \* S->base
    table, check,
    maxtable, lowzero, high,
    overflow    \* fatal("maximum table size exceeded")

input == << nvectors, vectors, nrows >>
packVars == << input, order, next, place, entry, base, table, check,
               maxtable, lowzero, high, overflow >>

NotSearching == 0
NONE == -1

tally(v) == Len(vectors[v].from)
-----------------------------------------------------------------------------
(* sort_actions(): by width, then by tally, both descending; vectors with
   the same of both stay in their order. *)
Span(w) == { w.from[k] - w.from[l] + 1 : k, l \in 1 .. Len(w.from) }
WidthOf(w) == CHOOSE m \in Span(w) : \A x \in Span(w) : x <= m

Before(vs, v, w) ==
    \/ WidthOf(vs[v]) > WidthOf(vs[w])
    \/ /\ WidthOf(vs[v]) = WidthOf(vs[w])
       /\ \/ Len(vs[v].from) > Len(vs[w].from)
          \/ Len(vs[v].from) = Len(vs[w].from) /\ v < w

SortActions(vs) ==
    LET entries == { v \in DOMAIN vs : vs[v].from # << >> }
    IN  [k \in 1 .. Cardinality(entries) |->
            CHOOSE v \in entries : Cardinality({ w \in entries : Before(vs, w, v) }) = k - 1]

(* pack_table(), up to its loop over the entries. *)
StartPacking(in) ==
    /\ nvectors = in.nvectors
    /\ vectors = in.vectors
    /\ nrows = in.nrows
    /\ order = SortActions(in.vectors)
    /\ next = 1
    /\ place = NotSearching
    /\ entry = 1
    /\ base = [v \in DOMAIN in.vectors |-> 0]
    /\ table = [l \in 0 .. InitialTable - 1 |-> 0]
    /\ check = [l \in 0 .. InitialTable - 1 |-> NONE]
    /\ maxtable = InitialTable
    /\ lowzero = 0
    /\ high = 0
    /\ overflow = FALSE

Init == \E in \in Packings : StartPacking(in)

Packing == next <= Len(order) /\ ~overflow
cur == order[next]

(* matching_vector(): the entry packed before, nearest first, that has the
   same pairs; it gives up at the first with another width or tally. *)
SameShape(v, w) == WidthOf(vectors[v]) = WidthOf(vectors[w]) /\ tally(v) = tally(w)

Matches(prev) ==
    /\ cur < nrows
    /\ vectors[order[prev]] = vectors[cur]
    /\ \A p \in prev .. next - 1 : SameShape(order[p], cur)
    /\ \A p \in prev + 1 .. next - 1 : vectors[order[p]] # vectors[cur]

Share ==
    /\ Packing
    /\ place = NotSearching
    /\ \E prev \in 1 .. next - 1 :
          /\ Matches(prev)
          /\ base' = [base EXCEPT ![cur] = base[order[prev]]]
    /\ next' = next + 1
    /\ UNCHANGED << input, order, place, entry, table, check, maxtable, lowzero, high, overflow >>

(* pack_vector(): the search starts at the least base for which no entry
   falls below lowzero; 0 is never a base. *)
NextPlace(j) == IF j = 0 THEN 1 ELSE j

StartSearch ==
    /\ Packing
    /\ place = NotSearching
    /\ \A prev \in 1 .. next - 1 : ~Matches(prev)
    /\ \E k \in 1 .. tally(cur) :
          /\ \A l \in 1 .. tally(cur) : vectors[cur].from[k] <= vectors[cur].from[l]
          /\ place' = NextPlace(lowzero - vectors[cur].from[k])
    /\ UNCHANGED << input, order, next, entry, base, table, check, maxtable, lowzero, high, overflow >>

Loc(k) == place + vectors[cur].from[k]
Unused(l) == l \notin { m \in DOMAIN check : check[m] # NONE }

Searching == Packing /\ place # NotSearching
Looking == Searching /\ entry <= tally(cur)

(* Mutant of Full: the table may end with the last entry. *)
Full_Short(l) == l >= maxtable

(* The table grows if l is its last place or beyond; its size is only
   compared with MAXTABLE then. *)
Full(l) == l >= maxtable - 1
TooLarge(l) == Full(l) /\ l >= MAXTABLE - 1

Resized(f, size, default) == [l \in 0 .. size - 1 |-> IF l \in DOMAIN f THEN f[l] ELSE default]
Enlarged(l) ==
    /\ \/ ~Full(l) /\ maxtable' = maxtable
       \/ /\ Full(l)
          /\ \E m \in 1 .. l + 1 :
                /\ maxtable' = maxtable + m * Increment
                /\ maxtable' > l
                /\ m > 1 => maxtable' - Increment <= l
    /\ table' = Resized(table, maxtable', 0)
    /\ check' = Resized(check, maxtable', NONE)

EntryFits ==
    /\ Looking
    /\ ~TooLarge(Loc(entry))
    /\ Enlarged(Loc(entry))
    /\ Unused(Loc(entry))
    /\ entry' = entry + 1
    /\ UNCHANGED << input, order, next, place, base, lowzero, high, overflow >>

(* Mutant of TryNext: the same base is tried again. *)
TryNext_Same == place' = place /\ entry' = 1

TryNext == place' = NextPlace(place + 1) /\ entry' = 1

EntryCollides ==
    /\ Looking
    /\ ~TooLarge(Loc(entry))
    /\ Enlarged(Loc(entry))
    /\ ~Unused(Loc(entry))
    /\ TryNext
    /\ UNCHANGED << input, order, next, base, lowzero, high, overflow >>

(* Mutant of IsNewBase: two vectors may have the same base. *)
IsNewBase_Any == TRUE

(* The second loop, over pos[]. *)
IsNewBase == \A prev \in 1 .. next - 1 : base[order[prev]] # place

BaseTaken ==
    /\ Searching /\ ~Looking
    /\ ~IsNewBase
    /\ TryNext
    /\ UNCHANGED << input, order, next, base, table, check, maxtable, lowzero, high, overflow >>

(* The entries are stored in their order, and lowzero moves to the first
   unused one.  The scan of the model ends at maxtable, where check[] of the
   code ends too, but not its loop: see ScanInTable. *)
Latest(v, f) ==
    CHOOSE k \in 1 .. tally(v) :
        /\ vectors[v].from[k] = f
        /\ \A m \in 1 .. tally(v) : vectors[v].from[m] = f => m <= k

Stored(f, values) ==
    [l \in DOMAIN f |-> IF \E k \in 1 .. tally(cur) : Loc(k) = l
                        THEN values[Latest(cur, l - place)]
                        ELSE f[l]]

Place ==
    /\ Searching /\ ~Looking
    /\ IsNewBase
    /\ table' = Stored(table, vectors[cur].to)
    /\ check' = Stored(check, vectors[cur].from)
    /\ LET locs == { Loc(k) : k \in 1 .. tally(cur) } \cup {high}
       IN  \E h \in locs : (\A l \in locs : l <= h) /\ high' = h
    /\ \E l \in lowzero .. maxtable :
          /\ Unused(l)'
          /\ \A m \in lowzero .. l - 1 : ~Unused(m)'
          /\ lowzero' = l
    /\ base' = [base EXCEPT ![cur] = place]
    /\ next' = next + 1
    /\ place' = NotSearching
    /\ entry' = 1
    /\ UNCHANGED << input, order, maxtable, overflow >>

TableOverflow ==
    /\ Looking
    /\ TooLarge(Loc(entry))
    /\ overflow' = TRUE
    /\ UNCHANGED << input, order, next, place, entry, base, table, check, maxtable, lowzero, high >>

Next == Share \/ StartSearch \/ EntryFits \/ EntryCollides \/ BaseTaken \/ Place \/ TableOverflow

Spec == Init /\ [][Next]_packVars /\ WF_packVars(Next)

Packed == ~Packing

-----------------------------------------------------------------------------
(* The lookup in the generated parser: yyn = b + f, in range and checked;
   NONE stands for "no entry". *)
Lookup(b, f) ==
    IF b # 0 /\ b + f \in 0 .. high /\ check[b + f] = f THEN table[b + f] ELSE NONE

Entry(v, f) ==
    IF \E k \in 1 .. tally(v) : vectors[v].from[k] = f
    THEN vectors[v].to[Latest(v, f)]
    ELSE NONE

Done == { order[k] : k \in 1 .. next - 1 }
Keys == UNION { { vectors[v].from[k] : k \in 1 .. tally(v) } : v \in DOMAIN vectors }

TypeOK ==
    /\ PackingOK([nvectors |-> nvectors, vectors |-> vectors, nrows |-> nrows])
    /\ next \in 1 .. Len(order) + 1
    /\ base \in [DOMAIN vectors -> Int]
    /\ maxtable \in Nat
    /\ table \in [0 .. maxtable - 1 -> Nat]
    /\ check \in [0 .. maxtable - 1 -> Nat \cup {NONE}]
    /\ lowzero \in Nat /\ high \in Nat
    /\ place \in Int /\ entry \in Nat \ {0}

(***************************************************************************)
(* Every lookup in every vector packed so far gives exactly what was put   *)
(* in: an entry of its own, never one of a vector laid over it, and        *)
(* nothing where it has no entry.  Later vectors do not disturb it.  Of    *)
(* two entries with the same from, the later one counts.                   *)
(***************************************************************************)
LookupExact ==
    \A v \in DOMAIN vectors : v \in Done \/ vectors[v].from = << >> =>
        \A f \in Keys : Lookup(base[v], f) = Entry(v, f)

(***************************************************************************)
(* The scan for the first unused entry stays in the table, and below it    *)
(* nothing is unused, provided that every vector is narrower than the step *)
(* in which the table grows.  For a wider one the table can end with the   *)
(* entry just stored, and the scan  while (check[lowzero] != -1)  reads    *)
(* beyond it when no other entry is unused.  One as wide as the step is    *)
(* enough if its entries are not in increasing order: its first place may  *)
(* be one further right than lowzero, for 0 is never a base.               *)
(***************************************************************************)
Narrow == \A v \in DOMAIN vectors : vectors[v].from # << >> => WidthOf(vectors[v]) < Increment

ScanInTable ==
    /\ \A l \in 0 .. lowzero - 1 : l < maxtable => check[l] # NONE
    /\ Narrow => lowzero < maxtable

(* Every vector is given a place, or the table is too small. *)
AllPacked == <>(next > Len(order) \/ overflow)
=============================================================================
