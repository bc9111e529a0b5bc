---------------------------- MODULE DigraphProofs ----------------------------
(***************************************************************************)
(* Proofs about digraph() and traverse(): they keep to their arrays, and   *)
(* they compute the least solution of the equations, for every relation.   *)
(*                                                                         *)
(* IInv is the inductive invariant; one lemma for each action shows that   *)
(* it is preserved.  ReachOK strengthens Sound and is preserved with it.   *)
(***************************************************************************)
EXTENDS Digraph, FiniteSets, FiniteSetTheorems, TLAPS

-----------------------------------------------------------------------------
(* Where a goto can be. *)
OnStack(v) == INDEX[v] \in 1 .. ngotos
Active(v) == \E d \in 1 .. depth : stack[d] = v

(* VERTICES[1..top] holds the visited gotos that are not final, each at its
   height, and no INDEX is above the height. *)
StackOK ==
    /\ \A k \in 1 .. top : /\ VERTICES[k] \in Gotos
                           /\ OnStack(VERTICES[k])
                           /\ height[VERTICES[k]] = k
    /\ \A v \in Gotos : \/ New(v) \/ Final(v)
                        \/ /\ OnStack(v)
                           /\ height[v] \in 1 .. top
                           /\ VERTICES[height[v]] = v
                           /\ INDEX[v] <= height[v]

(* The live activations are in VERTICES, in the order of the calls; each has
   been called by the one below it for the edge that one has read. *)
CallsOK ==
    /\ depth > 0 => height[stack[1]] = 1
    /\ depth = 0 => top = 0
    /\ \A d \in 1 .. depth : /\ stack[d] \in Gotos
                             /\ OnStack(stack[d])
                             /\ d <= height[stack[d]]
                             /\ rp[stack[d]] \in 1 .. Len(R[stack[d]]) + 1
    /\ \A d, e \in 1 .. depth : d < e => height[stack[d]] < height[stack[e]]
    /\ \A d \in 1 .. depth - 1 : /\ rp[stack[d]] <= Len(R[stack[d]])
                                 /\ stack[d + 1] = R[stack[d]][rp[stack[d]]]

(* A visited goto that is no longer active has gone through all its edges;
   one still in VERTICES is not the root of its component. *)
PassedOK ==
    \A v \in Gotos : ~New(v) /\ ~Active(v) =>
        /\ rp[v] = Len(R[v]) + 1
        /\ OnStack(v) => INDEX[v] < height[v]

(* What an edge that has been merged leaves behind. *)
MergedOK ==
    \A v \in Gotos : ~New(v) => \A k \in 1 .. rp[v] - 1 :
        \/ Final(R[v][k]) /\ F[R[v][k]] \subseteq F[v]
        \/ /\ OnStack(v)
           /\ OnStack(R[v][k])
           /\ INDEX[v] <= height[R[v][k]]
           
(* An edge merged below an activation does not lead above it. *)
BelowOK ==
    \A d \in 1 .. depth : \A v \in Gotos :
        OnStack(v) /\ height[v] < height[stack[d]] =>
            \A k \in 1 .. rp[v] - 1 :
                OnStack(R[v][k]) => height[R[v][k]] < height[stack[d]]

(* stack[d] is the innermost activation below the passed goto v. *)
Nearest(d, v) ==
    /\ height[stack[d]] < height[v]
    /\ d < depth => height[v] < height[stack[d + 1]]

(* A passed goto has handed its set and its INDEX down to the activation
   it was passed in, or to the edge that activation is about to merge. *)
HandedOK ==
    \A v \in Gotos : OnStack(v) => \A d \in 1 .. depth : Nearest(d, v) =>
        \/ F[v] \subseteq F[stack[d]] /\ INDEX[stack[d]] <= INDEX[v]
        \/ /\ d = depth
           /\ rp[stack[d]] <= Len(R[stack[d]])
           /\ LET c == R[stack[d]][rp[stack[d]]]
              IN  ~New(c) /\ F[v] \subseteq F[c] /\ INDEX[c] <= INDEX[v]

(* Initial sets are kept; a set not entered is the initial one. *)
GrowsOK == \A v \in Gotos : F0[v] \subseteq F[v] /\ (New(v) => F[v] = F0[v])

(* The loop of digraph() leaves no goto with an edge behind. *)
LoopOK == 
    /\ \A v \in Gotos : v < i /\ New(v) => R[v] = << >>
    /\ depth > 0 => i < ngotos /\ stack[1] = i

IInv == /\ TypeOK /\ StackOK /\ CallsOK /\ PassedOK /\ MergedOK /\ BelowOK
        /\ HandedOK /\ GrowsOK /\ LoopOK

(* Soundness, strengthened: an activation reaches the later ones, and a goto
   in VERTICES reaches an activation no higher than its INDEX. *)
Reaches(G) ==
    /\ \A v \in Gotos : F[v] \subseteq G[v]
    /\ \A d, e \in 1 .. depth : d <= e => G[stack[e]] \subseteq G[stack[d]]
    /\ \A v \in Gotos : OnStack(v) =>
          \E d \in 1 .. depth : /\ height[stack[d]] <= INDEX[v]
                                /\ G[stack[d]] \subseteq G[v]

ReachOK == \A G \in [Gotos -> SUBSET Tokens] : Solution(G) => Reaches(G)

-----------------------------------------------------------------------------
(* An edge of a goto is a goto. *)
LEMMA EdgeIsGoto ==
    ASSUME TypeOK, NEW v \in Gotos, NEW k \in 1 .. Len(R[v])
    PROVE  R[v][k] \in Gotos
BY DEF TypeOK, InputOK

(* So is the end of an edge that has been merged. *)
LEMMA MergedEdge ==
    ASSUME IInv, NEW v \in Gotos, ~New(v), NEW k \in 1 .. rp[v] - 1
    PROVE  k \in 1 .. Len(R[v]) /\ R[v][k] \in Gotos
<1>1. Len(R[v]) \in Nat /\ rp[v] \in Nat
  BY DEF IInv, TypeOK, InputOK
<1>2. rp[v] <= Len(R[v]) + 1
  <2>1. CASE Active(v)
    BY <1>1, <2>1 DEF IInv, CallsOK, Active
  <2>2. CASE ~Active(v)
    BY <1>1, <2>2 DEF IInv, PassedOK
  <2> QED BY <2>1, <2>2
<1>3. k \in 1 .. Len(R[v])
  BY <1>1, <1>2
<1> QED BY <1>3, EdgeIsGoto DEF IInv

(* VERTICES and the call stack have room for one more unvisited goto. *)
LEMMA Room ==
    ASSUME TypeOK, StackOK, NEW v \in Gotos, New(v)
    PROVE  top < ngotos
<1> DEFINE f == [k \in 1 .. top + 1 |-> IF k = top + 1 THEN v ELSE VERTICES[k]]
<1>1. top \in Nat /\ ngotos \in Nat
  BY DEF TypeOK, InputOK
<1> SUFFICES ASSUME top >= ngotos PROVE FALSE
  BY <1>1
<1>2. f \in [1 .. top + 1 -> Gotos]
  BY <1>1 DEF StackOK
<1>3. /\ IsFiniteSet(1 .. top + 1) /\ Cardinality(1 .. top + 1) = top + 1
      /\ IsFiniteSet(Gotos) /\ Cardinality(Gotos) = ngotos
  <2>1. /\ IsFiniteSet(1 .. top + 1) /\ IsFiniteSet(Gotos)
        /\ Cardinality(1 .. top + 1) = IF 1 > top + 1 THEN 0 ELSE top + 1 - 1 + 1
        /\ Cardinality(Gotos) = IF 0 > ngotos - 1 THEN 0 ELSE ngotos - 1 - 0 + 1
    BY <1>1, FS_Interval DEF Gotos
  <2> QED BY <1>1, <2>1
<1>4. PICK a, b \in 1 .. top + 1 : a # b /\ f[a] = f[b]
  <2> HIDE DEF f
  <2> QED BY <1>1, <1>2, <1>3, FS_PigeonHole
<1>5. \A k \in 1 .. top : VERTICES[k] # v
  BY <1>1 DEF StackOK, OnStack, New, TypeOK
<1>6. \A k \in 1 .. top : height[VERTICES[k]] = k
  BY DEF StackOK
<1> QED BY <1>1, <1>4, <1>5, <1>6

-----------------------------------------------------------------------------
(* A call of digraph() establishes both invariants. *)
LEMMA StartInv ==
    ASSUME NEW in
    PROVE  CallOK(in) /\ Start(in) => IInv /\ ReachOK
<1> SUFFICES ASSUME CallOK(in), Start(in) PROVE IInv /\ ReachOK
  OBVIOUS
<1>1. TypeOK
  BY DEF Start, CallOK, TypeOK, InputOK, Gotos, infinity
<1>2. StackOK /\ CallsOK /\ PassedOK /\ MergedOK /\ BelowOK /\ HandedOK
  BY DEF Start, StackOK, CallsOK, PassedOK, MergedOK, BelowOK, HandedOK,
         CallOK, New, OnStack, Gotos
<1>3. GrowsOK /\ LoopOK
  BY DEF Start, GrowsOK, LoopOK, CallOK, Gotos
<1>4. ReachOK
  <2> SUFFICES ASSUME NEW G \in [Gotos -> SUBSET Tokens], Solution(G) PROVE Reaches(G)
    BY DEF ReachOK
  <2>1. F = F0 /\ depth = 0 /\ \A v \in Gotos : INDEX[v] = 0
    BY DEF Start, Gotos
  <2> QED BY <2>1 DEF Reaches, Solution, OnStack
<1> QED BY <1>1, <1>2, <1>3, <1>4 DEF IInv

LEMMA InitInv == InputsAssumption /\ Init => IInv /\ ReachOK
BY StartInv DEF InputsAssumption, Init

(* A call traverse(v), from digraph() or from traverse(). *)
LEMMA EnterInv ==
    ASSUME IInv, NEW v \in Gotos, New(v), Enter(v), UNCHANGED input,
           \/ depth = 0 /\ v = i
           \/ depth > 0 /\ rp[cur] <= Len(R[cur]) /\ v = target
    PROVE  IInv'
<1> USE DEF IInv
<1>0. /\ top \in Nat /\ ngotos \in Nat /\ depth \in Nat /\ depth <= top
      /\ top < ngotos
  <2>1. top \in Nat /\ ngotos \in Nat /\ depth \in Nat /\ depth <= top
    BY DEF TypeOK, InputOK
  <2>2. top < ngotos
    BY Room
  <2> QED BY <2>1, <2>2
<1>a. /\ Gotos' = Gotos /\ infinity' = infinity /\ infinity = ngotos + 2
      /\ R' = R /\ ngotos' = ngotos /\ i' = i /\ F0' = F0 /\ F' = F
      /\ depth' = depth + 1 /\ top' = top + 1
  BY DEF Enter, input, Gotos, infinity
<1>b. v \in 0 .. ngotos /\ Gotos \subseteq 0 .. ngotos
  BY <1>0 DEF Gotos
<1>c. /\ \A w \in Gotos : w # v => INDEX'[w] = INDEX[w]
      /\ INDEX'[v] = top + 1
  BY DEF TypeOK, Enter
<1>d. /\ \A w \in Gotos : w # v => height'[w] = height[w]
      /\ height'[v] = top + 1
  BY DEF TypeOK, Enter
<1>e. /\ \A w \in Gotos : w # v => rp'[w] = rp[w]
      /\ rp'[v] = 1
  BY DEF TypeOK, Enter
<1>f. /\ VERTICES' \in [0 .. ngotos -> 0 .. ngotos]
      /\ VERTICES'[top + 1] = v
      /\ \A k \in 1 .. top : VERTICES'[k] = VERTICES[k]
  <2>1. VERTICES \in [0 .. ngotos -> 0 .. ngotos]
    BY DEF TypeOK
  <2>2. VERTICES' = [VERTICES EXCEPT ![top + 1] = v]
    BY DEF Enter
  <2>3. VERTICES' \in [0 .. ngotos -> 0 .. ngotos]
    BY <2>1, <2>2, <1>b
  <2>4. VERTICES'[top + 1] = v
    BY <2>1, <2>2, <1>0
  <2>5. \A k \in 1 .. top : VERTICES'[k] = VERTICES[k]
    BY <2>1, <2>2, <1>0
  <2> QED BY <2>3, <2>4, <2>5
<1>g. /\ stack' \in [0 .. ngotos -> 0 .. ngotos]
      /\ stack'[depth + 1] = v
      /\ \A d \in 1 .. depth : stack'[d] = stack[d]
  <2>1. stack \in [0 .. ngotos -> 0 .. ngotos]
    BY DEF TypeOK
  <2>2. stack' = [stack EXCEPT ![depth + 1] = v]
    BY DEF Enter
  <2>3. stack' \in [0 .. ngotos -> 0 .. ngotos]
    BY <2>1, <2>2, <1>b
  <2>4. stack'[depth + 1] = v
    BY <2>1, <2>2, <1>0
  <2>5. \A d \in 1 .. depth : stack'[d] = stack[d]
    BY <2>1, <2>2, <1>0
  <2> QED BY <2>3, <2>4, <2>5
<1>h. \A d \in 1 .. depth : stack[d] \in Gotos
  BY DEF CallsOK
<1>1. TypeOK'
  <2>1. InputOK'
    BY <1>a DEF TypeOK, InputOK
  <2>2. INDEX' \in [Gotos -> 0 .. infinity]
    BY <1>0, <1>a DEF TypeOK, Enter
  <2>3. height' \in [Gotos -> 0 .. ngotos]
    BY <1>0 DEF TypeOK, Enter
  <2>4. rp' \in [Gotos -> Nat] /\ F' \in [Gotos -> SUBSET Tokens]
    BY <1>a DEF TypeOK, Enter
  <2>5. top' \in 0 .. ngotos /\ depth' \in 0 .. top' /\ i' \in 0 .. ngotos
    BY <1>0, <1>a DEF TypeOK
  <2>6. TypeOK' <=> 
          /\ InputOK'
          /\ F' \in [Gotos -> SUBSET Tokens]
          /\ INDEX' \in [Gotos -> 0 .. infinity]
          /\ VERTICES' \in [0 .. ngotos -> 0 .. ngotos]
          /\ top' \in 0 .. ngotos
          /\ i' \in 0 .. ngotos
          /\ depth' \in 0 .. top'
          /\ stack' \in [0 .. ngotos -> 0 .. ngotos]
          /\ height' \in [Gotos -> 0 .. ngotos]
          /\ rp' \in [Gotos -> Nat]
    BY <1>a, Zenon DEF TypeOK
  <2> QED BY <1>f, <1>g, <2>1, <2>2, <2>3, <2>4, <2>5, <2>6, Zenon
<1>3. \A w \in Gotos : OnStack(w) =>
          /\ w # v /\ height[w] \in 1 .. top /\ VERTICES[height[w]] = w
          /\ INDEX[w] <= height[w]
          /\ INDEX'[w] = INDEX[w] /\ height'[w] = height[w] /\ rp'[w] = rp[w]
          /\ OnStack(w)'
  BY <1>0, <1>a, <1>c, <1>d, <1>e DEF OnStack, New, Final, StackOK
<1>i. OnStack(v)' /\ \A w \in Gotos : w # v => (OnStack(w)' <=> OnStack(w))
                                          /\ (Final(w)' <=> Final(w))
                                          /\ (New(w)' <=> New(w))
  BY <1>0, <1>a, <1>c DEF OnStack, Final, New
<1>j. ~New(v)' /\ ~Final(v)'
  BY <1>0, <1>a, <1>c DEF Final, New
<1>k. \A d \in 1 .. depth : /\ stack'[d] = stack[d] /\ stack[d] \in Gotos
                            /\ OnStack(stack[d]) /\ stack[d] # v
                            /\ height'[stack[d]] = height[stack[d]]
                            /\ height[stack[d]] \in 1 .. top
                            /\ rp'[stack[d]] = rp[stack[d]]
  BY <1>3, <1>g DEF CallsOK
<1>l. 1 .. top' = 1 .. top \cup {top + 1} /\ 1 .. depth' = 1 .. depth \cup {depth + 1}
  BY <1>0, <1>a
<1>4. StackOK'
  <2>1. ASSUME NEW k \in 1 .. top'
        PROVE  VERTICES'[k] \in Gotos /\ OnStack(VERTICES[k])' /\ height'[VERTICES'[k]] = k
    <3>1. CASE k = top + 1
      BY <3>1, <1>d, <1>f, <1>i
    <3>2. CASE k \in 1 .. top
      <4>1. VERTICES[k] \in Gotos /\ OnStack(VERTICES[k]) /\ height[VERTICES[k]] = k
        BY <3>2 DEF StackOK
      <4> QED BY <3>2, <4>1, <1>3, <1>f
    <3> QED BY <1>l, <3>1, <3>2
  <2>2. ASSUME NEW w \in Gotos
        PROVE  \/ New(w)' \/ Final(w)'
               \/ /\ OnStack(w)' /\ height'[w] \in 1 .. top'
                  /\ VERTICES'[height'[w]] = w /\ INDEX'[w] <= height'[w]
    <3>1. CASE w = v
      BY <3>1, <1>0, <1>a, <1>c, <1>d, <1>f, <1>i
    <3>2. CASE w # v /\ OnStack(w)
      <4>1. height[w] \in 1 .. top /\ VERTICES[height[w]] = w /\ INDEX[w] <= height[w]
        BY <3>2, <1>3
      <4>2. VERTICES'[height[w]] = w /\ height[w] \in 1 .. top'
        BY <4>1, <1>f, <1>l
      <4> QED BY <3>2, <4>1, <4>2, <1>3
    <3>3. CASE w # v /\ ~OnStack(w)
      BY <3>3, <1>i DEF StackOK
    <3> QED BY <3>1, <3>2, <3>3
  <2> QED BY <2>1, <2>2, <1>a DEF StackOK
<1>5. CallsOK'
  <2>1. (depth > 0 => height[stack[1]] = 1)' /\ (depth = 0 => top = 0)'
    <3>1. CASE depth = 0
      BY <3>1, <1>0, <1>a, <1>d, <1>g DEF CallsOK
    <3>2. CASE depth > 0
      BY <3>2, <1>0, <1>a, <1>k DEF CallsOK
    <3> QED BY <1>0, <3>1, <3>2
  <2>2. ASSUME NEW d \in 1 .. depth'
        PROVE  /\ stack'[d] \in Gotos /\ OnStack(stack[d])' /\ d <= height'[stack'[d]]
               /\ rp'[stack'[d]] \in 1 .. Len(R[stack'[d]]) + 1
    <3>1. CASE d = depth + 1
      <4>1. Len(R[v]) \in Nat
        BY DEF TypeOK, InputOK
      <4>2. 1 \in 1 .. Len(R[v]) + 1
        BY <4>1
      <4>3. stack'[d] = v /\ height'[v] = top + 1 /\ rp'[v] = 1 /\ d <= top + 1
        BY <3>1, <1>0, <1>d, <1>e, <1>g
      <4> QED BY <4>2, <4>3, <1>i
    <3>2. CASE d \in 1 .. depth
      BY <3>2, <1>k, <1>i DEF CallsOK
    <3> QED BY <1>l, <3>1, <3>2
  <2>3. ASSUME NEW d \in 1 .. depth', NEW e \in 1 .. depth', d < e
        PROVE  height'[stack'[d]] < height'[stack'[e]]
    <3>1. CASE e = depth + 1
      <4>1. stack'[e] = v /\ height'[v] = top + 1
        BY <3>1, <1>d, <1>g
      <4>2. d \in 1 .. depth
        BY <2>3, <3>1, <1>0, <1>l
      <4>3. height'[stack'[d]] \in 1 .. top
        BY <4>2, <1>k
      <4> QED BY <4>1, <4>3, <1>0
    <3>2. CASE e \in 1 .. depth
      BY <2>3, <3>2, <1>0, <1>a, <1>k DEF CallsOK
    <3> QED BY <1>l, <3>1, <3>2
  <2>4. ASSUME NEW d \in 1 .. depth' - 1
        PROVE  /\ rp'[stack'[d]] <= Len(R[stack'[d]])
               /\ stack'[d + 1] = R[stack'[d]][rp'[stack'[d]]]
    <3>1. CASE d = depth
      <4>1. depth \in 1 .. depth /\ depth > 0
        BY <3>1, <1>0, <1>a
      <4>2. rp[stack[d]] <= Len(R[stack[d]]) /\ v = R[stack[d]][rp[stack[d]]]
        BY <3>1, <4>1 DEF cur, target
      <4> QED BY <3>1, <4>1, <4>2, <1>g, <1>k
    <3>2. CASE d \in 1 .. depth - 1
      <4>1. d + 1 \in 1 .. depth /\ d \in 1 .. depth
        BY <3>2, <1>0
      <4> QED BY <3>2, <4>1, <1>k, SMTT(20) DEF CallsOK
    <3> QED BY <1>0, <1>a, <3>1, <3>2
  <2> QED BY <2>1, <2>2, <2>3, <2>4, <1>a DEF CallsOK
<1>6. PassedOK'
  <2> SUFFICES ASSUME NEW w \in Gotos, ~New(w)', ~Active(w)'
               PROVE  rp'[w] = Len(R[w]) + 1 /\ (OnStack(w)' => INDEX'[w] < height'[w])
    BY <1>a DEF PassedOK
  <2>1. w # v
    BY <1>0, <1>a, <1>g DEF Active
  <2>2. ~New(w)
    BY <2>1, <1>i
  <2>3. ~Active(w)
    BY <1>g, <1>l DEF Active
  <2> QED BY <2>1, <2>2, <2>3, <1>c, <1>d, <1>e, <1>i DEF PassedOK
<1>7. MergedOK'
  <2> SUFFICES ASSUME NEW w \in Gotos, ~New(w)', NEW k \in 1 .. rp'[w] - 1
               PROVE  \/ Final(R[w][k])' /\ F[R[w][k]] \subseteq F[w]
                      \/ /\ OnStack(w)' /\ OnStack(R[w][k])'
                         /\ INDEX'[w] <= height'[R[w][k]]
    BY <1>a DEF MergedOK
  <2>1. w # v
    BY <1>e
  <2>2. ~New(w) /\ k \in 1 .. rp[w] - 1
    BY <2>1, <1>i, <1>e
  <2>3. R[w][k] \in Gotos
    BY <2>1, <2>2, MergedEdge
  <2>4. \/ Final(R[w][k]) /\ F[R[w][k]] \subseteq F[w]
        \/ /\ OnStack(w) /\ OnStack(R[w][k])
           /\ INDEX[w] <= height[R[w][k]]
    BY <2>2 DEF MergedOK
  <2>5. R[w][k] # v
    BY <2>3, <2>4, <1>0, <1>3 DEF New, Final, infinity
  <2>6. CASE Final(R[w][k]) /\ F[R[w][k]] \subseteq F[w]
    BY <2>3, <2>5, <2>6, <1>a, <1>i DEF Final
  <2>7. CASE OnStack(w) /\ OnStack(R[w][k]) /\ INDEX[w] <= height[R[w][k]]
    BY <2>3, <2>7, <1>a, <1>3 DEF OnStack
  <2> QED BY <2>4, <2>6, <2>7
<1>8. BelowOK'
  <2> SUFFICES ASSUME NEW d \in 1 .. depth', NEW w \in Gotos, OnStack(w)',
                      height'[w] < height'[stack'[d]],
                      NEW k \in 1 .. rp'[w] - 1, OnStack(R[w][k])'
               PROVE  height'[R[w][k]] < height'[stack'[d]]
    BY <1>a DEF BelowOK
  <2>1. w # v
    BY <1>e
  <2>2. OnStack(w) /\ ~New(w) /\ k \in 1 .. rp[w] - 1
    BY <2>1, <1>i, <1>e DEF OnStack, New
  <2>3. R[w][k] \in Gotos
    BY <2>1, <2>2, MergedEdge
  <2>4. R[w][k] # v
    BY <2>2, <2>3, <1>0 DEF MergedOK, New, Final, infinity, OnStack
  <2>7. OnStack(R[w][k]) /\ height[R[w][k]] \in 1 .. top
    BY <2>3, <2>4, <1>a, <1>i, <1>3 DEF OnStack
  <2>5. CASE d = depth + 1
    <3>1. height'[stack'[d]] = top + 1
      BY <2>5, <1>d, <1>g
    <3>2. height'[R[w][k]] = height[R[w][k]]
      BY <2>3, <2>4, <1>d
    <3> QED BY <3>1, <3>2, <2>7, <1>0
  <2>6. CASE d \in 1 .. depth
    BY <2>2, <2>3, <2>4, <2>7, <2>6, <1>3, <1>k DEF BelowOK
  <2> QED BY <1>l, <2>5, <2>6
<1>9. HandedOK'
  <2> SUFFICES ASSUME NEW w \in Gotos, OnStack(w)', NEW d \in 1 .. depth', Nearest(d, w)'
               PROVE  F[w] \subseteq F[stack'[d]] /\ INDEX'[stack'[d]] <= INDEX'[w]
    BY <1>a DEF HandedOK
  <2>1. d # depth + 1
    <3> SUFFICES ASSUME d = depth + 1 PROVE FALSE
      OBVIOUS
    <3>1. height'[w] > top + 1
      BY <1>d, <1>g DEF Nearest
    <3> QED BY <3>1, <1>0, <1>3, <1>d, <1>i
  <2>2. d \in 1 .. depth /\ w # v
    <3>1. d \in 1 .. depth
      BY <2>1, <1>l
    <3>2. CASE d = depth /\ w = v
      BY <3>2, <1>0, <1>a, <1>d, <1>g DEF Nearest
    <3>3. CASE d < depth /\ w = v
      <4>1. d + 1 \in 1 .. depth /\ d < depth'
        BY <3>1, <3>3, <1>0, <1>a
      <4>2. height'[w] < height'[stack'[d + 1]]
        BY <4>1 DEF Nearest
      <4>3. height'[stack'[d + 1]] \in 1 .. top
        BY <4>1, <1>k
      <4> QED BY <3>3, <4>2, <4>3, <1>0, <1>d
    <3> QED BY <1>0, <3>1, <3>2, <3>3
  <2>3. OnStack(w) /\ Nearest(d, w)
    <3>1. OnStack(w) /\ height[stack[d]] < height[w]
      BY <2>2, <1>3, <1>i, <1>k DEF Nearest
    <3>2. CASE d < depth
      <4>1. d + 1 \in 1 .. depth
        BY <3>2, <2>2, <1>0
      <4> QED BY <3>1, <3>2, <4>1, <2>2, <1>0, <1>3, <1>a, <1>k DEF Nearest
    <3> QED BY <3>1, <3>2 DEF Nearest
  <2>4. F[w] \subseteq F[stack[d]] /\ INDEX[stack[d]] <= INDEX[w]
    <3>1. CASE d = depth
      BY <3>1, <2>2, <2>3, <1>0 DEF HandedOK, cur, target
    <3>2. CASE d # depth
      BY <3>2, <2>2, <2>3 DEF HandedOK
    <3> QED BY <3>1, <3>2
  <2> QED BY <2>2, <2>3, <2>4, <1>3, <1>k
<1>10. GrowsOK'
  BY <1>a, <1>i, <1>j DEF GrowsOK
<1>11. LoopOK'
  <2>1. (\A w \in Gotos : w < i /\ New(w) => R[w] = << >>)'
    BY <1>a, <1>i, <1>j DEF LoopOK
  <2>2. i < ngotos /\ stack'[1] = i
    <3>1. CASE depth = 0
      <4>1. v = i /\ stack'[1] = v
        BY <3>1, <1>g
      <4> QED BY <4>1, <1>0 DEF Gotos
    <3>2. CASE depth > 0
      BY <3>2, <1>0, <1>k DEF LoopOK
    <3> QED BY <1>0, <3>1, <3>2
  <2> QED BY <2>1, <2>2, <1>a DEF LoopOK
<1> QED BY <1>1, <1>4, <1>5, <1>6, <1>7, <1>8, <1>9, <1>10, <1>11

(* A goto in VERTICES, and the heights of the activations. *)
LEMMA Placed ==
    ASSUME IInv, NEW w \in Gotos, OnStack(w)
    PROVE  /\ ~New(w) /\ ~Final(w)
           /\ INDEX[w] \in 1 .. ngotos /\ height[w] \in 1 .. top
           /\ VERTICES[height[w]] = w /\ INDEX[w] <= height[w]
<1>1. ngotos \in Nat /\ INDEX[w] \in 1 .. ngotos
  BY DEF IInv, TypeOK, InputOK, OnStack
<1>2. ~New(w) /\ ~Final(w)
  BY <1>1 DEF New, Final, infinity
<1> QED BY <1>1, <1>2 DEF IInv, StackOK

LEMMA CurFacts ==
    ASSUME IInv, depth > 0
    PROVE  /\ depth \in 1 .. depth /\ top \in Nat /\ ngotos \in Nat /\ depth \in Nat
           /\ cur \in Gotos /\ OnStack(cur) /\ ~New(cur) /\ ~Final(cur)
           /\ rp[cur] \in Nat /\ Len(R[cur]) \in Nat
           /\ rp[cur] \in 1 .. Len(R[cur]) + 1
           /\ INDEX[cur] \in 1 .. ngotos /\ height[cur] \in 1 .. top
           /\ VERTICES[height[cur]] = cur /\ INDEX[cur] <= height[cur]
           /\ \A d \in 1 .. depth : d < depth =>
                 height[stack[d]] < height[cur] /\ stack[d] # cur
<1>1. depth \in Nat /\ top \in Nat /\ ngotos \in Nat
  BY DEF IInv, TypeOK, InputOK
<1>2. depth \in 1 .. depth
  BY <1>1
<1>3. cur \in Gotos /\ OnStack(cur) /\ rp[cur] \in 1 .. Len(R[cur]) + 1
  BY <1>2 DEF IInv, CallsOK, cur
<1>4. rp[cur] \in Nat /\ Len(R[cur]) \in Nat
  BY <1>3 DEF IInv, TypeOK, InputOK
<1>5. \A d \in 1 .. depth : d < depth => height[stack[d]] < height[cur]
  BY <1>2 DEF IInv, CallsOK, cur
<1>6. height[cur] \in 1 .. top
  BY <1>3, Placed
<1>7. \A d \in 1 .. depth : d < depth => stack[d] # cur
  BY <1>5, <1>6
<1> QED BY <1>1, <1>2, <1>3, <1>4, <1>5, <1>7, Placed

LEMMA SkipInv == IInv /\ Skip => IInv'
<1> SUFFICES ASSUME IInv, Skip PROVE IInv'
  OBVIOUS
<1>a. /\ ngotos' = ngotos /\ R' = R /\ F0' = F0 /\ F' = F /\ INDEX' = INDEX
      /\ VERTICES' = VERTICES /\ top' = top /\ depth' = depth /\ stack' = stack
      /\ height' = height /\ rp' = rp /\ i' = i + 1 /\ depth = 0 /\ i < ngotos
  BY DEF Skip, input
<1>1. TypeOK'
  <2>1. InputOK'
    BY <1>a DEF IInv, TypeOK, InputOK, Gotos
  <2>2. ngotos \in Nat /\ i \in 0 .. ngotos
    BY DEF IInv, TypeOK, InputOK
  <2>3. i' \in 0 .. ngotos
    BY <1>a, <2>2
  <2> QED BY <1>a, <2>1, <2>3 DEF IInv, TypeOK, Gotos, infinity
<1>2. StackOK' /\ CallsOK' /\ PassedOK'
  BY <1>a DEF IInv, StackOK, CallsOK, PassedOK, OnStack, New, Final, Active, Gotos, infinity
<1>3. MergedOK' /\ BelowOK'
  BY <1>a DEF IInv, MergedOK, BelowOK, OnStack, New, Final, Gotos, infinity
<1>4. HandedOK' /\ GrowsOK'
  BY <1>a DEF IInv, HandedOK, GrowsOK, Nearest, OnStack, New, Gotos
<1>5. LoopOK'
  <2>1. ASSUME NEW v \in Gotos, v < i + 1, New(v) PROVE R[v] = << >>
    <3>1. CASE v = i
      BY <2>1, <3>1 DEF Skip
    <3>2. CASE v < i
      BY <2>1, <3>2 DEF IInv, LoopOK
    <3>3. v \in Int /\ i \in Int
      BY DEF IInv, TypeOK, Gotos
    <3> QED BY <2>1, <3>1, <3>2, <3>3
  <2> QED BY <1>a, <2>1 DEF LoopOK, New, Gotos
<1> QED BY <1>1, <1>2, <1>3, <1>4, <1>5 DEF IInv

LEMMA MergeInv == IInv /\ Merge => IInv'
<1> SUFFICES ASSUME IInv, Merge PROVE IInv'
  OBVIOUS
<1>p. PICK c, t : c = cur /\ t = target
  OBVIOUS
<1>a. /\ ngotos' = ngotos /\ R' = R /\ F0' = F0 /\ VERTICES' = VERTICES /\ top' = top
      /\ depth' = depth /\ stack' = stack /\ height' = height /\ i' = i
      /\ Gotos' = Gotos /\ infinity' = infinity /\ infinity = ngotos + 2
      /\ depth > 0 /\ rp[c] <= Len(R[c]) /\ ~New(t)
  BY <1>p DEF Merge, input, Gotos, infinity
<1>b. /\ depth \in 1 .. depth /\ ngotos \in Nat /\ c \in Gotos /\ OnStack(c) /\ ~Final(c)
      /\ rp[c] \in Nat /\ Len(R[c]) \in Nat /\ rp[c] \in 1 .. Len(R[c]) 
      /\ INDEX[c] \in 1 .. ngotos /\ height[c] \in Nat /\ INDEX[c] <= height[c]
      /\ c = stack[depth] /\ t = R[c][rp[c]]
      /\ \A d \in 1 .. depth : d < depth => height[stack[d]] < height[c] /\ stack[d] # c
  BY <1>a, <1>p, CurFacts DEF cur, target
<1>c. t \in Gotos
  BY <1>b, EdgeIsGoto DEF IInv
<1>d. \/ Final(t) /\ INDEX[t] = infinity
      \/ OnStack(t) /\ INDEX[t] \in 1 .. ngotos /\ height[t] \in Nat /\ INDEX[t] <= height[t]
  BY <1>a, <1>c, Placed DEF IInv, StackOK, Final
<1>e. /\ \A w \in Gotos : w # c => INDEX'[w] = INDEX[w]
      /\ INDEX'[c] = IF INDEX[c] > INDEX[t] THEN INDEX[t] ELSE INDEX[c]
  BY <1>b, <1>p DEF Merge, IInv, TypeOK
<1>f. /\ \A w \in Gotos : w # c => F'[w] = F[w]
      /\ F'[c] = F[c] \cup F[t]
  BY <1>b, <1>p DEF Merge, IInv, TypeOK
<1>g. /\ \A w \in Gotos : w # c => rp'[w] = rp[w]
      /\ rp'[c] = rp[c] + 1
  BY <1>b, <1>p DEF Merge, IInv, TypeOK
<1>h. INDEX'[c] \in 1 .. ngotos /\ INDEX'[c] <= INDEX[c] /\ INDEX'[c] <= INDEX[t]
  BY <1>a, <1>b, <1>d, <1>e, SMTT(20)
<1>i. \A w \in Gotos : /\ OnStack(w)' <=> OnStack(w)
                       /\ Final(w)' <=> Final(w)
                       /\ New(w)' <=> New(w)
                       /\ OnStack(w) => INDEX'[w] <= INDEX[w] /\ INDEX'[w] \in Nat /\ INDEX[w] \in Nat
                       /\ F[w] \subseteq F'[w]
  <2> SUFFICES ASSUME NEW w \in Gotos
               PROVE  /\ OnStack(w)' <=> OnStack(w)
                      /\ Final(w)' <=> Final(w)
                      /\ New(w)' <=> New(w)
                      /\ OnStack(w) => INDEX'[w] <= INDEX[w] /\ INDEX'[w] \in Nat /\ INDEX[w] \in Nat
                      /\ F[w] \subseteq F'[w]
    OBVIOUS
  <2>1. CASE w # c
    BY <2>1, <1>a, <1>b, <1>e, <1>f, SMTT(20) DEF OnStack, New, Final
  <2>2. CASE w = c
    <3>1. INDEX'[w] \in 1 .. ngotos /\ INDEX[w] \in 1 .. ngotos /\ INDEX'[w] <= INDEX[w]
      BY <2>2, <1>b, <1>h
    <3>2. OnStack(w)' /\ OnStack(w) /\ ~Final(w)' /\ ~Final(w) /\ ~New(w)' /\ ~New(w)
      BY <3>1, <1>a, <1>b DEF OnStack, New, Final
    <3>3. F[w] \subseteq F'[w]
      BY <2>2, <1>f
    <3> QED BY <3>1, <3>2, <3>3
  <2> QED BY <2>1, <2>2
<1>1. TypeOK'
  <2>1. InputOK'
    BY <1>a DEF IInv, TypeOK, InputOK
  <2>2. INDEX' \in [Gotos -> 0 .. infinity]
    <3>1. INDEX \in [Gotos -> 0 .. infinity]
      BY DEF IInv, TypeOK
    <3>2. (IF INDEX[c] > INDEX[t] THEN INDEX[t] ELSE INDEX[c]) \in 0 .. infinity
      BY <3>1, <1>b, <1>c
    <3> QED BY <3>1, <3>2, <1>p DEF Merge
  <2>3. rp' \in [Gotos -> Nat]
    <3>1. rp \in [Gotos -> Nat]
      BY DEF IInv, TypeOK
    <3>2. rp[c] + 1 \in Nat
      BY <1>b
    <3> QED BY <3>1, <3>2, <1>p DEF Merge
  <2>4. F' \in [Gotos -> SUBSET Tokens]
    <3>1. F \in [Gotos -> SUBSET Tokens]
      BY DEF IInv, TypeOK
    <3>2. F[c] \cup F[t] \in SUBSET Tokens
      BY <3>1, <1>b, <1>c
    <3> QED BY <3>1, <3>2, <1>p DEF Merge
  <2> QED BY <2>1, <2>2, <2>3, <2>4, <1>a DEF IInv, TypeOK
<1>2. StackOK'
  <2>1. ASSUME NEW k \in 1 .. top
        PROVE  VERTICES[k] \in Gotos /\ OnStack(VERTICES[k]) /\ height[VERTICES[k]] = k
    BY DEF IInv, StackOK
  <2>2. ASSUME NEW w \in Gotos, ~New(w), ~Final(w)
        PROVE  /\ OnStack(w) /\ height[w] \in 1 .. top
               /\ VERTICES[height[w]] = w /\ INDEX'[w] <= height[w]
    <3>1. OnStack(w) /\ height[w] \in 1 .. top /\ VERTICES[height[w]] = w /\ INDEX[w] <= height[w]
      BY <2>2 DEF IInv, StackOK
    <3> QED BY <3>1, <1>i
  <2>3. \A k \in 1 .. top : OnStack(VERTICES[k])' 
    BY <2>1, <1>a, <1>i DEF OnStack
  <2> QED BY <2>1, <2>2, <2>3, <1>a, <1>i DEF StackOK
<1>3. CallsOK'
  <2>1. ASSUME NEW d \in 1 .. depth
        PROVE  OnStack(stack[d])' /\ rp'[stack[d]] \in 1 .. Len(R[stack[d]]) + 1
    <3>1. stack[d] \in Gotos /\ OnStack(stack[d]) /\ rp[stack[d]] \in 1 .. Len(R[stack[d]]) + 1
      BY DEF IInv, CallsOK
    <3>2. OnStack(stack[d])'
      BY <3>1, <1>a, <1>i DEF OnStack
    <3>3. CASE stack[d] = c
      <4>1. rp[c] + 1 \in 1 .. Len(R[c]) + 1
        BY <1>b
      <4> QED BY <3>2, <3>3, <4>1, <1>g
    <3>4. CASE stack[d] # c
      BY <3>1, <3>2, <3>4, <1>g
    <3> QED BY <3>3, <3>4
  <2>2. ASSUME NEW d \in 1 .. depth - 1
        PROVE  /\ rp'[stack[d]] <= Len(R[stack[d]])
               /\ stack[d + 1] = R[stack[d]][rp'[stack[d]]]
    <3>1. d \in 1 .. depth /\ d < depth
      BY <1>b
    <3>2. stack[d] \in Gotos /\ stack[d] # c
      BY <3>1, <1>b DEF IInv, CallsOK
    <3> QED BY <3>2, <1>g DEF IInv, CallsOK
  <2> QED BY <2>1, <2>2, <1>a DEF IInv, CallsOK
<1>4. PassedOK'
  <2> SUFFICES ASSUME NEW w \in Gotos, ~New(w)', ~Active(w)'
               PROVE  rp'[w] = Len(R[w]) + 1 /\ (OnStack(w)' => INDEX'[w] < height[w])
    BY <1>a DEF PassedOK
  <2>1. w # c /\ ~Active(w)
    BY <1>a, <1>b DEF Active
  <2> QED BY <2>1, <1>e, <1>g, <1>i DEF IInv, PassedOK
<1>5. MergedOK'
  <2> SUFFICES ASSUME NEW w \in Gotos, ~New(w)', NEW k \in 1 .. rp'[w] - 1
               PROVE  \/ Final(R[w][k])' /\ F'[R[w][k]] \subseteq F'[w]
                      \/ /\ OnStack(w)' /\ OnStack(R[w][k])'
                         /\ INDEX'[w] <= height[R[w][k]]
    BY <1>a DEF MergedOK
  <2>p. PICK u : u = R[w][k]
    OBVIOUS
  <2>0. ~New(w)
    BY <1>i
  <2>1. CASE w = c /\ k = rp[c]
    <3>1. u = t
      BY <2>p, <2>1, <1>b
    <3>2. CASE Final(t)
      <4>1. t # c /\ F'[t] = F[t] /\ Final(t)'
        BY <3>2, <1>b, <1>c, <1>f, <1>i
      <4> QED BY <2>p, <2>1, <3>1, <4>1, <1>a, <1>f DEF Final
    <3>3. CASE OnStack(t) /\ INDEX[t] \in 1 .. ngotos /\ height[t] \in Nat /\ INDEX[t] <= height[t]
      <4>1. INDEX'[c] <= height[t] /\ OnStack(t)' /\ OnStack(c)'
        BY <3>3, <1>b, <1>c, <1>h, <1>i
      <4> QED BY <2>p, <2>1, <3>1, <4>1, <1>a DEF OnStack
    <3> QED BY <3>2, <3>3, <1>d
  <2>2. CASE ~(w = c /\ k = rp[c])
    <3>1. k \in 1 .. rp[w] - 1
      BY <2>2, <1>b, <1>g
    <3>2. u \in Gotos
      BY <2>p, <2>0, <3>1, MergedEdge
    <3>3. CASE Final(u) /\ F[u] \subseteq F[w]
      <4>1. u # c /\ F'[u] = F[u] /\ Final(u)'
        BY <3>2, <3>3, <1>b, <1>f, <1>i
      <4>2. F'[u] \subseteq F'[w]
        BY <3>3, <4>1, <1>i
      <4> QED BY <2>p, <4>1, <4>2, <1>a DEF Final
    <3>4. CASE OnStack(w) /\ OnStack(u) /\ INDEX[w] <= height[u]
      <4>1. height[u] \in Nat /\ INDEX'[w] <= INDEX[w] /\ INDEX'[w] \in Nat /\ INDEX[w] \in Nat
        BY <3>2, <3>4, <1>i, Placed
      <4>2. OnStack(w)' /\ OnStack(u)' /\ INDEX'[w] <= height[u]
        BY <3>2, <3>4, <4>1, <1>i
      <4> QED BY <2>p, <4>2, <1>a DEF OnStack
    <3> QED BY <2>p, <2>0, <3>1, <3>3, <3>4 DEF IInv, MergedOK
  <2> QED BY <2>1, <2>2
<1>6. BelowOK'
  <2> SUFFICES ASSUME NEW d \in 1 .. depth, NEW w \in Gotos, OnStack(w)',
                      height[w] < height[stack[d]],
                      NEW k \in 1 .. rp'[w] - 1, OnStack(R[w][k])'
               PROVE  height[R[w][k]] < height[stack[d]]
    BY <1>a DEF BelowOK
  <2>1. w # c
    <3>1. \/ d = depth
          \/ d < depth
      BY <1>b
    <3>2. height[stack[d]] \in Nat
      BY Placed DEF IInv, CallsOK
    <3> QED BY <3>1, <3>2, <1>b
  <2>2. OnStack(w) /\ ~New(w) /\ k \in 1 .. rp[w] - 1
    BY <2>1, <1>i, <1>g, Placed
  <2>3. R[w][k] \in Gotos
    BY <2>2, MergedEdge
  <2>4. OnStack(R[w][k])
    BY <2>3, <1>a, <1>i DEF OnStack
  <2> QED BY <2>2, <2>4 DEF IInv, BelowOK
<1>7. HandedOK'
  <2> SUFFICES ASSUME NEW w \in Gotos, OnStack(w)', NEW d \in 1 .. depth, Nearest(d, w)'
               PROVE  F'[w] \subseteq F'[stack[d]] /\ INDEX'[stack[d]] <= INDEX'[w]
    BY <1>a DEF HandedOK
  <2>1. OnStack(w) /\ Nearest(d, w) /\ height[w] \in Nat /\ INDEX[w] \in Nat
    BY <1>a, <1>i, Placed DEF Nearest
  <2>2. CASE d = depth
    <3>1. stack[d] = c /\ w # c
      BY <2>1, <2>2, <1>b DEF Nearest
    <3>2. F'[w] = F[w] /\ INDEX'[w] = INDEX[w]
      BY <3>1, <1>e, <1>f
    <3>3. CASE F[w] \subseteq F[c] /\ INDEX[c] <= INDEX[w]
      BY <2>1, <3>1, <3>2, <3>3, <1>b, <1>f, <1>h, SMTT(20)
    <3>4. CASE F[w] \subseteq F[t] /\ INDEX[t] <= INDEX[w]
      <4>1. INDEX[t] \in Nat
        BY <1>a, <1>b, <1>d, SMTT(20)
      <4>2. F'[stack[d]] = F[c] \cup F[t] /\ INDEX'[stack[d]] \in Nat /\ INDEX'[stack[d]] <= INDEX[t]
        <5>1. INDEX'[c] \in Nat /\ INDEX'[c] <= INDEX[t]
          BY <1>h
        <5> QED BY <3>1, <5>1, <1>f
      <4>3. F'[w] \subseteq F'[stack[d]]
        BY <3>2, <3>4, <4>2
      <4>4. INDEX'[stack[d]] <= INDEX'[w]
        BY <2>1, <3>2, <3>4, <4>1, <4>2
      <4> QED BY <4>3, <4>4
    <3> QED BY <2>1, <3>1, <3>3, <3>4, <1>b DEF IInv, HandedOK
  <2>3. CASE d # depth
    <3>1. d < depth /\ stack[d] # c /\ stack[d] \in Gotos
      BY <2>3, <1>b DEF IInv, CallsOK
    <3>2. w # c
      <4>1. d + 1 \in 1 .. depth /\ height[w] < height[stack[d + 1]]
        BY <3>1, <2>1, <1>b DEF Nearest
      <4>2. d + 1 = depth \/ height[stack[d + 1]] < height[c]
        BY <4>1, <1>b
      <4>3. height[stack[d + 1]] \in Nat
        BY <4>1, Placed DEF IInv, CallsOK
      <4> QED BY <4>1, <4>2, <4>3, <1>b
    <3> QED BY <2>1, <2>3, <3>1, <3>2, <1>e, <1>f DEF IInv, HandedOK
  <2> QED BY <2>2, <2>3
<1>8. GrowsOK'
  <2> SUFFICES ASSUME NEW w \in Gotos PROVE F0[w] \subseteq F'[w] /\ (New(w)' => F'[w] = F0[w])
    BY <1>a DEF GrowsOK
  <2>1. F0[w] \subseteq F[w] /\ (New(w) => F[w] = F0[w])
    BY DEF IInv, GrowsOK
  <2>2. New(w) => w # c
    BY <1>b DEF New, OnStack
  <2> QED BY <2>1, <2>2, <1>f, <1>i
<1>9. LoopOK'
  BY <1>a, <1>i DEF IInv, LoopOK
<1> QED BY <1>1, <1>2, <1>3, <1>4, <1>5, <1>6, <1>7, <1>8, <1>9 DEF IInv

LEMMA ReturnInv == IInv /\ Return => IInv'
<1> SUFFICES ASSUME IInv, Return PROVE IInv'
  OBVIOUS
<1>p. PICK c : c = cur
  OBVIOUS
<1>a. /\ ngotos' = ngotos /\ R' = R /\ F0' = F0 /\ F' = F /\ INDEX' = INDEX
      /\ VERTICES' = VERTICES /\ top' = top /\ stack' = stack
      /\ height' = height /\ rp' = rp /\ i' = i /\ depth' = depth - 1
      /\ Gotos' = Gotos /\ infinity' = infinity
      /\ depth > 0 /\ rp[c] > Len(R[c]) /\ INDEX[c] # height[c]
  BY <1>p DEF Return, input, Gotos, infinity
<1>b. /\ depth \in 1 .. depth /\ depth \in Nat /\ ngotos \in Nat /\ c \in Gotos /\ OnStack(c)
      /\ rp[c] = Len(R[c]) + 1 /\ INDEX[c] \in 1 .. ngotos /\ height[c] \in Nat
      /\ INDEX[c] < height[c] /\ VERTICES[height[c]] = c /\ c = stack[depth]
      /\ \A d \in 1 .. depth : d < depth => height[stack[d]] < height[c] /\ stack[d] # c
  BY <1>a, <1>p, CurFacts, SMTT(20) DEF cur
<1>c. depth > 1
  <2> SUFFICES ASSUME depth = 1 PROVE FALSE
    BY <1>b
  <2> QED BY <1>b DEF IInv, CallsOK
<1>d. \A d \in 1 .. depth' : d \in 1 .. depth /\ d < depth
  BY <1>a, <1>b
<1>e. \A w \in Gotos : /\ OnStack(w)' <=> OnStack(w)
                       /\ Final(w)' <=> Final(w)
                       /\ New(w)' <=> New(w)
  BY <1>a DEF OnStack, Final, New
<1>1. TypeOK'
  <2>1. InputOK'
    BY <1>a DEF IInv, TypeOK, InputOK
  <2>2. depth' \in 0 .. top
    <3>1. depth \in 0 .. top /\ top \in Nat
      BY DEF IInv, TypeOK, InputOK
    <3> QED BY <3>1, <1>a
  <2> QED BY <1>a, <2>1, <2>2 DEF IInv, TypeOK
<1>2. StackOK' /\ MergedOK' /\ GrowsOK'
  BY <1>a DEF IInv, StackOK, MergedOK, GrowsOK, OnStack, Final, New
<1>3. CallsOK'
  <2>1. (\A d \in 1 .. depth - 1 : /\ rp[stack[d]] <= Len(R[stack[d]])
                                   /\ stack[d + 1] = R[stack[d]][rp[stack[d]]])'
    <3>1. \A d \in 1 .. depth' - 1 : d \in 1 .. depth - 1
      BY <1>a, <1>b
    <3> QED BY <1>a, <3>1 DEF IInv, CallsOK
  <2>2. \A d, e \in 1 .. depth' : d < e => height[stack[d]] < height[stack[e]]
    BY <1>d DEF IInv, CallsOK
  <2>3. \A d \in 1 .. depth' : /\ stack[d] \in Gotos /\ OnStack(stack[d]) /\ d <= height[stack[d]]
                               /\ rp[stack[d]] \in 1 .. Len(R[stack[d]]) + 1
    BY <1>d DEF IInv, CallsOK
  <2>4. height[stack[1]] = 1 /\ depth' # 0
    BY <1>a, <1>b, <1>c DEF IInv, CallsOK
  <2> QED BY <2>1, <2>2, <2>3, <2>4, <1>a DEF CallsOK, OnStack
<1>4. PassedOK'
  <2> SUFFICES ASSUME NEW w \in Gotos, ~New(w), ~Active(w)'
               PROVE  rp[w] = Len(R[w]) + 1 /\ (OnStack(w) => INDEX[w] < height[w])
    BY <1>a, <1>e DEF PassedOK
  <2>1. CASE w = c
    BY <2>1, <1>b
  <2>2. CASE w # c
    <3>1. ~Active(w)
      <4> SUFFICES ASSUME NEW d \in 1 .. depth, stack[d] = w PROVE FALSE
        BY DEF Active
      <4>1. d \in 1 .. depth'
        BY <2>2, <1>a, <1>b
      <4> QED BY <4>1, <1>a DEF Active
    <3> QED BY <3>1 DEF IInv, PassedOK
  <2> QED BY <2>1, <2>2
<1>5. BelowOK'
  BY <1>a, <1>d DEF IInv, BelowOK, OnStack
<1>6. HandedOK'
  <2> SUFFICES ASSUME NEW w \in Gotos, OnStack(w), NEW d \in 1 .. depth', Nearest(d, w)'
               PROVE
        \/ F[w] \subseteq F[stack[d]] /\ INDEX[stack[d]] <= INDEX[w]
        \/ /\ d = depth'
           /\ rp[stack[d]] <= Len(R[stack[d]])
           /\ ~New(c) /\ R[stack[d]][rp[stack[d]]] = c
           /\ F[w] \subseteq F[c] /\ INDEX[c] <= INDEX[w]
    BY <1>a, <1>e DEF HandedOK, New
  <2>1. d \in 1 .. depth /\ d < depth /\ height[stack[d]] < height[w]
        /\ height[w] \in Nat /\ VERTICES[height[w]] = w
    BY <1>a, <1>d, Placed DEF Nearest
  <2>2. CASE d < depth'
    <3>1. Nearest(d, w)
      BY <2>2, <1>a DEF Nearest
    <3> QED BY <2>1, <3>1 DEF IInv, HandedOK
  <2>3. CASE d = depth' /\ height[w] < height[c]
    <3>1. stack[d + 1] = c
      BY <2>3, <1>a, <1>b
    <3>2. Nearest(d, w)
      BY <2>1, <2>3, <3>1 DEF Nearest
    <3> QED BY <2>1, <3>2 DEF IInv, HandedOK
  <2>4. CASE d = depth' /\ height[w] >= height[c]
    <3>1. F[w] \subseteq F[c] /\ INDEX[c] <= INDEX[w]
      <4>1. CASE height[w] = height[c]
        <5>1. w = c
          BY <4>1, <2>1, <1>b
        <5> QED BY <5>1, <1>b
      <4>2. CASE height[w] > height[c]
        <5>1. Nearest(depth, w)
          BY <4>2, <1>b DEF Nearest
        <5>2. ~(rp[c] <= Len(R[c]))
          BY <1>b DEF IInv, TypeOK, InputOK
        <5> QED BY <5>1, <5>2, <1>b DEF IInv, HandedOK
      <4> QED BY <4>1, <4>2, <2>1, <2>4, <1>b
    <3>2. d \in 1 .. depth - 1 /\ stack[d + 1] = c
      BY <2>4, <1>a, <1>b
    <3>3. rp[stack[d]] <= Len(R[stack[d]]) /\ R[stack[d]][rp[stack[d]]] = c
      BY <3>2 DEF IInv, CallsOK
    <3>4. ~New(c)
      BY <1>b DEF New
    <3> QED BY <2>4, <3>1, <3>3, <3>4
  <2>5. d = depth' \/ d < depth'
    BY <1>a, <1>b
  <2> QED BY <2>1, <2>2, <2>3, <2>4, <2>5, <1>b
<1>7. LoopOK'
  BY <1>a, <1>b DEF IInv, LoopOK, New
<1> QED BY <1>1, <1>2, <1>3, <1>4, <1>5, <1>6, <1>7 DEF IInv

(* What Close does, for a goto c that is the root of its component. *)
LEMMA CloseFacts ==
    ASSUME IInv, Close, NEW c, c = cur
    PROVE
      /\ ngotos' = ngotos /\ R' = R /\ F0' = F0 /\ VERTICES' = VERTICES /\ stack' = stack
      /\ height' = height /\ rp' = rp /\ i' = i /\ depth' = depth - 1
      /\ top' = height[c] - 1 /\ Gotos' = Gotos /\ infinity' = infinity
      /\ depth > 0 /\ depth \in 1 .. depth /\ depth \in Nat /\ ngotos \in Nat /\ top \in Nat
      /\ c \in Gotos /\ OnStack(c) /\ c = stack[depth]
      /\ rp[c] = Len(R[c]) + 1 /\ height[c] \in 1 .. top
      /\ \A d \in 1 .. depth : d < depth => height[stack[d]] < height[c] /\ stack[d] # c
      /\ \A d \in 1 .. depth' : d \in 1 .. depth /\ d < depth
      /\ \A w \in Gotos :
            /\ w \in Component <=> OnStack(w) /\ height[w] >= height[c]
            /\ w \in Component => Final(w)' /\ F'[w] = F[c]
            /\ w \notin Component => INDEX'[w] = INDEX[w] /\ F'[w] = F[w]
            /\ New(w)' <=> New(w)
            /\ Final(w)' <=> Final(w) \/ w \in Component
            /\ OnStack(w)' <=> OnStack(w) /\ height[w] < height[c]
<1>a. /\ ngotos' = ngotos /\ R' = R /\ F0' = F0 /\ VERTICES' = VERTICES /\ stack' = stack
      /\ height' = height /\ rp' = rp /\ i' = i /\ depth' = depth - 1
      /\ top' = height[c] - 1 /\ Gotos' = Gotos /\ infinity' = infinity
      /\ depth > 0 /\ rp[c] > Len(R[c]) /\ INDEX[c] = height[c] /\ infinity = ngotos + 2
  BY DEF Close, input, Gotos, infinity
<1>b. /\ depth \in 1 .. depth /\ depth \in Nat /\ ngotos \in Nat /\ top \in Nat
      /\ c \in Gotos /\ OnStack(c) /\ c = stack[depth]
      /\ rp[c] = Len(R[c]) + 1 /\ height[c] \in 1 .. top
      /\ \A d \in 1 .. depth : d < depth => height[stack[d]] < height[c] /\ stack[d] # c
  <2>1. c = stack[depth]
    BY DEF cur
  <2>2. /\ rp[c] \in Nat /\ Len(R[c]) \in Nat /\ rp[c] \in 1 .. Len(R[c]) + 1
        /\ depth \in 1 .. depth /\ depth \in Nat /\ ngotos \in Nat /\ top \in Nat
        /\ c \in Gotos /\ OnStack(c) /\ height[c] \in 1 .. top
        /\ \A d \in 1 .. depth : d < depth => height[stack[d]] < height[c] /\ stack[d] # c
    BY <1>a, CurFacts
  <2>3. rp[c] = Len(R[c]) + 1
    BY <1>a, <2>2
  <2> QED BY <2>1, <2>2, <2>3
<1>c. \A d \in 1 .. depth' : d \in 1 .. depth /\ d < depth
  BY <1>a, <1>b
<1>d. ASSUME NEW w \in Gotos
      PROVE
            /\ w \in Component <=> OnStack(w) /\ height[w] >= height[c]
            /\ w \in Component => Final(w)' /\ F'[w] = F[c]
            /\ w \notin Component => INDEX'[w] = INDEX[w] /\ F'[w] = F[w]
            /\ New(w)' <=> New(w)
            /\ Final(w)' <=> Final(w) \/ w \in Component
            /\ OnStack(w)' <=> OnStack(w) /\ height[w] < height[c]
  <2>1. w \in Component => OnStack(w) /\ height[w] >= height[c]
    <3> SUFFICES ASSUME NEW k \in height[c] .. top, w = VERTICES[k]
                 PROVE  OnStack(w) /\ height[w] >= height[c]
      BY DEF Component
    <3>1. k \in 1 .. top /\ k >= height[c]
      BY <1>b
    <3> QED BY <3>1 DEF IInv, StackOK
  <2>2. OnStack(w) /\ height[w] >= height[c] => w \in Component
    <3> SUFFICES ASSUME OnStack(w), height[w] >= height[c] PROVE w \in Component
      OBVIOUS
    <3>1. height[w] \in 1 .. top /\ VERTICES[height[w]] = w
      BY Placed
    <3>2. height[w] \in height[c] .. top
      BY <3>1, <1>b
    <3> QED BY <3>1, <3>2 DEF Component
  <2>3. w \in Component => INDEX'[w] = infinity /\ F'[w] = F[c]
    BY DEF Close
  <2>4. w \notin Component => INDEX'[w] = INDEX[w] /\ F'[w] = F[w]
    BY DEF Close
  <2>5. OnStack(w) => height[w] \in Nat /\ INDEX[w] \in 1 .. ngotos
    BY Placed
  <2>6. Final(w)' <=> INDEX'[w] = infinity
    BY <1>a DEF Final
  <2>7. New(w)' <=> INDEX'[w] = 0
    BY DEF New
  <2>8. OnStack(w)' <=> INDEX'[w] \in 1 .. ngotos
    BY <1>a DEF OnStack
  <2>9. infinity # 0 /\ infinity \notin 1 .. ngotos
    BY <1>a, <1>b
  <2>10. CASE w \in Component
    <3>1. ~New(w) /\ OnStack(w) /\ height[w] >= height[c] /\ ~(height[w] < height[c])
      BY <2>10, <2>1, <2>5, <1>b, Placed
    <3> QED BY <2>10, <3>1, <2>3, <2>6, <2>7, <2>8, <2>9
  <2>11. CASE w \notin Component
    <3>1. OnStack(w) => height[w] < height[c]
      BY <2>11, <2>2, <2>5, <1>b
    <3>2. INDEX'[w] = INDEX[w] /\ F'[w] = F[w]
      BY <2>11, <2>4
    <3>3. New(w)' <=> New(w)
      BY <3>2, <2>7 DEF New
    <3>4. Final(w)' <=> Final(w)
      BY <3>2, <2>6 DEF Final
    <3>5. OnStack(w)' <=> OnStack(w)
      BY <3>2, <2>8 DEF OnStack
    <3> QED BY <2>11, <3>1, <2>1, <2>2, <3>2, <3>3, <3>4, <3>5
  <2> QED BY <2>10, <2>11, <2>1, <2>2
<1> QED BY <1>a, <1>b, <1>c, <1>d

LEMMA CloseInv == IInv /\ Close => IInv'
<1> SUFFICES ASSUME IInv, Close PROVE IInv'
  OBVIOUS
<1>p. PICK c : c = cur
  OBVIOUS
<1>a. /\ ngotos' = ngotos /\ R' = R /\ F0' = F0 /\ VERTICES' = VERTICES /\ stack' = stack
      /\ height' = height /\ rp' = rp /\ i' = i /\ depth' = depth - 1
      /\ top' = height[c] - 1 /\ Gotos' = Gotos /\ infinity' = infinity
  BY <1>p, CloseFacts
<1>b. /\ depth > 0 /\ depth \in 1 .. depth /\ depth \in Nat /\ ngotos \in Nat /\ top \in Nat
      /\ c \in Gotos /\ OnStack(c) /\ c = stack[depth]
      /\ rp[c] = Len(R[c]) + 1 /\ height[c] \in 1 .. top
      /\ \A d \in 1 .. depth : d < depth => height[stack[d]] < height[c] /\ stack[d] # c
      /\ \A d \in 1 .. depth' : d \in 1 .. depth /\ d < depth
  BY <1>p, CloseFacts
<1>c. \A w \in Gotos :
            /\ w \in Component <=> OnStack(w) /\ height[w] >= height[c]
            /\ w \in Component => Final(w)' /\ F'[w] = F[c]
            /\ w \notin Component => INDEX'[w] = INDEX[w] /\ F'[w] = F[w]
            /\ New(w)' <=> New(w)
            /\ Final(w)' <=> Final(w) \/ w \in Component
            /\ OnStack(w)' <=> OnStack(w) /\ height[w] < height[c]
  BY <1>p, CloseFacts
<1>d. \A w \in Gotos : OnStack(w)' => w \notin Component /\ OnStack(w)
                                      /\ INDEX'[w] = INDEX[w] /\ F'[w] = F[w]
  BY <1>b, <1>c, Placed
<1>e. \A w \in Gotos : OnStack(w) /\ height[w] > height[c] => Nearest(depth, w)
  BY <1>b DEF Nearest
<1>f. \A w \in Gotos : w \in Component => F[w] \subseteq F[c] /\ INDEX[w] >= height[c]
  <2> SUFFICES ASSUME NEW w \in Gotos, w \in Component
               PROVE  F[w] \subseteq F[c] /\ INDEX[w] >= height[c]
    OBVIOUS
  <2>0. INDEX[c] = height[c] /\ ~(rp[c] <= Len(R[c]))
    <3>1. INDEX[c] = height[c]
      BY <1>p DEF Close
    <3>2. Len(R[c]) \in Nat
      BY <1>b DEF IInv, TypeOK, InputOK
    <3> QED BY <3>1, <3>2, <1>b
  <2>1. OnStack(w) /\ height[w] >= height[c] /\ height[w] \in 1 .. top
        /\ VERTICES[height[w]] = w /\ INDEX[w] \in 1 .. ngotos
    BY <1>c, Placed
  <2>2. CASE height[w] = height[c]
    <3>1. w = c
      BY <2>1, <2>2, <1>b, Placed
    <3> QED BY <3>1, <2>0, <1>b
  <2>3. CASE height[w] > height[c]
    <3>1. Nearest(depth, w)
      BY <2>1, <2>3, <1>e
    <3>2. F[w] \subseteq F[c] /\ INDEX[c] <= INDEX[w]
      BY <2>0, <2>1, <3>1, <1>b DEF IInv, HandedOK
    <3> QED BY <3>2, <2>0, <2>1, <1>b
  <2> QED BY <2>1, <2>2, <2>3, <1>b
<1>1. TypeOK'
  <2>1. InputOK'
    BY <1>a DEF IInv, TypeOK, InputOK
  <2>2. INDEX' \in [Gotos -> 0 .. infinity]
    <3>1. INDEX \in [Gotos -> 0 .. infinity] /\ infinity \in 0 .. infinity
      BY <1>b DEF IInv, TypeOK, infinity
    <3> QED BY <3>1 DEF Close
  <2>3. F' \in [Gotos -> SUBSET Tokens]
    <3>1. F \in [Gotos -> SUBSET Tokens] /\ F[c] \in SUBSET Tokens
      BY <1>b DEF IInv, TypeOK
    <3> QED BY <3>1, <1>p DEF Close
  <2>4. top' \in 0 .. ngotos
    <3>1. top \in 0 .. ngotos
      BY DEF IInv, TypeOK
    <3> QED BY <3>1, <1>a, <1>b
  <2>5. depth' \in 0 .. top'
    <3>1. depth <= height[c]
      BY <1>b DEF IInv, CallsOK
    <3> QED BY <3>1, <1>a, <1>b
  <2> QED BY <2>1, <2>2, <2>3, <2>4, <2>5, <1>a DEF IInv, TypeOK
<1>2. StackOK'
  <2>1. ASSUME NEW k \in 1 .. height[c] - 1
        PROVE  VERTICES[k] \in Gotos /\ OnStack(VERTICES[k])' /\ height[VERTICES[k]] = k
    <3>1. k \in 1 .. top /\ k < height[c]
      BY <1>b
    <3>2. VERTICES[k] \in Gotos /\ OnStack(VERTICES[k]) /\ height[VERTICES[k]] = k
      BY <3>1 DEF IInv, StackOK
    <3>3. PICK w \in Gotos : w = VERTICES[k]
      BY <3>2
    <3>4. OnStack(w)'
      BY <3>1, <3>2, <3>3, <1>c
    <3> QED BY <3>2, <3>3, <3>4, <1>a DEF OnStack
  <2>2. ASSUME NEW w \in Gotos
        PROVE  \/ New(w)' \/ Final(w)'
               \/ /\ OnStack(w)' /\ height[w] \in 1 .. height[c] - 1
                  /\ VERTICES[height[w]] = w /\ INDEX'[w] <= height[w]
    <3>1. CASE New(w) \/ Final(w)
      BY <3>1, <1>c
    <3>2. CASE OnStack(w) /\ height[w] >= height[c]
      BY <3>2, <1>c
    <3>3. CASE OnStack(w) /\ height[w] < height[c]
      <4>1. height[w] \in 1 .. top /\ VERTICES[height[w]] = w /\ INDEX[w] <= height[w]
        BY <3>3, Placed
      <4>2. OnStack(w)' /\ INDEX'[w] = INDEX[w]
        BY <3>3, <1>c, <1>d
      <4> QED BY <3>3, <4>1, <4>2, <1>b
    <3>4. OnStack(w) => height[w] \in Nat
      BY Placed
    <3> QED BY <3>1, <3>2, <3>3, <3>4, <1>b DEF IInv, StackOK
  <2> QED BY <2>1, <2>2, <1>a DEF StackOK
<1>3. CallsOK'
  <2>1. (\A d \in 1 .. depth - 1 : /\ rp[stack[d]] <= Len(R[stack[d]])
                                   /\ stack[d + 1] = R[stack[d]][rp[stack[d]]])'
    BY <1>a, <1>b, SMTT(20) DEF IInv, CallsOK
  <2>2. \A d, e \in 1 .. depth' : d < e => height[stack[d]] < height[stack[e]]
    BY <1>b DEF IInv, CallsOK
  <2>3. ASSUME NEW d \in 1 .. depth'
        PROVE  /\ stack[d] \in Gotos /\ OnStack(stack[d])' /\ d <= height[stack[d]]
               /\ rp[stack[d]] \in 1 .. Len(R[stack[d]]) + 1
    <3>1. d \in 1 .. depth /\ d < depth
      BY <1>b
    <3>2. /\ stack[d] \in Gotos /\ OnStack(stack[d]) /\ d <= height[stack[d]]
          /\ rp[stack[d]] \in 1 .. Len(R[stack[d]]) + 1
      BY <3>1 DEF IInv, CallsOK
    <3>3. PICK w \in Gotos : w = stack[d]
      BY <3>2
    <3>4. OnStack(w)'
      BY <3>1, <3>2, <3>3, <1>b, <1>c
    <3> QED BY <3>2, <3>3, <3>4, <1>a DEF OnStack
  <2>4. (depth > 0 => height[stack[1]] = 1)'
    BY <1>a, <1>b DEF IInv, CallsOK
  <2>5. (depth = 0 => top = 0)'
    <3> SUFFICES ASSUME depth = 1 PROVE height[c] = 1
      BY <1>a, <1>b
    <3> QED BY <1>b DEF IInv, CallsOK
  <2> QED BY <2>1, <2>2, <2>3, <2>4, <2>5, <1>a DEF CallsOK
<1>4. PassedOK'
  <2> SUFFICES ASSUME NEW w \in Gotos, ~New(w)', ~Active(w)'
               PROVE  rp[w] = Len(R[w]) + 1 /\ (OnStack(w)' => INDEX'[w] < height[w])
    BY <1>a DEF PassedOK
  <2>0. ~New(w)
    BY <1>c
  <2>1. CASE w = c
    BY <2>1, <1>b, <1>c
  <2>2. CASE w # c
    <3>1. ~Active(w)
      <4> SUFFICES ASSUME NEW d \in 1 .. depth, stack[d] = w PROVE FALSE
        BY DEF Active
      <4>1. d \in 1 .. depth'
        BY <2>2, <1>a, <1>b
      <4> QED BY <4>1, <1>a DEF Active
    <3> QED BY <2>0, <3>1, <1>d DEF IInv, PassedOK
  <2> QED BY <2>1, <2>2
<1>5. MergedOK'
  <2> SUFFICES ASSUME NEW w \in Gotos, ~New(w)', NEW k \in 1 .. rp[w] - 1,
                      NEW u, u = R[w][k]
               PROVE  \/ Final(u)' /\ F'[u] \subseteq F'[w]
                      \/ /\ OnStack(w)' /\ OnStack(u)' /\ INDEX'[w] <= height[u]
    BY <1>a DEF MergedOK, Final, OnStack
  <2>0. ~New(w) /\ u \in Gotos
    BY <1>c, MergedEdge
  <2>1. CASE Final(u) /\ F[u] \subseteq F[w]
    <3>1. u \notin Component /\ Final(u)' /\ F'[u] = F[u]
      BY <2>0, <2>1, <1>c, Placed
    <3>2. F[w] \subseteq F'[w]
      BY <1>c, <1>f
    <3> QED BY <2>1, <3>1, <3>2
  <2>2. CASE OnStack(w) /\ OnStack(u) /\ INDEX[w] <= height[u]
    <3>1. height[u] \in 1 .. top /\ INDEX[w] \in 1 .. ngotos /\ height[w] \in 1 .. top
      BY <2>0, <2>2, Placed
    <3>2. CASE w \in Component
      <4>1. height[u] >= height[c]
        BY <2>2, <3>1, <3>2, <1>b, <1>f
      <4>2. u \in Component
        BY <2>0, <2>2, <4>1, <1>c
      <4> QED BY <2>0, <3>2, <4>2, <1>c
    <3>3. CASE w \notin Component
      <4>1. height[w] < height[c]
        BY <2>2, <3>1, <3>3, <1>b, <1>c
      <4>2. height[u] < height[c]
        BY <2>2, <4>1, <1>b DEF IInv, BelowOK
      <4>3. OnStack(w)' /\ OnStack(u)'
        BY <2>0, <2>2, <4>1, <4>2, <1>c
      <4> QED BY <2>2, <4>3, <1>d
    <3> QED BY <3>2, <3>3
  <2> QED BY <2>0, <2>1, <2>2 DEF IInv, MergedOK
<1>6. BelowOK'
  <2> SUFFICES ASSUME NEW d \in 1 .. depth', NEW w \in Gotos, OnStack(w)',
                      height[w] < height[stack[d]],
                      NEW k \in 1 .. rp[w] - 1, NEW u, u = R[w][k], OnStack(u)'
               PROVE  height[u] < height[stack[d]]
    BY <1>a DEF BelowOK, OnStack
  <2>1. OnStack(w) /\ ~New(w)
    BY <1>d, Placed
  <2>2. OnStack(u)
    BY <2>1, <1>d, MergedEdge
  <2> QED BY <2>1, <2>2, <1>b DEF IInv, BelowOK
<1>7. HandedOK'
  <2> SUFFICES ASSUME NEW w \in Gotos, OnStack(w)', NEW d \in 1 .. depth', Nearest(d, w)'
               PROVE  F'[w] \subseteq F'[stack[d]] /\ INDEX'[stack[d]] <= INDEX'[w]
    BY <1>a DEF HandedOK
  <2>1. /\ d \in 1 .. depth /\ d # depth /\ d < depth
        /\ height[stack[d]] < height[c] /\ height[stack[d]] < height[w]
    BY <1>a, <1>b DEF Nearest
  <2>2. OnStack(w) /\ height[w] < height[c] /\ F'[w] = F[w] /\ INDEX'[w] = INDEX[w]
    BY <1>c, <1>d
  <2>3. Nearest(d, w)
    <3>1. CASE d = depth'
      BY <3>1, <2>1, <2>2, <1>a, <1>b DEF Nearest
    <3>2. CASE d < depth'
      BY <3>2, <2>1, <1>a DEF Nearest
    <3> QED BY <3>1, <3>2, <1>a, <1>b
  <2>4. F[w] \subseteq F[stack[d]] /\ INDEX[stack[d]] <= INDEX[w]
    BY <2>1, <2>2, <2>3 DEF IInv, HandedOK
  <2>5. stack[d] \in Gotos /\ stack[d] \notin Component
    <3>1. stack[d] \in Gotos /\ OnStack(stack[d])
      BY <2>1 DEF IInv, CallsOK
    <3>2. height[stack[d]] \in Nat
      BY <3>1, Placed
    <3> QED BY <3>1, <3>2, <2>1, <1>b, <1>c
  <2> QED BY <2>2, <2>4, <2>5, <1>c
<1>8. GrowsOK'
  <2> SUFFICES ASSUME NEW w \in Gotos PROVE F0[w] \subseteq F'[w] /\ (New(w)' => F'[w] = F0[w])
    BY <1>a DEF GrowsOK
  <2>1. F0[w] \subseteq F[w] /\ (New(w) => F[w] = F0[w])
    BY DEF IInv, GrowsOK
  <2>2. New(w) => w \notin Component
    BY <1>c, Placed
  <2> QED BY <2>1, <2>2, <1>c, <1>f
<1>9. LoopOK'
  BY <1>a, <1>b, <1>c DEF IInv, LoopOK
<1> QED BY <1>1, <1>2, <1>3, <1>4, <1>5, <1>6, <1>7, <1>8, <1>9 DEF IInv

LEMMA StepInv == IInv /\ [Next]_vars => IInv'
<1> SUFFICES ASSUME IInv, [Next]_vars PROVE IInv'
  OBVIOUS
<1>1. CASE Root
  <2>1. i \in Gotos
    BY <1>1 DEF Root, Gotos, IInv, TypeOK, InputOK
  <2> QED BY <1>1, <2>1, EnterInv DEF Root
<1>2. CASE Skip
  BY <1>2, SkipInv
<1>3. CASE Descend
  <2>1. target \in Gotos
    <3>1. cur \in Gotos /\ rp[cur] \in 1 .. Len(R[cur])
      <4>1. cur \in Gotos /\ rp[cur] \in 1 .. Len(R[cur]) + 1 /\ Len(R[cur]) \in Nat
        BY <1>3, CurFacts DEF Descend
      <4> QED BY <1>3, <4>1 DEF Descend
    <3> QED BY <3>1, EdgeIsGoto DEF target, IInv
  <2> QED BY <1>3, <2>1, EnterInv DEF Descend
<1>4. CASE Merge
  BY <1>4, MergeInv
<1>5. CASE Return
  BY <1>5, ReturnInv
<1>6. CASE Close
  BY <1>6, CloseInv
<1>7. CASE UNCHANGED vars
  <2>1. /\ ngotos' = ngotos /\ R' = R /\ F0' = F0 /\ F' = F /\ INDEX' = INDEX
        /\ VERTICES' = VERTICES /\ top' = top /\ i' = i /\ depth' = depth
        /\ stack' = stack /\ height' = height /\ rp' = rp
        /\ Gotos' = Gotos /\ infinity' = infinity
    BY <1>7 DEF vars, Gotos, infinity
  <2>2. TypeOK'
    <3>1. InputOK'
      BY <2>1 DEF IInv, TypeOK, InputOK
    <3> QED BY <2>1, <3>1 DEF IInv, TypeOK
  <2>3. StackOK' /\ CallsOK' /\ PassedOK'
    BY <2>1 DEF IInv, StackOK, CallsOK, PassedOK, OnStack, New, Final, Active
  <2>4. MergedOK' /\ BelowOK'
    BY <2>1 DEF IInv, MergedOK, BelowOK, OnStack, New, Final
  <2>5. HandedOK' /\ GrowsOK' /\ LoopOK'
    BY <2>1 DEF IInv, HandedOK, GrowsOK, LoopOK, Nearest, OnStack, New
  <2> QED BY <2>2, <2>3, <2>4, <2>5 DEF IInv
<1> QED BY <1>1, <1>2, <1>3, <1>4, <1>5, <1>6, <1>7 DEF Next

LEMMA Invariance == Spec => []IInv
<1>1. Init => IInv
  BY InitInv, InputsAssumption
<1> QED BY <1>1, StepInv, PTL DEF Spec

(***************************************************************************)
(* The type invariant, for every relation on every number of gotos: INDEX, *)
(* VERTICES and the C stack of traverse() are never indexed out of bounds  *)
(* (top and depth never pass ngotos), and every Value_t stored fits.       *)
(***************************************************************************)
THEOREM TypeCorrect == Spec => []TypeOK
<1>1. IInv => TypeOK
  BY DEF IInv
<1> QED BY <1>1, Invariance, PTL

LEMMA ClosedWhenDone == IInv => Complete
<1> SUFFICES ASSUME IInv, Terminated, NEW v \in Gotos
             PROVE  /\ F0[v] \subseteq F[v]
                    /\ \A k \in 1 .. Len(R[v]) : F[R[v][k]] \subseteq F[v]
  BY DEF Complete, Solution
<1>1. F0[v] \subseteq F[v]
  BY DEF IInv, GrowsOK
<1>2. top = 0
  BY DEF IInv, CallsOK, Terminated
<1>3. ~OnStack(v)
  <2> SUFFICES ASSUME OnStack(v) PROVE FALSE
    OBVIOUS
  <2>1. height[v] \in 1 .. top
    BY Placed
  <2> QED BY <1>2, <2>1
<1>4. CASE New(v)
  <2>1. R[v] = << >>
    BY <1>4 DEF IInv, LoopOK, Terminated, Gotos, TypeOK, InputOK
  <2> QED BY <1>1, <2>1
<1>5. CASE ~New(v)
  <2>1. ~Active(v)
    <3>1. 1 .. depth = {}
      BY DEF Terminated
    <3> QED BY <3>1 DEF Active
  <2>2. rp[v] = Len(R[v]) + 1 /\ Len(R[v]) \in Nat
    BY <1>5, <2>1 DEF IInv, PassedOK, TypeOK, InputOK
  <2>3. 1 .. rp[v] - 1 = 1 .. Len(R[v])
    BY <2>2
  <2>4. \A k \in 1 .. rp[v] - 1 : F[R[v][k]] \subseteq F[v]
    BY <1>3, <1>5 DEF IInv, MergedOK
  <2> QED BY <1>1, <2>3, <2>4
<1> QED BY <1>4, <1>5

(***************************************************************************)
(* Completeness: when digraph() returns, F is closed under the relation.   *)
(***************************************************************************)
THEOREM Completeness == Spec => []Complete
BY ClosedWhenDone, Invariance, PTL

(***************************************************************************)
(* A popped goto keeps its set: what Merge takes from a final goto is      *)
(* already all it will ever hold.                                          *)
(***************************************************************************)
THEOREM FinalStays == Spec => FinalNeverChanges
<1>1. IInv /\ [Next]_vars =>
        [\A v \in Gotos : Final(v) => F'[v] = F[v] /\ INDEX'[v] = INDEX[v]]_vars
  <2> SUFFICES ASSUME IInv, Next, NEW v \in Gotos, Final(v)
               PROVE  F'[v] = F[v] /\ INDEX'[v] = INDEX[v]
    OBVIOUS
  <2>0. ~New(v) /\ ~OnStack(v)
    <3>1. ngotos \in Nat
      BY DEF IInv, TypeOK, InputOK
    <3>2. ~New(v)
      BY <3>1 DEF New, Final, infinity
    <3> QED BY <3>2, Placed
  <2>1. ASSUME NEW w, New(w), Enter(w) PROVE F'[v] = F[v] /\ INDEX'[v] = INDEX[v]
    BY <2>0, <2>1 DEF Enter, IInv, TypeOK
  <2>2. CASE Root
    BY <2>1, <2>2 DEF Root
  <2>3. CASE Skip
    BY <2>3 DEF Skip
  <2>4. CASE Descend
    BY <2>1, <2>4 DEF Descend
  <2>5. CASE Merge
    <3>1. v # cur
      BY <2>0, <2>5, CurFacts DEF Merge
    <3>2. F' = [F EXCEPT ![cur] = F[cur] \cup F[target]] /\ F \in [Gotos -> SUBSET Tokens]
      BY <2>5 DEF Merge, IInv, TypeOK
    <3>3. INDEX' = [INDEX EXCEPT ![cur] = IF INDEX[cur] > INDEX[target]
                                            THEN INDEX[target] ELSE INDEX[cur]]
          /\ INDEX \in [Gotos -> 0 .. infinity]
      BY <2>5 DEF Merge, IInv, TypeOK
    <3> QED BY <3>1, <3>2, <3>3
  <2>6. CASE Return
    BY <2>6 DEF Return
  <2>7. CASE Close
    <3>1. v \notin Component /\ F'[v] = F[v] /\ INDEX'[v] = INDEX[v]
      BY <2>0, <2>7, CloseFacts
    <3> QED BY <3>1
  <2> QED BY <2>2, <2>3, <2>4, <2>5, <2>6, <2>7 DEF Next
<1> QED BY <1>1, Invariance, PTL DEF Spec, FinalNeverChanges

-----------------------------------------------------------------------------
(* A call takes a goto that the caller has an edge to. *)
LEMMA EnterReaches ==
    ASSUME IInv, NEW v \in Gotos, New(v), Enter(v),
           \/ depth = 0
           \/ depth > 0 /\ rp[cur] <= Len(R[cur]) /\ v = target,
           NEW G, Solution(G), Reaches(G), Gotos' = Gotos, ngotos' = ngotos
    PROVE  Reaches(G)'
<1>0. /\ top \in Nat /\ ngotos \in Nat /\ depth \in Nat /\ top < ngotos /\ depth <= top
  <2>1. top \in Nat /\ ngotos \in Nat /\ depth \in Nat /\ depth <= top
    BY DEF IInv, TypeOK, InputOK
  <2> QED BY <2>1, Room DEF IInv
<1>a. /\ F' = F /\ depth' = depth + 1
      /\ 1 .. depth' = 1 .. depth \cup {depth + 1} /\ depth + 1 \notin 1 .. depth
  BY <1>0 DEF Enter
<1>b. /\ stack'[depth + 1] = v
      /\ \A d \in 1 .. depth : stack'[d] = stack[d] /\ stack[d] \in Gotos /\ stack[d] # v
  <2>1. stack \in [0 .. ngotos -> 0 .. ngotos] /\ stack' = [stack EXCEPT ![depth + 1] = v]
    BY DEF IInv, TypeOK, Enter
  <2>2. stack'[depth + 1] = v
    BY <2>1, <1>0
  <2>3. \A d \in 1 .. depth : stack'[d] = stack[d]
    BY <2>1, <1>0
  <2>4. \A d \in 1 .. depth : stack[d] \in Gotos /\ stack[d] # v
    BY <1>0, Placed DEF IInv, CallsOK
  <2> QED BY <2>2, <2>3, <2>4
<1>c. /\ INDEX'[v] = top + 1 /\ height'[v] = top + 1
      /\ \A w \in Gotos : w # v => INDEX'[w] = INDEX[w] /\ height'[w] = height[w]
  <2>1. INDEX \in [Gotos -> 0 .. infinity] /\ INDEX' = [INDEX EXCEPT ![v] = top + 1]
    BY DEF IInv, TypeOK, Enter
  <2>2. height \in [Gotos -> 0 .. ngotos] /\ height' = [height EXCEPT ![v] = top + 1]
    BY DEF IInv, TypeOK, Enter
  <2> QED BY <2>1, <2>2
<1>1. \A d \in 1 .. depth : G[v] \subseteq G[stack[d]]
  <2> SUFFICES ASSUME NEW d \in 1 .. depth PROVE G[v] \subseteq G[stack[d]]
    OBVIOUS
  <2>1. depth > 0 /\ depth \in 1 .. depth /\ d <= depth
    BY <1>0
  <2>2. /\ cur \in Gotos /\ rp[cur] \in 1 .. Len(R[cur]) /\ v = R[cur][rp[cur]]
    <3>1. cur \in Gotos /\ rp[cur] \in 1 .. Len(R[cur]) + 1 /\ Len(R[cur]) \in Nat
      BY <2>1, CurFacts
    <3> QED BY <2>1, <3>1 DEF target
  <2>3. G[v] \subseteq G[cur]
    BY <2>2 DEF Solution
  <2>4. G[cur] \subseteq G[stack[d]]
    BY <2>1 DEF Reaches, cur
  <2> QED BY <2>3, <2>4
<1>2. ASSUME NEW d \in 1 .. depth', NEW e \in 1 .. depth', d <= e
      PROVE  G[stack'[e]] \subseteq G[stack'[d]]
  <2>1. CASE e = depth + 1
    BY <2>1, <1>1, <1>a, <1>b
  <2>2. CASE e \in 1 .. depth
    <3>1. d \in 1 .. depth
      BY <1>2, <2>2, <1>0, <1>a
    <3> QED BY <1>2, <2>2, <3>1, <1>b DEF Reaches
  <2> QED BY <2>1, <2>2, <1>a
<1>3. ASSUME NEW w \in Gotos, OnStack(w)'
      PROVE  \E d \in 1 .. depth' : height'[stack'[d]] <= INDEX'[w] /\ G[stack'[d]] \subseteq G[w]
  <2>1. CASE w = v
    BY <2>1, <1>0, <1>a, <1>b, <1>c
  <2>2. CASE w # v
    <3>1. OnStack(w)
      BY <2>2, <1>3, <1>c DEF OnStack
    <3>2. PICK d \in 1 .. depth : height[stack[d]] <= INDEX[w] /\ G[stack[d]] \subseteq G[w]
      BY <3>1 DEF Reaches
    <3>3. height'[stack'[d]] <= INDEX'[w] /\ G[stack'[d]] \subseteq G[w]
      BY <2>2, <3>2, <1>b, <1>c
    <3> QED BY <3>3, <1>a
  <2> QED BY <2>1, <2>2
<1>4. \A w \in Gotos : F'[w] \subseteq G[w]
  BY <1>a DEF Reaches
<1> QED BY <1>2, <1>3, <1>4 DEF Reaches

LEMMA MergeReaches ==
    ASSUME IInv, Merge, NEW G, Solution(G), Reaches(G)
    PROVE  Reaches(G)'
<1>p. PICK c, t : c = cur /\ t = target
  OBVIOUS
<1>a. /\ ngotos' = ngotos /\ Gotos' = Gotos /\ depth' = depth /\ stack' = stack
      /\ height' = height /\ depth > 0 /\ rp[c] <= Len(R[c]) /\ ~New(t) /\ infinity = ngotos + 2
  BY <1>p DEF Merge, input, Gotos, infinity
<1>b. /\ depth \in 1 .. depth /\ ngotos \in Nat /\ c \in Gotos /\ OnStack(c)
      /\ rp[c] \in 1 .. Len(R[c]) + 1 /\ Len(R[c]) \in Nat /\ INDEX[c] \in 1 .. ngotos
  BY <1>a, <1>p, CurFacts
<1>c. rp[c] \in 1 .. Len(R[c]) /\ t = R[c][rp[c]]
  BY <1>a, <1>b, <1>p DEF target
<1>d. t \in Gotos /\ G[t] \subseteq G[c]
  BY <1>b, <1>c, EdgeIsGoto DEF Solution, IInv
<1>e. /\ \A w \in Gotos : w # c => INDEX'[w] = INDEX[w]
      /\ INDEX'[c] = IF INDEX[c] > INDEX[t] THEN INDEX[t] ELSE INDEX[c]
  BY <1>b, <1>p DEF Merge, IInv, TypeOK
<1>f. /\ \A w \in Gotos : w # c => F'[w] = F[w]
      /\ F'[c] = F[c] \cup F[t]
  BY <1>b, <1>p DEF Merge, IInv, TypeOK
<1>1. \A w \in Gotos : F'[w] \subseteq G[w]
  BY <1>b, <1>d, <1>f DEF Reaches
<1>2. ASSUME NEW w \in Gotos, OnStack(w)'
      PROVE  \E d \in 1 .. depth : height[stack[d]] <= INDEX'[w] /\ G[stack[d]] \subseteq G[w]
  <2>1. CASE w # c
    <3>1. OnStack(w)
      BY <2>1, <1>2, <1>a, <1>e DEF OnStack
    <3> QED BY <2>1, <3>1, <1>e DEF Reaches
  <2>2. CASE w = c /\ INDEX'[c] = INDEX[c]
    BY <2>2, <1>b DEF Reaches
  <2>3. CASE w = c /\ INDEX'[c] # INDEX[c]
    <3>1. INDEX'[c] = INDEX[t] /\ INDEX[c] > INDEX[t]
      BY <2>3, <1>e
    <3>2. OnStack(t)
      <4>1. ~Final(t)
        BY <3>1, <1>a, <1>b DEF Final
      <4> QED BY <4>1, <1>a, <1>d DEF IInv, StackOK
    <3>3. PICK d \in 1 .. depth : height[stack[d]] <= INDEX[t] /\ G[stack[d]] \subseteq G[t]
      BY <3>2, <1>d DEF Reaches
    <3> QED BY <2>3, <3>1, <3>3, <1>d
  <2> QED BY <2>1, <2>2, <2>3
<1> QED BY <1>1, <1>2, <1>a DEF Reaches

LEMMA ReturnReaches ==
    ASSUME IInv, Return, NEW G, Reaches(G)
    PROVE  Reaches(G)'
<1>p. PICK c : c = cur
  OBVIOUS
<1>a. /\ ngotos' = ngotos /\ F' = F /\ INDEX' = INDEX /\ stack' = stack
      /\ height' = height /\ depth' = depth - 1 /\ Gotos' = Gotos
      /\ depth > 0 /\ INDEX[c] # height[c]
  BY <1>p DEF Return, input, Gotos
<1>b. /\ depth \in 1 .. depth /\ depth \in Nat /\ c \in Gotos /\ OnStack(c) /\ c = stack[depth]
      /\ INDEX[c] \in Nat /\ height[c] \in Nat /\ INDEX[c] < height[c]
  BY <1>a, <1>p, CurFacts DEF cur
<1>c. \A d \in 1 .. depth' : d \in 1 .. depth
  BY <1>a, <1>b
<1>d. PICK b \in 1 .. depth : height[stack[b]] <= INDEX[c] /\ G[stack[b]] \subseteq G[c]
  BY <1>b DEF Reaches
<1>e. \A d \in 1 .. depth : height[stack[d]] \in Nat
  BY Placed DEF IInv, CallsOK
<1>f. b \in 1 .. depth'
  BY <1>a, <1>b, <1>d, <1>e
<1>1. ASSUME NEW w \in Gotos, OnStack(w)
      PROVE  \E d \in 1 .. depth' : height[stack[d]] <= INDEX[w] /\ G[stack[d]] \subseteq G[w]
  <2>1. PICK d \in 1 .. depth : height[stack[d]] <= INDEX[w] /\ G[stack[d]] \subseteq G[w]
    BY <1>1 DEF Reaches
  <2>2. CASE d = depth
    <3>1. height[stack[b]] <= INDEX[w]
      <4>1. INDEX[w] \in Nat
        BY <1>1, Placed
      <4> QED BY <2>1, <2>2, <4>1, <1>b, <1>d, <1>e
    <3>2. G[stack[b]] \subseteq G[w]
      BY <2>1, <2>2, <1>b, <1>d
    <3> QED BY <3>1, <3>2, <1>f
  <2>3. CASE d # depth
    <3>1. d \in 1 .. depth'
      BY <2>3, <1>a, <1>b
    <3> QED BY <2>1, <3>1
  <2> QED BY <2>2, <2>3
<1> QED BY <1>1, <1>a, <1>c DEF Reaches, OnStack

LEMMA CloseReaches ==
    ASSUME IInv, Close, NEW G, Reaches(G)
    PROVE  Reaches(G)'
<1>p. PICK c : c = cur
  OBVIOUS
<1>b. /\ ngotos' = ngotos /\ Gotos' = Gotos /\ stack' = stack /\ height' = height
      /\ depth' = depth - 1 /\ depth > 0 /\ depth \in 1 .. depth /\ depth \in Nat
      /\ top \in Nat /\ c \in Gotos /\ c = stack[depth] /\ height[c] \in 1 .. top
      /\ \A d \in 1 .. depth' : d \in 1 .. depth /\ d < depth
  BY <1>p, CloseFacts
<1>c. \A w \in Gotos :
            /\ w \in Component <=> OnStack(w) /\ height[w] >= height[c]
            /\ w \in Component => Final(w)' /\ F'[w] = F[c]
            /\ w \notin Component => INDEX'[w] = INDEX[w] /\ F'[w] = F[w]
            /\ OnStack(w)' <=> OnStack(w) /\ height[w] < height[c]
  BY <1>p, CloseFacts
<1>e. \A d \in 1 .. depth : height[stack[d]] \in Nat
  BY Placed DEF IInv, CallsOK
<1>1. ASSUME NEW w \in Gotos PROVE F'[w] \subseteq G[w]
  <2>1. CASE w \in Component
    <3>1. PICK d \in 1 .. depth : G[stack[d]] \subseteq G[w]
      BY <2>1, <1>c DEF Reaches
    <3>2. d <= depth
      BY <1>b
    <3>3. G[c] \subseteq G[stack[d]]
      BY <3>2, <1>b DEF Reaches
    <3>4. F[c] \subseteq G[c]
      BY <1>b DEF Reaches
    <3> QED BY <2>1, <3>1, <3>3, <3>4, <1>c
  <2>2. CASE w \notin Component
    BY <2>2, <1>c DEF Reaches
  <2> QED BY <2>1, <2>2
<1>2. ASSUME NEW w \in Gotos, OnStack(w)'
      PROVE  \E d \in 1 .. depth' : height[stack[d]] <= INDEX'[w] /\ G[stack[d]] \subseteq G[w]
  <2>1. /\ OnStack(w) /\ height[w] < height[c] /\ INDEX'[w] = INDEX[w] /\ INDEX[w] \in Nat
        /\ height[w] \in Nat /\ INDEX[w] <= height[w]
    BY <1>2, <1>b, <1>c, Placed
  <2>2. PICK d \in 1 .. depth : height[stack[d]] <= INDEX[w] /\ G[stack[d]] \subseteq G[w]
    BY <2>1 DEF Reaches
  <2>3. d # depth
    BY <2>1, <2>2, <1>b, <1>e
  <2>4. d \in 1 .. depth'
    BY <2>3, <1>b
  <2> QED BY <2>1, <2>2, <2>4
<1> QED BY <1>1, <1>2, <1>b DEF Reaches

LEMMA StepReaches == IInv /\ ReachOK /\ [Next]_vars => ReachOK'
<1> SUFFICES ASSUME IInv, ReachOK, [Next]_vars PROVE ReachOK'
  OBVIOUS
<1>a. ngotos' = ngotos /\ R' = R /\ F0' = F0 /\ Gotos' = Gotos
  BY DEF Next, Root, Skip, Descend, Merge, Return, Close, vars, input, Gotos
<1> SUFFICES ASSUME NEW G \in [Gotos -> SUBSET Tokens], Solution(G), Reaches(G)
             PROVE  Reaches(G)'
  BY <1>a DEF ReachOK, Solution
<1>1. CASE Root
  <2>1. i \in Gotos
    BY <1>1 DEF Root, Gotos, IInv, TypeOK, InputOK
  <2> QED BY <1>1, <2>1, <1>a, EnterReaches DEF Root
<1>2. CASE Skip
  BY <1>2, <1>a DEF Skip, Reaches, OnStack
<1>3. CASE Descend
  <2>1. target \in Gotos
    <3>1. cur \in Gotos /\ rp[cur] \in 1 .. Len(R[cur])
      <4>1. cur \in Gotos /\ rp[cur] \in 1 .. Len(R[cur]) + 1 /\ Len(R[cur]) \in Nat
        BY <1>3, CurFacts DEF Descend
      <4> QED BY <1>3, <4>1 DEF Descend
    <3> QED BY <3>1, EdgeIsGoto DEF target, IInv
  <2> QED BY <1>3, <2>1, <1>a, EnterReaches DEF Descend
<1>4. CASE Merge
  BY <1>4, MergeReaches
<1>5. CASE Return
  BY <1>5, ReturnReaches
<1>6. CASE Close
  BY <1>6, CloseReaches
<1>7. CASE UNCHANGED vars
  BY <1>7, <1>a DEF vars, Reaches, OnStack
<1> QED BY <1>1, <1>2, <1>3, <1>4, <1>5, <1>6, <1>7 DEF Next

(***************************************************************************)
(* Soundness: at every step F is below every solution of the equations,    *)
(* so with Completeness what digraph() returns is their least solution.    *)
(***************************************************************************)
THEOREM Soundness == Spec => []Sound
<1>1. Init => ReachOK
  BY InitInv, InputsAssumption
<1>2. ReachOK => Sound
  BY DEF ReachOK, Reaches, Sound
<1> QED BY <1>1, <1>2, StepReaches, Invariance, PTL DEF Spec
=============================================================================
