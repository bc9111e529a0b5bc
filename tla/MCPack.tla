------------------------------- MODULE MCPack -------------------------------
EXTENDS ByaccPack, TLC

CONSTANT MaxFrom

(* Vectors of increasing froms, all with the same to; and with decreasing
   ones, for the values of tokens may be in any order. *)
Increasing == { f \in UNION { [1 .. n -> 0 .. MaxFrom] : n \in 0 .. MaxFrom + 1 } :
                  \A k, l \in DOMAIN f : k < l => f[k] < f[l] }
Vectors(t) == { [from |-> f, to |-> [k \in DOMAIN f |-> t]] : f \in Increasing }
Reversed(t) == { [w EXCEPT !.from = [k \in DOMAIN @ |-> @[Len(@) + 1 - k]]] : w \in Vectors(t) }

(* And with two tokens of one number. *)
Doubled == { [from |-> << f, h, f >>, to |-> << 1, 1, 2 >>] : f, h \in 0 .. MaxFrom }

(* Two rows that may be shared and a column that may not. *)
MCPackings ==
    { [nvectors |-> 3, nrows |-> 2, vectors |-> (0 :> u) @@ (1 :> v) @@ (2 :> w)] :
        u \in Vectors(1), v \in Vectors(1) \cup Vectors(2) \cup Reversed(1) \cup Doubled,
        w \in Vectors(1) }
=============================================================================
