----------------------------- MODULE MCDigraph -----------------------------
EXTENDS DigraphProofs, TLC

CONSTANTS MCngotos, MaxOut

Rows == { s \in UNION { [1 .. n -> 0 .. MCngotos - 1] : n \in 0 .. MaxOut } :
            \A a, b \in DOMAIN s : s[a] = s[b] => a = b }

(* Every relation on MCngotos gotos with at most MaxOut edges a goto and no
   edge from a goto to itself, and one goto that starts with all tokens. *)
MCInputs ==
    { [ngotos |-> MCngotos, R |-> r, F |-> [v \in 0 .. MCngotos - 1 |->
            IF v = seed THEN Tokens ELSE {}]] :
        r \in { q \in [0 .. MCngotos - 1 -> Rows] :
                 \A v \in DOMAIN q : \A k \in DOMAIN q[v] : q[v][k] # v },
        seed \in 0 .. MCngotos - 1 }
=============================================================================
