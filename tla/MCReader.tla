------------------------------ MODULE MCReader ------------------------------
EXTENDS ByaccReader

MCCharValue == ("'x'" :> 120)
Tok(x, n) == [name |-> x, value |-> n]

MCDeclarations ==
    { [assoc |-> "TOKEN", toks |-> << Tok("T", 257) >>],
      [assoc |-> "LEFT", toks |-> << Tok("T", UNDEFINED) >>],
      [assoc |-> "RIGHT", toks |-> << Tok("'x'", 257), Tok("T", UNDEFINED) >>] }

MCOptions == { [ignore_prec_flag |-> u = "u", lemon_prec_flag |-> u = "z"] : u \in {"", "u", "z"} }
=============================================================================
