CONSTANTS
    MAXYYINT = 20
    ACTSIZE = 13
    NSTATES = 16
    yyFlag <- MCFlag
    NOMORE <- MCFlag
    Grammars <- MCGoGrammars
SPECIFICATION GeneratorsSpec
INVARIANT LaterPassesFixUp
CHECK_DEADLOCK FALSE
