CONSTANTS
    MAXYYINT = 20
    ACTSIZE = 13
    NSTATES = 16
    yyFlag <- MCFlag
    NOMORE <- MCFlag
    Grammars <- MCGrammars
SPECIFICATION GeneratorsSpec
INVARIANT ConflictsReported
CHECK_DEADLOCK FALSE
