CONSTANTS
    MAXYYINT = 20
    ACTSIZE = 13
    NSTATES = 16
    yyFlag <- MCFlag
    NOMORE <- MCFlag
    Grammars <- MCGrammars
SPECIFICATION GeneratorsSpec
INVARIANTS AutomatonIsLALR Deterministic CountsEveryLoss TrialsComplete StrongestWins GoAutomatonIsLALR SameParser
CHECK_DEADLOCK FALSE
