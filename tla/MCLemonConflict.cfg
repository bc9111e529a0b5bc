CONSTANTS
    StackIncrement = 3
    MallocFails = TRUE
    MaxTokens = 4
    LemonGrammars <- TieGrammars
    LemonFiles <- TieFiles
    MAXRHS = 5
SPECIFICATION LemonSpec
INVARIANTS ConflictsResolved
CHECK_DEADLOCK FALSE
