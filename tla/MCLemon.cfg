CONSTANTS
    StackIncrement = 3
    MallocFails = TRUE
    MaxTokens = 4
    LemonGrammars <- MCGrammars
    LemonFiles <- MCFiles
    MAXRHS = 5
SPECIFICATION LemonSpec
INVARIANTS LemonTypeOK FollowSetsAreLALR CountsEveryConflict LemonAcceptsSentences LemonErrorsAreErrors LemonAssertions GrammarAsWritten MalformedAreRefused
PROPERTIES LemonParseReturns
CHECK_DEADLOCK FALSE
