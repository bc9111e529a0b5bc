CONSTANTS
    MAXYYINT = 60
    MAXTABLE = 200
    InitialTable = 20
    Increment = 10
    YYINITSTACKSIZE = 2
    YYMAXDEPTH = 7
    YYLVQUEUEGROWTH = 2
    MaxSaved = 6
    ActionOutcomes = {"done", "YYERROR", "YYABORT", "YYACCEPT"}
    MallocFails = TRUE
    OtherTokens = {1}
    MaxTokens = 5
    MaxErrors = 2
    Grammars <- MCGrammars
SPECIFICATION ParserSpec
INVARIANTS ParserTypeOK StackIsPath AcceptedAreSentences ErrorsAreErrors RecoveryQuiet ValuesAreInput ReplayFollowsTrial QueueInBounds ConflictListsExact ConflictsFit
PROPERTIES ParserReturns
CHECK_DEADLOCK FALSE
