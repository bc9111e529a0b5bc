CONSTANTS
    MAXYYINT = 60
    MAXTABLE = 200
    InitialTable = 20
    Increment = 10
    YYINITSTACKSIZE = 2
    YYMAXDEPTH = 7
    YYLVQUEUEGROWTH = 2
    MaxSaved = 6
    ActionOutcomes = {"done"}
    MallocFails = FALSE
    OtherTokens = {}
    MaxTokens = 5
    MaxErrors = 2
    Grammars <- RecoveryGrammars
SPECIFICATION ParserSpec
INVARIANTS FullParseFollowsTrial
CHECK_DEADLOCK FALSE
