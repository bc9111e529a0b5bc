CONSTANTS
    Identifiers = {"A", "T"}
    Literals = {"'x'"}
    CharValue <- MCCharValue
    Declarations <- MCDeclarations
    Options <- MCOptions
    MaxDeclarations = 1
    MaxPieces = 5
SPECIFICATION Spec
INVARIANTS RulesAsWritten ActionsLabelled PrecedenceOfRules NumbersDistinct
CHECK_DEADLOCK FALSE
