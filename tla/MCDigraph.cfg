CONSTANTS
    Tokens = {t}
    MAXYYINT = 127
    MCngotos = 4
    MaxOut = 2
    Inputs <- MCInputs
SPECIFICATION Spec
INVARIANTS Sound Complete
PROPERTIES FinalNeverChanges Terminates
CHECK_DEADLOCK FALSE
