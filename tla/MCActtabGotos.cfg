CONSTANTS
    nterminal = 3
    nsymbol = 20
    MaxCalls = 6
    Transactions <- ManyGotos
SPECIFICATION ActtabSpec
INVARIANTS GotosExact
CHECK_DEADLOCK FALSE
