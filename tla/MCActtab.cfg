CONSTANTS
    nterminal = 4
    nsymbol = 7
    MaxCalls = 3
    Transactions <- MCTransactions
SPECIFICATION ActtabSpec
INVARIANTS LookupExact OffsetsAreSafe
CHECK_DEADLOCK FALSE
