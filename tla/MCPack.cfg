CONSTANTS
    MAXTABLE = 11
    InitialTable = 4
    Increment = 4
    MaxFrom = 3
    Packings <- MCPackings
SPECIFICATION Spec
INVARIANTS LookupExact ScanInTable
PROPERTIES AllPacked
CHECK_DEADLOCK FALSE
