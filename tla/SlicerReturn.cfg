SPECIFICATION RunSpec
CONSTANTS
    Programs <- ResultsPrograms
    KeyOf <- MCKeyOf
    UINT_MAX = 1000
    MaxStack = 5
INVARIANTS
    UndefOnlyIfUnused
CHECK_DEADLOCK FALSE
