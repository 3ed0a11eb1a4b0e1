SPECIFICATION RunSpec
CONSTANTS
    Programs <- GlobalPrograms
    KeyOf <- MCKeyOf
    UINT_MAX = 1000
    MaxStack = 5
INVARIANTS
    DependencesFound
CHECK_DEADLOCK FALSE
