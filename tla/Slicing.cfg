SPECIFICATION FairRunSpec
CONSTANTS
    Programs <- MCPrograms
    KeyOf <- MCKeyOf
    UINT_MAX = 1000
    MaxStack = 5
INVARIANTS
    LiveClosed
    CriteriaKept
    Minimal
    ReturnsDecided
    BranchesAgree
PROPERTIES
    Finishes
    Implements
CHECK_DEADLOCK FALSE
