SPECIFICATION Spec
CONSTANTS
    Modules <- SmallModules
    None = None
    External = External
    UINT_MAX = 1000
INVARIANTS
    TypeOK
    OneFunctionPerIndex
    OrderIsWalk
CHECK_DEADLOCK FALSE
