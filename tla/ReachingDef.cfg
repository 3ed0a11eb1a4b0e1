SPECIFICATION FairSpec
CONSTANTS
    Functions <- MCFunctions
    Vars <- MCVars
    KeyOf <- MCKeyOf
    NoKey = ""
INVARIANTS
    TypeOK
    PointsExact
PROPERTIES
    Implements
    OutputsGrow
    Completes
CHECK_DEADLOCK FALSE
