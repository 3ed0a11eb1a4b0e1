SPECIFICATION DCEFairSpec
CONSTANT LinkedModules <- MCModules
INVARIANTS
    DCETypeOK
    DeletesExactly
    NothingDangles
PROPERTIES
    Finishes
CHECK_DEADLOCK FALSE
