SPECIFICATION Spec
CONSTANT Modules <- AllModules
INVARIANTS
    TypeOK
    NumbersExact
    EveryPlaceCounted
    CoreIsLatest
    WrittenOnce
CHECK_DEADLOCK FALSE
