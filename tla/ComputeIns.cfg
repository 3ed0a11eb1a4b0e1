SPECIFICATION OutputSpec
CONSTANTS
    Modules <- MCModules
    Arithmetic <- MCArithmetic
    Maths <- MCMaths
    Time <- MCTime
    Strays = {0, 7}
INVARIANTS
    TypeOK
    RowsComplete
    JudgedByCalls
    TimesAddUp
    InstNumAddsUp
CHECK_DEADLOCK FALSE
