SPECIFICATION ReportSpec
CONSTANTS
    Modules <- AllModules
    None = None
    MaxEntered = 14
INVARIANTS
    TypeOK
    CountersFollow
    FrequenciesExact
    InstNumExecuted
CHECK_DEADLOCK FALSE
