SPECIFICATION TimingSpec
CONSTANTS
    Sources <- MCSources
    REPEAT = 4
    INSNUM = 4
    REPNUM = 5
    ALLOCA_NUM = 1
    Durations = {0, 1, 3}
    Errors = {0, 1}
    Wrap = 16
INVARIANTS
    TimedExactly
    QuartileOwn
CHECK_DEADLOCK FALSE
