SPECIFICATION FairSpec
CONSTANTS
    Threads = {t1, t2}
    Main = t1
    NumCores = 2
    Cpus = {0, 1}
    NumBlocks <- MCNumBlocks
    MainSites <- MCMainSites
    MainEntry = 0
    ForkSites <- MCForkSites
    BodySites <- MCBodySites
    BodyEntry = 2
    MaxForks = 2
    MaxBlocks = 1
INVARIANTS
    TypeOK
    NeverOvercounts
    RowsExact
    ProfileFinal
PROPERTIES
    RunEnds
CHECK_DEADLOCK FALSE
