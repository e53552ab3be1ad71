SPECIFICATION Spec
CHECK_DEADLOCK FALSE
CONSTANTS
    Parts = {"process"}
    IdEuis = {"d1", "d2", "d3"}
    IdMax = 3
    IdNetZero = TRUE
    IdForeign = {9}
    IdFiles <- MCFiles
    IdBackends = {"json", "dir", "lmdb"}
    IdMaxCalls = 3
    StBuffer = 1
    LsDatagrams <- MCDatagrams
    LsMax = 2
    LsKnown = {"g1"}
    DqFormats = 2
    DqDbs = 2
    DqInactive = {2}
    DqMax = 3
    DqRestarts = 1
    SpDaemon = {TRUE, FALSE}
    SpQueues = {"json", "lmdb"}
    SpDeliveries = 3
    UgFetches <- MCFetches
    UgForward = {"ok"}
    UgLut <- MCLut
    UgPowers = {5, 25}
    UgMaxRx = 1
    UgMaxTx = 2
INVARIANTS
    ModeTellsThread
