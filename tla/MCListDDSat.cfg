SPECIFICATION Spec
CONSTANTS
    N = 2
    Hash <- HashDef
    NodesFib = 7
    CacheFib = 1
    Openings <- SatOpenings
    Calls <- SatCalls
    Budget = 1
    RelProj <- SatProj
    Trans <- SatTrans
INVARIANT LeastExact
CHECK_DEADLOCK FALSE
