SPECIFICATION FairSpec
CONSTANTS
    W = 3
    Granularity = 2
    MaxHandoff = 2
    MaxLoad = 1
    MayStop = TRUE
INVARIANTS
    HandoffToIdle RequestProtocol NoWaitCycle
PROPERTY
    WaitEnds StopEnds
