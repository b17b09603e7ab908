SPECIFICATION Spec
CONSTANTS
    W = 3
    Granularity = 2
    MaxHandoff = 2
    MaxLoad = 3
    MayStop = FALSE
INVARIANT
    NoPrematureTermination
