SPECIFICATION Spec
CONSTANTS
    W = 2
    Granularity = 1
    MaxHandoff = 2
    State <- MCState
    Initial = 1
    Jobs <- MCJobs
INVARIANTS
    EachStateOnce SearchComplete LevelsExact
