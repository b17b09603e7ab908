SPECIFICATION FairSpec
CONSTANTS
    t1 = t1
    t2 = t2
    t3 = t3
    Thread <- Threads
    Vector <- MCVectors
    NNodes = 3
    HalfBits = 5
    LeafLog = 2
    RootLog = 2
    Line = 2
    Thres = 2
    SatBits = 3
    CountBits = 2
    DM <- MCDM
    Mix <- MCMix
    Prime <- MCPrime
    Scripts <- MCScripts
INVARIANTS
    NodesOnce
    SatExact
PROPERTIES
    IsStateSet
    CallsReturn
