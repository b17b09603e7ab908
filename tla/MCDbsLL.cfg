SPECIFICATION FairSpec
CONSTANTS
    t1 = t1
    t2 = t2
    t3 = t3
    Thread <- Threads
    Vector <- Vectors
    Hash <- Hashes
    Line = 2
    Lines = 2
    Threshold = 2
    MemoBits = 2
    CountBits = 2
    ColorBits = 2
    Scripts <- MCScripts
INVARIANTS
    StoredOnce
    ComparesWritten
    FullIsReal
    SatExact
PROPERTIES
    IsStateSet
    CallsReturn
