SPECIFICATION Spec
CONSTANTS
    N = 3
    Hash <- HashDef
    NodesFib = 7
    CacheFib = 1
    Openings <- OpeningsDef
    Calls <- CallsDef
    Budget = 2
    RelProj <- RelProjDef
    Trans <- TransDef
INVARIANTS TablesConsistent Canonical CacheSound
PROPERTY IsVectorSet
CHECK_DEADLOCK FALSE
