SPECIFICATION FairSpec
CONSTANTS
    N = 3
    Thread = {t1, t2}
    Mark = {"m", "n"}
    Initial = 1
    Models <- MCModels
INVARIANTS
    SetsInSCC DeadIsComplete StacksSuffice VerdictRight
PROPERTY
    Terminates
