SPECIFICATION FairSpec
CONSTANT Jobs <- JobsDef
INVARIANTS
    SearchExact
    VerdictsExact
    TracesReal
    MuExact
    WinExact
PROPERTY Terminates
