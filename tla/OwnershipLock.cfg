SPECIFICATION FairSpec
CONSTANTS
    f1 = f1
    u1 = u1
    u2 = u2
    u3 = u3
    u4 = u4
    u5 = u5
    p1 = p1
    p2 = p2
    p3 = p3
    None = None
    Grace = 2
    ShutdownBound = 1
    Procs <- ThreeProcs
    Attempts <- FourCalls
    ProcOf <- SharedFour
    Fenced <- FencedCalls
    MaxCrashes = 2
    GateCrashes = TRUE
CHECK_DEADLOCK FALSE
INVARIANTS
    TypeOK
    OneAtATime
    FilesAccountedFor
PROPERTIES
    OnlyDeadDiscarded
    AttemptsSettle
