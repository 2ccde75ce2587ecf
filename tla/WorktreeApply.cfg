SPECIFICATION MCSpec
CONSTANTS
    p1 = p1  p2 = p2  a1 = a1  a2 = a2
    NoOne = NoOne
    Procs <- TwoProcs
    Owner = p1
    Ops <- TwoOps
    MaxCrashes = 2
    MaxFails = 2
    MaxEdits = 2
CHECK_DEADLOCK FALSE
INVARIANTS
    TypeOK
    AppliedOnce
    NothingLost
