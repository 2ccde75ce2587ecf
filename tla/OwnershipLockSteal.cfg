SPECIFICATION GateSpec
CONSTANTS
    f1 = f1
    u1 = u1
    u2 = u2
    u3 = u3
    u4 = u4
    u5 = u5
    p1 = p1
    p2 = p2
    p3 = p3
    None = None
    Grace = 1
    ShutdownBound = 0
    Procs <- SixCalls
    Attempts <- SixCalls
    ProcOf <- SixOwn
    Fenced <- NoFenced
    MaxCrashes = 2
    GateCrashes = TRUE
CHECK_DEADLOCK FALSE
SYMMETRY SymSix
INVARIANTS
    ExclusiveUse
