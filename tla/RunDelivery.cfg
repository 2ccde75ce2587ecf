CONSTANTS
    r1 = r1
    r2 = r2
    u = u
    Runs <- MC_Runs
    User = u
    MaxEvents = 2
    MayCrash = TRUE
SPECIFICATION Spec
INVARIANTS TypeOK SentTruth NothingForgotten
PROPERTIES NothingLate ShutdownEnds
