CONSTANTS
    r1 = r1
    r2 = r2
    u = u
    Runs <- MC_Run
    User = u
    MaxEvents = 1
    MayCrash = FALSE
SPECIFICATION Spec
PROPERTIES WaitsItsTurn
