SPECIFICATION Spec
CONSTANTS
    a1 = a1
    h1 = h1
    Launches <- OneAgent
    Human <- NoHuman
    MaxLive = 1
    MaxCrashes = 0
    MaxFails = 0
    MaxRecoveries = 1
CHECK_DEADLOCK FALSE
INVARIANTS
    StartupDiscards
