SPECIFICATION FairSpec
CONSTANTS
    i1 = i1  i2 = i2
    g1 = g1  s1 = s1
    r0 = r0  r1 = r1  r2 = r2
    None = None
    Rollback = Rollback
    Installers <- TwoCalls
    Runners <- OneRunner
    Shells <- OneShell
    Releases <- ThreeReleases
    MaxCrashes = 1
    MaxFails = 1
    MaxDrifts = 1
CHECK_DEADLOCK FALSE
INVARIANTS
    TypeOK
    NothingPulledAway
    OneInside
PROPERTIES
    ImplementsPointers
    InstallsSettle
