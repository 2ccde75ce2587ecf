SPECIFICATION FairScopedSpec
CONSTANTS
    a1 = a1
    h1 = h1
    Launches <- OneEach
    Human <- OneHuman
    MaxLive = 1
    MaxCrashes = 2
    MaxFails = 1
    MaxRecoveries = 2
CHECK_DEADLOCK FALSE
INVARIANTS
    TypeOK
    NothingOrphaned
    ShutdownConverges
    RecoveryExclusive
PROPERTIES
    FencesHold
    ContractHolds
    LaunchesSettle
