SPECIFICATION Spec
CONSTANTS
    a1 = a1
    a2 = a2
    Agents = {a1, a2}
    Kind <- MCKind
    Nobody = Nobody
    Keys <- MCKeys
    SetupLocks <- MCSetupLocks
    CleanupLocks <- MCCleanupLocks
    Slots = 2
    Budget = 2
    MaxAttempts = 2
    MaxEvents = 2
INVARIANTS TypeOK RepositoryExclusive BudgetHeld AnswerRight SettledQuiet
PROPERTIES RunSettles
CHECK_DEADLOCK FALSE
