\* Three runs, two harnesses, five calls, every limit reached.
CONSTANTS
    A = A  B = B  C = C
    H1 = H1  H2 = H2
    a1 = a1  a2 = a2  b1 = b1  b2 = b2  c1 = c1
    Runs = {A, B, C}
    Harnesses = {H1, H2}
    Entries = {a1, a2, b1, b2, c1}
    RunOf <- MCRunOf
    HarnessOf <- MCHarnessOf
    RunLimit <- MCRunLimit
    GlobalLimit = 2
    HarnessLimit = 1
    MaxPending = 3
SPECIFICATION Spec
INVARIANTS
    TypeOK
    BooksExact
    WorkConserving
PROPERTIES
    FifoWithinLane
    ImplementsPool
CHECK_DEADLOCK TRUE
