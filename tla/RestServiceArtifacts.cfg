SPECIFICATION Spec
CONSTANTS
    c1 = c1
    Clients = {c1, c2, c3}
    Limit = 2
    Window = 2
    MaxKeys = 2
    CleanupInterval = 3
    Artifacts = {a1, a2}
    Sessions = {s1}
    References = {e1, e2}
    Threads = {t1, t2}
    Retention = 1
    StoreFaults = {"disk", "sqlite"}
    None = None
    Workloads <- MCWorkloads
INVARIANTS
    TypeOK
    ListedIsWhole
    ProtectedIsKept
    NoGhostRecord
PROPERTIES
    DecidesAsSlidingWindow
SYMMETRY Symmetry
CHECK_DEADLOCK FALSE
