SPECIFICATION Spec
CONSTANTS
    Requests = {r1, r2}
    Jobs = {j1, j2}
    Names = {n1, n2}
    Workloads <- EachFault
    None = None
    External = External
INVARIANTS
    OneNativeJob
    ServedIsVerified
    FailedLeavesNothing
    LibraryIsWhole
PROPERTIES
    LockReturns
CHECK_DEADLOCK FALSE
