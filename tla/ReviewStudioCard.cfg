SPECIFICATION Spec
CONSTANTS
    Requests = {r1, r2}
    Jobs = {j1}
    Names = {n1, n2}
    Workloads <- Renders
    None = None
    External = External
INVARIANTS
    FailedImportLeavesNoCard
CHECK_DEADLOCK FALSE
