SPECIFICATION Spec
CONSTANTS
    N = 2
    Faults = {}
    Operator = TRUE
INVARIANTS
    RecoveryRestores
