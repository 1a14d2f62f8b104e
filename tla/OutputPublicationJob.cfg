SPECIFICATION Spec
CONSTANTS
    N = 3
    Faults <- FaultKinds
    Operator = TRUE
INVARIANTS
    OriginalsFindable
    AtomicAtEnd
PROPERTIES
    PublishesAtomically
