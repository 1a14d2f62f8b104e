SPECIFICATION Spec
CONSTANTS
    j1 = j1
    j2 = j2
    d1 = d1
    s1 = s1
    s2 = s2
    None = None
    Jobs = {j1, j2}
    Destroyers = {d1}
    Sessions = {s1, s2}
    Targets = {1, 2}
    SessionOf <- CrossSessionOf
    OutputsOf <- CrossOutputsOf
    Faults <- HandledFaults
    MaxCancels = 2
INVARIANTS
    AllOrNothing
    AuditTellsTruth
    NoWaitCycle
PROPERTIES
    PublicationIsCommit
