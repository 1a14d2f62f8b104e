SPECIFICATION FairSpec
CONSTANTS
    j1 = j1
    j2 = j2
    d1 = d1
    s1 = s1
    s2 = s2
    None = None
    Jobs = {j1, j2}
    Destroyers = {d1}
    Sessions = {s1}
    Targets = {1, 2}
    SessionOf <- SameSessionOf
    OutputsOf <- SameOutputsOf
    Faults = {"escape", "spawn", "running_journal", "sink", "commit_record",
              "committing_journal", "sqlite_state", "sqlite_commit_event"}
    MaxCancels = 1
INVARIANTS
    FreshClone
    DestroyedStaysGone
    TerminationConfirmed
PROPERTIES
    AuditPreserved
    CallsReturn
    WorkersReaped
