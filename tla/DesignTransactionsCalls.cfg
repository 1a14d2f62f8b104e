SPECIFICATION Spec
CONSTANTS
    r1 = r1
    r2 = r2
    t1 = t1
    l1 = l1
    good = good
    bad = bad
    None = None
    Requests = {r1, r2}
    Txs = {t1}
    Labels = {l1}
    Contents = {good, bad}
    Sound = {good}
    Faults <- FaultKinds
    Budgets <- WorkOrSnapshots
    Surfaces = {"direct", "mcp"}
INVARIANTS
    AnswersAreDurable
    RecordsAreHonest
PROPERTIES
    CommitIsCompareAndSet
