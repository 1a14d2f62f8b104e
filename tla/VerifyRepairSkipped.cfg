SPECIFICATION Spec
CONSTANTS
    fixable = fixable
    nuisance = nuisance
    jammed = jammed
    waived = waived
    unstable = unstable
    unsimulated = unsimulated
    Defects = {fixable, nuisance, jammed, waived, unstable, unsimulated}
    DomainOf <- MCDomainOf
    Severity <- MCSeverity
    Handler <- MCHandler
    Waived = {waived}
    EnabledDomains <- MCEnabledDomains
    MaxIterations = 2
    ErcWarningsReview = FALSE
    DrcWarningsReview = FALSE
    StrictSimulation = FALSE
    Adapters <- MCAdapters
    Faults = {"skips", "skips_part", "unflagged"}
    MaxEdit = 1
INVARIANTS
    SkippedNeverPasses
CHECK_DEADLOCK FALSE
