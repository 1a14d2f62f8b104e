SPECIFICATION Spec
CONSTANTS
    r1 = r1
    r2 = r2
    good = good
    bad = bad
    v1 = v1
    v2 = v2
    i1 = i1
    e1 = e1
    None = None
    fine = fine
    Budgets <- CallMixes
    Requests = {r1, r2}
    Contents = {good, fine, bad}
    Passing <- TwoPass
    Covered = {good, fine}
    Risky = {bad}
    Reviews = {v1, v2}
    Items = {i1}
    Blocking = {i1}
    Externals = {e1}
    Faults <- FaultKinds
INVARIANTS
    ReleasedIsSound
    ApprovalReleasesReviewedState
    DecisionsAreFinal
PROPERTIES
    DeniedIsNotReleased
SYMMETRY Symmetry
