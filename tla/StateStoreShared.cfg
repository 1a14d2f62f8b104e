SPECIFICATION Spec
CONSTANTS
    p1 = p1
    p2 = p2
    s1 = s1
    s2 = s2
    a = a
    b = b
    x = x
    y = y
    Nothing = Nothing
    Procs = {p1, p2}
    Sessions = {s1}
    Names = {a}
    Contents = {x, y}
    Legacy <- OneLegacy
    LegacyOf <- OneLegacyOf
    Faults = {"sqlite", "replace", "delete", "event"}
    MaxStamp = 3
INVARIANTS
    LineageLinear
PROPERTIES
    HistoryImmutable
SYMMETRY Symmetry
