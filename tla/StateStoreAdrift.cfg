\* A session in memory keeps its durable mapping: _replace_session_state
\* clears it before replace_all, so a replacement that raises leaves an
\* ordinary dict and later writes never reach the store.
SPECIFICATION Spec
CONSTANTS
    p1 = p1
    p2 = p2
    s1 = s1
    s2 = s2
    a = a
    b = b
    x = x
    y = y
    Nothing = Nothing
    Procs = {p1}
    Sessions = {s1}
    Names = {a}
    Contents = {x, y}
    Legacy <- OneLegacy
    LegacyOf <- OneLegacyOf
    Faults = {"replace"}
    MaxStamp = 4
INVARIANTS
    MappingIsKept
