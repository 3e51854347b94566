CONSTANTS
    s1 = s1
    s2 = s2
    l1 = l1
    l2 = l2
    c1 = c1
    c2 = c2
    c3 = c3
    Speaker = {s1, s2}
    Line = {l1, l2}
    Clone = {c1, c2, c3}
    a1 = a1
    Check = {a1}
    None = None
    Limit = 1
    Strikes = 1
    MaxBlocks = 1
    MaxFaults = 1
    ConsentAlone = TRUE
SPECIFICATION Spec
INVARIANTS OneVoice LimitBounded ConsentGone
PROPERTIES WithdrawnStays
CHECK_DEADLOCK FALSE
SYMMETRY Alike
