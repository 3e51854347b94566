SPECIFICATION MCSpec
CONSTANTS
    Video = {v1, v2}
    CONCURRENCY = 2
    Cap = 2
    Answer = {a1, a2}
    Clicker = {c1, c2}
    Engine = Engine
    MaxClicks = 3
    MaxCrashes = 1
INVARIANTS ParentEndsLast ResumedCarriesOn 
SYMMETRY Symm
CHECK_DEADLOCK FALSE
