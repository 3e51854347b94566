SPECIFICATION LandingSpec
CONSTANTS
    Free = Free
    Change = {a1, a2, c1}
    Add = {a1, a2}
    Preview = {p1}
    Stopper = {s1}
    MaxStops = 2
    MaxCrashes = 1
    StopsArePrompt = TRUE
SYMMETRY Symm
INVARIANTS AsMeant
PROPERTIES LandsWithItsRender
CHECK_DEADLOCK FALSE
