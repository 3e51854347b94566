CONSTANTS
    Item = {i1, i2, i3}
    Goal = {i1, i2}
    None = None
    Slot = {s1, s2}
    MAX = 2
    MaxClicks = 2
    MaxCrashes = 1
    ThreadsArePrompt = TRUE
    CallsMayRaise = TRUE
SPECIFICATION Spec
INVARIANTS OneStarted CardsAreTrue
PROPERTIES PausedStartsNothing
CHECK_DEADLOCK FALSE
