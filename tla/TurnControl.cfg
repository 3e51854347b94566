CONSTANTS
    Run = {r1, r2}
    Ready = Ready
    MaxCalls = 1
    MaxFaults = 1
    Clicks = {"stop", "pause", "resume", "watch"}
    Atomic = {"stop", "pause", "resume", "watch"}
SPECIFICATION Spec
INVARIANTS WorksUnderItsLock
PROPERTIES StopTakesItsOwn PausedAddsNothing EditSpec
CHECK_DEADLOCK FALSE
