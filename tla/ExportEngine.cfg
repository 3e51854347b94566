CONSTANTS
    f1 = f1
    f2 = f2
    f3 = f3
    v1 = v1
    v2 = v2
    File = {f1, f2, f3}
    Video = {v1, v2}
    VideoOf <- Pictures
    Stem <- OneStem
    None = None
    Concurrency = 2
    Attempts = 2
    MaxFaults = 1
SPECIFICATION Spec
INVARIANTS ParentEndsLast FilesAreTheirOwn MovedWhenMade
CHECK_DEADLOCK FALSE
SYMMETRY Alike
