CONSTANTS
    p1 = p1
    p2 = p2
    Proc = {p1, p2}
    HostOf <- Hosts
    Call = {e1}
    Edit = {e1}
    None = None
    Ceiling = 2
    TTL = 2
    MaxTries = 1
    MaxEnds = 0
    MaxSecond = 1
    RenewalsKeepUp = TRUE
SPECIFICATION Spec
PROPERTIES OnlyTheDeadAreRefunded
CHECK_DEADLOCK FALSE
