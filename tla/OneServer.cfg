CONSTANTS
    p1 = p1
    p2 = p2
    Proc = {p1, p2}
    HostOf <- Hosts
    Call = {e1, d1}
    Edit = {e1}
    None = None
    Ceiling = 3
    TTL = 2
    MaxTries = 2
    MaxEnds = 1
    MaxSecond = 1
    RenewalsKeepUp = TRUE
SPECIFICATION Spec
INVARIANTS OneServes UnderCeiling LedgerIsExact
CHECK_DEADLOCK FALSE
