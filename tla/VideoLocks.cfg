CONSTANTS
    Work = {w1, w2, w3}
    Person = {p1}
    Nobody = Nobody
    Video = {v1, v2}
    Ready = Ready
    Lease = 2
    GateLease = 3
    PauseLease = 2
    RenewalsKeepUp = TRUE
SPECIFICATION FairSpec
INVARIANTS WorkIsCovered
PROPERTIES EditSpec OnlyItsHolderLetsGo WaitsForItsPerson DeadLockGoes
