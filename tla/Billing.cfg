CONSTANTS
    TOPUP_MONTHS = 2
    Never = 9
    Plans = {"A", "B"}
    PlanCredits <- Worth
    TrialCredits = 1
    TopupCredits = 2
    GivenCredits = 1
    Checkouts = {c1, c2}
    Handlers = {h1, h2}
    Admins = {m1}
    Jobs = {j1, j2}
    None = None
    LastMonth = 2
    MaxGiven = 1
    MaxUsed = 4
    MaxCrashes = 1
SPECIFICATION MCSpec
INVARIANTS PaidOnce RefundIsWhole BalanceIsExact LapsesLeast OverspendIsBounded
CHECK_DEADLOCK FALSE
SYMMETRY Sym
