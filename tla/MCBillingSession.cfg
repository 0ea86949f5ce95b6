SPECIFICATION Spec
CONSTANTS
    r1 = r1
    r2 = r2
    Requests = {r1, r2}
    Kinds = {"api", "playground", "task", "realtime"}
    Quotas = {0, 1, 2}
    MaxUsage = 2
    Funds <- MCFunds
    TokenQuota = 3
    TokenUnlimited = FALSE
    TrustQuota = 1
    MaxFaults = 1
SYMMETRY Symmetry
INVARIANTS TypeOK PaidIsPrice TokenFollowsFunding NothingIsLeftHeld BeliefMatchesLedger
CHECK_DEADLOCK FALSE
