SPECIFICATION Spec
CONSTANTS
    r1 = r1
    r2 = r2
    Requests = {r1}
    Kinds = {"realtime"}
    Quotas = {1, 2}
    MaxUsage = 3
    Funds <- MCWallet
    TokenQuota = 6
    TokenUnlimited = FALSE
    TrustQuota = 0
    MaxFaults = 0
INVARIANT RealtimeIsPaidOnce
CHECK_DEADLOCK FALSE
