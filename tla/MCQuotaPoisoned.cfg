SPECIFICATION FairSpec
CONSTANTS
    u1 = u1
    u2 = u2
    r1 = r1
    r2 = r2
    m1 = m1
    NoUser = NoUser
    Users = {u1, u2}
    Requests = {r1, r2}
    MutationKeys = {}
    InitialQuota <- MCPositiveQuota
    MaxQuota = 1
    MaxVersion = 1
    TTL = 1
    MaxTime = 3
    BatchSize = 2
    Deletable = {u2}
    HardDeletable = {}
PROPERTIES LiveUsersHoldsAreReturned
CHECK_DEADLOCK FALSE
