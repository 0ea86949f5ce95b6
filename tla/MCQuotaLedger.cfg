SPECIFICATION FairSpec
CONSTANTS
    u1 = u1
    u2 = u2
    r1 = r1
    r2 = r2
    m1 = m1
    NoUser = NoUser
    Users = {u1, u2}
    Requests = {r1, r2}
    MutationKeys = {m1}
    InitialQuota <- MCInitialQuota
    MaxQuota = 1
    MaxVersion = 2
    TTL = 1
    MaxTime = 2
    BatchSize = 2
    Deletable = {u1}
    HardDeletable = {u2}
INVARIANTS HoldsReconciled OpenHoldsCanClose JournalChain
PROPERTIES ClosedHoldsAreFinal ImplementsEscrow NeverOverdrawn ExpiredHoldsAreReturned
CHECK_DEADLOCK FALSE
