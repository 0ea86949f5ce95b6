SPECIFICATION FairSpec
CONSTANTS
    r1 = r1
    m1 = m1
    Subs = {1, 2}
    Requests = {r1}
    MutationKeys = {m1}
    Total <- MCTotal
    End <- MCEnd
    Periods <- MCPeriods
    MaxQuota = 1
    MaxVersion = 2
    MaxTime = 3
    BatchSize = 1
    Retention = 1
INVARIANTS WithinTotal UseIsBacked JournalMatchesHold OpenHoldsCanClose
PROPERTIES ClosedRecordsAreFinal UseIsAccounted DueSubscriptionsAreReset
CHECK_DEADLOCK FALSE
