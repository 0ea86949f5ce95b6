SPECIFICATION FairSpec
CONSTANTS
    t1 = t1
    p1 = p1
    p2 = p2
    NoTask = NoTask
    NoProc = NoProc
    Tasks = {t1}
    Procs = {p1, p2}
    MaxQuota = 1
    Submissions <- MCRealtime
PROPERTIES TaskRemainsTerminal
CHECK_DEADLOCK FALSE
