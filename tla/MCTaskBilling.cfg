SPECIFICATION Spec
CONSTANTS
    t1 = t1
    p1 = p1
    p2 = p2
    NoTask = NoTask
    NoProc = NoProc
    Tasks = {t1}
    Procs = {p1, p2}
    MaxQuota = 1
    Submissions <- MCSubmissions
SYMMETRY Symmetry
INVARIANTS EffectsAtMostOnce FlagsImplyEffects SettledInFull
PROPERTIES TerminalIsFinal CompletedIsFinal
CHECK_DEADLOCK FALSE
