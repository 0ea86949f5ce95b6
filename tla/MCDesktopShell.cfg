SPECIFICATION FairSpec
CONSTANTS
    MaxRetries = 3
    MaxWindows = 3
INVARIANTS MainWindowExists NoOrphanServer ProbesAreBounded
PROPERTIES QuitEnds StartupSettles CrashEnds
CHECK_DEADLOCK FALSE
