SPECIFICATION FairSpec
CONSTANTS
    Settings <- Various
    MaxTime = 2
    MaxRequests = 2
    MaxCrashes = 1
INVARIANTS
    RunsOnceUntilACrash
    MissedRunsAreSkipped
    
PROPERTY
    RunsEnd
CHECK_DEADLOCK FALSE
