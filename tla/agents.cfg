SPECIFICATION FairSpec
CONSTANTS
    Callers = {c1, c2}
    MaxThreads = 3
    Capacity = 1
    MaxRuntimes = 4
    MaxFollowUps = 2
    MaxCalls = 4
    MaxCrashes = 1
    MaxDrops = 1
    MaxFaults = 1
INVARIANTS
    TypeOK
    SlotsExact
    OvershootBounded
    LoadedAccounted
    RunningReachable
    AcceptedNotLost
PROPERTIES
    CallsEnd
CHECK_DEADLOCK FALSE
