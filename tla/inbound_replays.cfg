SPECIFICATION FairSpec
CONSTANTS
    Clients = {c1}
    MaxStreams = 2
    Segments = 2
    MaxEvents = 6
    MaxFaults = 2
INVARIANTS OpenTracked InOrderOnce OnlyWhole NoGap
PROPERTIES CaughtUp
CHECK_DEADLOCK FALSE
