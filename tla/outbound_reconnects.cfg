SPECIFICATION FairSpec
CONSTANTS
    Streams = {s1, s2}
    Capacity = 2
    MaxSegments = 2
    SplitError = SplitError
    MaxMessages = 2
    MaxAcks = 2
    MaxDisconnects = 2
INVARIANTS TypeOK UsedExact Retained
PROPERTIES DeliverySafe DeliveryLive EventuallyDrained
CHECK_DEADLOCK FALSE
