CONSTANTS
    High = 4
    Low = 2
    Sizes = {1, 3, 6}
    MaxRead = 5
    MaxInbox = 3
    Interval = 4
    ProvideTime = 1
    Retry = 1
    Patience = 4
    MaxSkew = 3
    MaxTime = 21
SPECIFICATION MCSpec
INVARIANTS
    TypesOK
    OneTransport
    OutputAccounted
    Meets
PROPERTIES
    EverythingSettles
CHECK_DEADLOCK FALSE
