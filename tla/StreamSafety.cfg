CONSTANTS
    Window = 2
    MaxChunks = 3
    SizeOf <- MCSizeOf
    Submits <- MCServerSends
    Closes = {"server"}
    Aborts = {"client"}
    MaxGen = 2
SPECIFICATION Spec
INVARIANTS
    TypeOK
    InOrder
    FlowAccounting
    InFlightBounded
    NoStrandedWaiter
    EofFaithful
CHECK_DEADLOCK FALSE
