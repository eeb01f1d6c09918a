CONSTANTS
    High = 4
    Low = 2
    Sizes = {1, 3}
    MaxChunk = 3
    HonoursPause = TRUE
    MaxBytes = 14
    Sockets = {1, 2, 3}
    Window = 1
    MaxTyped = 2
    MaxPrinted = 3
    MaxChunks = 2
    FrameBytes = 3
    Header = 3
    MaxFrame = 2
    MaxFrames = 2
    Payload <- MCPayload
SPECIFICATION MCSpec
INVARIANTS
    FailureIsHandled
CHECK_DEADLOCK FALSE
