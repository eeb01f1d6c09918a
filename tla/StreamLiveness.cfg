CONSTANTS
    Window = 2
    MaxChunks = 2
    SizeOf <- MCSizeOf
    Submits <- MCServerSendsTwo
    Closes = {}
    Aborts = {}
    MaxGen = 2
SPECIFICATION FairSpec
PROPERTIES
    WriterProgress
CHECK_DEADLOCK FALSE
