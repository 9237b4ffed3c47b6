SPECIFICATION Spec
CONSTANTS
    W = 4
    LenBits = 4
    EOB = 2
    cplens <- MCcplens
    cplext <- MCcplext
    cpdist <- MCcpdist
    cpdext <- MCcpdext
    FixedLens <- MCFixedLens
    FixedDist <- MCFixedDist
    HLIT = 2
    HDIST = 2
    HCLEN = 2
    MaxSyms = 2
    MinCounts = 4
    CLBits = 2
    border <- MCborder
    Plain = 4
    RepeatBits <- MCRepeatBits
    RepeatBase <- MCRepeatBase
    BMAX = 3
    lbits = 2
    dbits = 1
    bb = 3
    fixed_bl = 2
    fixed_bd = 2
    Streams <- MCStreams
    BUFSIZE = 7
    Rooms = {1, 8}
    WSIZE = 11
    FastOut = 5
    FastIn = 4
    GrabCode = 4
    GrabDist = 3
    MaxFailures = 1
INVARIANTS
    OutputRight
    EndRight
    MemoryHeld
CHECK_DEADLOCK FALSE
