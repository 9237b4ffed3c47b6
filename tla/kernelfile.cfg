SPECIFICATION Spec
CONSTANTS
    Files     <- MCFiles
    File      <- MCFile
    Places    <- MCPlaces
    Ratio     = 2
    Z_BUFSIZE = 4
    DUMMYBUFSIZE = 3
    MAX_BOOTER_FILES = 2
    Lengths   <- MCLengths
    Offsets   <- MCOffsets
    MaxBoots  = 2
    MaxCalls  = 3
    MaxFailures = 1
INVARIANTS
    ReadRight
    SeekRight
    PositionRight
