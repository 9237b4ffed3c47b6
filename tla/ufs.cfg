SPECIFICATION Spec
CONSTANTS
    Names     <- MCNames
    RootNames <- MCRootNames
    SwapNames <- MCSwapNames
    SliceOf   <- MCSliceOf
    Disks     <- MCDisks
    Disk      <- MCDisk
    Targets   <- AllTargets
    FileName  = "netbsd"
    CACHE_SIZE = 3
    NDADDR    = 2
    IndSpan   = 2
    NumFds    = 2
    Lengths   <- MCLengths
    Positions <- MCPositions
    Junk      <- MCJunk
    MaxBoots  = 2
    MaxReads  = 3
    MaxFailures = 1
INVARIANTS
    CacheCoherent
    CacheIsLRU
    ReadRight
    OpenRight
    PartitionRight
    DescriptorReleased
