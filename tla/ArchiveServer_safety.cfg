\* The servers wait for their clients, which stop at their bounds.
CONSTANTS
    n1 = n1
    h1 = h1
    Readers <- MCReaders
    NbdClients <- MCNbdClients
    HttpClients <- MCHttpClients
    Archive <- MCArchive
    Parents <- MCParents
    Capacity = 1
    BlockSize = 1
    PARALLEL_MIN_BLOCKS = 2
    BackendFails = TRUE
    MAX_BUFFER_SIZE = 7
    Extents <- MCExtents
    MaxOptions = 1
    MaxRequests = 2
    MAX_CHUNK_SIZE = 4
    Ranges <- MCRanges
SPECIFICATION FairSpec
INVARIANTS
    TypeOK
    CacheTrue
    OnePrefetch
    InSync
    RangeHonoured
PROPERTIES
    Answered
CHECK_DEADLOCK FALSE
