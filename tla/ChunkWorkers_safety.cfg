SPECIFICATION FairSpec
CONSTANTS
    NumChunks = 6
    NumWorkers = 3
    MaxInFlight = 2
    Faults = {"compress_error", "worker_panic", "write_error"}
INVARIANT TypeOK
PROPERTIES ImplementsUnorderedStream Termination
