\* Two workers and two chunks; compression may fail and nothing else does.
SPECIFICATION Spec
CONSTANTS
    c1 = c1
    c2 = c2
    c3 = c3
    c4 = c4
    c5 = c5
    Chunk <- MCChunk
    Input <- MCShortInput
    NumWorkers = 2
    ChannelFactor = 1
    Faults = {"compress_error"}
INVARIANT WorkerErrorReported
