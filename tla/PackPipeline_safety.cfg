\* Three workers, five chunks, channels of three slots; everything may fail.
SPECIFICATION FairSpec
CONSTANTS
    c1 = c1
    c2 = c2
    c3 = c3
    c4 = c4
    c5 = c5
    Chunk <- MCChunk
    Input <- MCInput
    NumWorkers = 3
    ChannelFactor = 1
    Faults <- AllFaults
INVARIANTS
    TypeOK
    OrderedOutput
    Accounted
    JoinedBeforeReturn
PROPERTIES
    ImplementsOrderedStream
    Termination
