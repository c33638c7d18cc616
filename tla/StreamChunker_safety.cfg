\* A buffer of twice max_size, as in the code when max_size is large.
CONSTANTS
    InputSizes <- MCInputSizes
    CutSets <- MCCutSets
    BufferSize = 8
    MinSize = 2
    MaxSize = 4
SPECIFICATION FairSpec
INVARIANTS
    TypeOK
    Lossless
    ChunkBounds
    ContentDefined
PROPERTY Termination
