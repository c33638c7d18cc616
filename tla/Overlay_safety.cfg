\* Every path of one or two names over two names.
CONSTANTS
    a = a
    d = d
    Names <- MCNames
    Whiteout = wh
    Archive <- MCArchive
    Offsets = {2}
    Sizes = {0}
    MaxRequests = 6
    CommitCost = 3
SPECIFICATION WorkspaceSpec
INVARIANTS
    TypeOK
    PathsInverse
    OverlayHasInodes
    WritesSurvive
    WrittenListed
