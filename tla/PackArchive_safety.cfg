\* Three archives, each with or without an earlier one as its base.
CONSTANTS
    ENTRIES_PER_PAGE = 2
    BlockSize = 1
    MaxArchives = 3
    Inputs <- MCInputs
SPECIFICATION Spec
INVARIANTS
    TypeOK
    DedupSound
    NonceNeverReused
    ReadBack
    ExtractUnchanged
    StatsTrue
