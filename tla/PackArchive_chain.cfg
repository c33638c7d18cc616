\* Three archives, each the base of the next.
CONSTANTS
    ENTRIES_PER_PAGE = 2
    BlockSize = 1
    MaxArchives = 3
    Inputs <- ChainInputs
SPECIFICATION Spec
INVARIANT ChainReadBack
