SPECIFICATION Spec
CONSTANTS
    Inputs <- MCInputs
    Parts <- MCParts
    None = "none"
    Unknown = "unknown"
    MaxCommands = 4
INVARIANT SignedVerifies
PROPERTY ImplementsPublishedFile
