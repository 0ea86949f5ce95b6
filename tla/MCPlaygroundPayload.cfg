SPECIFICATION Spec
CONSTANTS
    MaxSends = 2
    MaxChunks = 2
    Pieces <- MCPieces
    Typed <- MCTyped
INVARIANT PayloadIsSettled
