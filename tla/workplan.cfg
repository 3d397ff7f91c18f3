SPECIFICATION FairSpec
CONSTANTS
    NumPieces = 3
    PieceLengths <- MCPieceLengths
    ChunkSizes <- MCChunkSizes
    U32 = 10
    MaxChunks = 30
INVARIANTS
    TypeOK
    PiecesTiled
    AssembledInPlace
    ExpectedIdsQueued
    
PROPERTIES
    Terminates
CHECK_DEADLOCK FALSE
