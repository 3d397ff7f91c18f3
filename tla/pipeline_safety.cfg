SPECIFICATION Spec
CONSTANTS
    Pieces <- MCPieces
    Blocks <- MCBlocks
    DL_WORKERS = 2
    NumPeers = 3
    MaxRuns = 2
    NoChunk = NoChunk
INVARIANTS
    TypeOK
    OnePlacePerChunk
    NoMapPanic
    MemoryMatchesDisk
    QuietMeansComplete
PROPERTIES
    CompletePieceImmutable
    Delivers
CHECK_DEADLOCK FALSE
