SPECIFICATION FairSpec
CONSTANTS
    Pieces <- MCPieces
    Blocks <- MCBlocks
    DL_WORKERS = 2
    NumPeers = 3
    MaxRuns = 1
    NoChunk = NoChunk
INVARIANTS
    RestHasReason
PROPERTIES
    WindsDown
    StopsForAReason
    ComesToRest
CHECK_DEADLOCK FALSE
