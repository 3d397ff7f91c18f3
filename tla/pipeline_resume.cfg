SPECIFICATION Spec
CONSTANTS
    Pieces <- MCOnePiece
    Blocks <- MCOneBlock
    DL_WORKERS = 1
    NumPeers = 1
    MaxRuns = 2
    NoChunk = NoChunk
INVARIANTS
    SkippedIsComplete
CHECK_DEADLOCK FALSE
