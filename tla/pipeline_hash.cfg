SPECIFICATION Spec
CONSTANTS
    Pieces <- MCOnePiece
    Blocks <- MCOneBlock
    DL_WORKERS = 1
    NumPeers = 1
    MaxRuns = 1
    NoChunk = NoChunk
INVARIANTS
    HashChecked
CHECK_DEADLOCK FALSE
