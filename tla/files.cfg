SPECIFICATION Spec
CONSTANTS
    PieceLists <- MCPieceLists
    FileLists <- MCFileLists
INVARIANTS
    FilesFollowEachOther
CHECK_DEADLOCK FALSE
