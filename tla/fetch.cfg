SPECIFICATION SessionSpec
CONSTANTS
    PREFIX = 2
    HEADER = 4
    READ_BUF = 5
    HANDSHAKE = 3
    HASH_END = 2
    HS_BUF = 4
    SETUP_BUF = 3
    Lengths <- MCLengths
    NoticeLengths <- MCNoticeLengths
    MaxRequests = 2
    MaxNotices = 3
INVARIANTS
    SessionTypeOK
    LengthTellsTheBlock
    MissesAtMostPrefix
    SpinsOnlyMidMessage
    HandshakeBeforeRequest
PROPERTIES
    FetchResolves
    SetupResolves
    ActsAsConnection
CHECK_DEADLOCK FALSE
