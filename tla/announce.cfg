SPECIFICATION Spec
CONSTANTS
    MAX_ATTEMPTS = 2
    HEADER = 2
    ENTRY = 3
    BUFFER = 9
    MaxDuplicates = 1
    Torrents <- MCTorrents
    Replies <- MCReplies
INVARIANTS
    TypeOK
    AcceptedAnswersAnnounce
    TxPanicNeedsExtraAnswer
    PeersUpToFirstZero
    ParsePanicsOnlyWhenFull
PROPERTIES
    Resolves
CHECK_DEADLOCK FALSE
