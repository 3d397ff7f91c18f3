SPECIFICATION Spec
CONSTANTS
    PREFIX = 2
    HEADER = 4
    READ_BUF = 5
    Lengths <- MCLengths
    NoticeLengths <- MCNoticeLengths
    MaxRequests = 2
    MaxNotices = 1
INVARIANTS
    AllDataReceived
CHECK_DEADLOCK FALSE
