SPECIFICATION Spec
CONSTANTS
    Sock <- MCSock
    Base <- MCBase
    SockCap = 2
    Modes <- MCModes
    ShortCounts = FALSE
    BufSize = 2
    PipeCap = 1
    MaxSent = 3
    Reply <- One
    MaxReply <- One
    Leaving <- MostLeaving
CHECK_DEADLOCK FALSE
INVARIANTS
    TypeOK
    RepliesInOrder
    CloneNeverAhead
    StreamBoundsLag
PROPERTY
    MirrorsTraffic
