SPECIFICATION FairSpec
CONSTANTS
    Sock <- MCSock
    Base <- MCBase
    SockCap = 1
    Modes <- MCModes
    ShortCounts = FALSE
    BufSize = 1
    PipeCap = 1
    MaxSent = 5
    Reply <- NoReply
    MaxReply <- NoReply
    Leaving <- CleanLeaving
CHECK_DEADLOCK FALSE
PROPERTIES
    EndSpreads
    ProductionServed
    ThreadsEnd
