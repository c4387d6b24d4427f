SPECIFICATION FairCloneSpec
CONSTANTS
    Sock <- MCSock
    Base <- MCBase
    SockCap = 1
    Modes <- AsynchMode
    ShortCounts = TRUE
    BufSize = 1
    PipeCap = 1
    PipeMin = 1
    MaxSent = 1
    MaxReply <- OneAndTwo
    Reply <- None
    Sequential = {}
    Leaving <- ClientLeaving
    MaxLeave = 3
    MayFail = {}
CHECK_DEADLOCK FALSE
PROPERTY
    CloneSeesClose
