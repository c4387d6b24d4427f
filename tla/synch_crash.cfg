SPECIFICATION FairCloneSpec
CONSTANTS
    Sock <- MCSock
    Base <- MCBase
    SockCap = 1
    Modes <- SynchMode
    ShortCounts = TRUE
    BufSize = 1
    PipeCap = 1
    PipeMin = 1
    MaxSent = 2
    MaxReply <- OneAndTwo
    Reply <- One
    Sequential = {"prod", "dup"}
    Leaving <- CloneLeaving
    MaxLeave = 3
    MayFail = {}
CHECK_DEADLOCK FALSE
PROPERTY
    CloneCrashIsSafe
