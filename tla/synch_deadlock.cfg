SPECIFICATION Spec
CONSTANTS
    Sock <- MCSock
    Base <- MCBase
    SockCap = 2
    Modes <- SynchMode
    ShortCounts = TRUE
    BufSize = 2
    PipeCap = 1
    PipeMin = 1
    MaxSent = 13
    MaxReply <- Many
    Reply <- One
    Sequential = {"prod", "dup"}
    Leaving <- NoneLeaving
    MaxLeave = 3
    MayFail = {}
CHECK_DEADLOCK FALSE
INVARIANT
    NoCircularWait
