SPECIFICATION FairSpec
CONSTANTS
    Sock <- MCSock
    Base <- MCBase
    SockCap = 1
    Modes <- AsynchMode
    ShortCounts = TRUE
    BufSize = 1
    PipeCap = 1
    PipeMin = 1
    MaxSent = 5
    MaxReply <- TwoOfClone
    Reply <- TwoOfClone
    Sequential = {"dup"}
    Leaving <- EndsLeaving
    MaxLeave = 1
    MayFail = {}
CHECK_DEADLOCK FALSE
PROPERTIES
    ProductionUndisturbed
    TearDownTogether
    CloneNotBlocked
