SPECIFICATION Spec
CONSTANTS
    Sock <- MCSock
    Base <- MCBase
    SockCap = 2
    Modes <- OneMode
    ShortCounts = TRUE
    BufSize = 2
    PipeCap = 2
    PipeMin = 1
    MaxSent = 3
    MaxReply <- One
    Reply <- One
    Sequential = {"prod", "dup"}
    Leaving <- AnyLeaving
    MaxLeave = 2
    MayFail = {"T2", "T3"}
CHECK_DEADLOCK FALSE
INVARIANTS
    TypeOK
    ProductionInOrder
    RepliesInOrder
    CloneFaithful
    CloneNeverAhead
    SynchLag
PROPERTIES
    WindowHolds
    MirrorsTraffic
