SPECIFICATION Spec
CONSTANTS
    Prod <- MCProd
    Clone <- MCClone
    Sock <- MCSock
    Backend <- MCBackend
    Base <- MCBase
    SockCap = 1
    ShortCounts = TRUE
    BufSize = 1
    NumConns = 2
    Served = {0}
    PipeCap = 1
    PipeMin = 1
    MaxSent <- Silent
    Leaving <- NoneLeaving
    Mortal = {}
    MayFail = {}
CHECK_DEADLOCK FALSE
INVARIANT
    OneQueueEach
