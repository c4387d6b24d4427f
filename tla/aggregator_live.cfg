SPECIFICATION FairSpec
CONSTANTS
    Prod <- OneProd
    Clone <- MCClone
    Sock <- OneSock
    Backend <- OneBackend
    Base <- OneBase
    SockCap = 1
    ShortCounts = TRUE
    BufSize = 1
    NumConns = 1
    Served = {0, 1}
    PipeCap = 1
    PipeMin = 0
    MaxSent <- OneReplies
    Leaving <- BackendLeaving
    Mortal = {"p1", "c1"}
    MayFail = {"c1"}
CHECK_DEADLOCK FALSE
PROPERTIES
    ReplyServed
    HandlerDone
    ExchangesReplies
