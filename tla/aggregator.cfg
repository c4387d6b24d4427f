SPECIFICATION Spec
CONSTANTS
    Prod <- MCProd
    Clone <- MCClone
    Sock <- MCSock
    Backend <- MCBackend
    Base <- MCBase
    SockCap = 2
    ShortCounts = TRUE
    BufSize = 2
    NumConns = 1
    Served = {0}
    PipeCap = 1
    PipeMin = 1
    MaxSent <- OneTalks
    Leaving <- CloneLeaving
    Mortal = {"p2"}
    MayFail = {"p1"}
CHECK_DEADLOCK FALSE
INVARIANTS
    TypeOK
    NoLostIncrement
    CloneFollows
    ProductionExact
    ReplayFaithful
    CloneNeverAhead
