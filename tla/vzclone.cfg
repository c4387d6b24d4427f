SPECIFICATION FairSpec
CONSTANTS
    Options <- Any
    MaxTop = 2
    MaxVersion = 2
CHECK_DEADLOCK FALSE
INVARIANTS
    TypeOK
    SourceRestored
    CloneComplete
    Retryable
    CloneSameState
    CloneThere
PROPERTY
    SourceResumes
