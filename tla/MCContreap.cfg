CONSTANTS
    Keys <- MCKeys
    InitElems <- MCInitElems
    Priorities <- MCContreapPriorities
    Workloads <- MCContreapWorkloads
    NumThreads = 2
    BlockSize = 1
    QueryThreads <- MCQueryThreads
    LogDebug = TRUE
SPECIFICATION CSpec
INVARIANT CTypeOK
INVARIANT AnswersCorrect
PROPERTY CloseReturns
