CONSTANTS
    Keys <- MCKeys
    InitElems <- MCInitElems
    Priorities <- MCPriorities
    Workloads <- MCContreapWorkloads
    NumThreads = 2
    BlockSize = 1
    QueryThreads <- MCQueryThreads
    LogDebug = TRUE
SPECIFICATION CSpec
INVARIANT Drained
