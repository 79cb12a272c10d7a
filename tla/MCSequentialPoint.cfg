CONSTANTS
    Keys <- MCKeys
    InitElems <- MCInitElems
    Priorities <- MCPriorities
    QueryThreads = {q1}
    LogDebug = TRUE
    Workloads <- MCPointWorkloads
SPECIFICATION Spec
INVARIANT NoNullDeref
