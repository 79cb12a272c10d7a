CONSTANTS
    Keys <- MCKeys
    InitElems <- MCInitElems
    Priorities <- MCTiedPriorities
    QueryThreads = {q1}
    LogDebug = TRUE
    Workloads <- MCShortWorkloads
SPECIFICATION Spec
PROPERTY Refinement
