CONSTANTS
    Keys <- MCKeys
    InitElems <- MCInitElems
    Priorities <- MCPriorities
    Workloads <- MCDeleteCountWorkloads
    BatchSize = 2
    QueryThreads <- MCOneQueryThread
SPECIFICATION Spec
INVARIANT AnswersCorrect
