CONSTANTS
    Keys <- MCKeys
    InitElems <- MCInitElems
    Priorities <- MCPriorities
    Workloads <- MCMidBatchWorkloads
    BatchSize = 2
    QueryThreads <- MCOneQueryThread
SPECIFICATION Spec
INVARIANT AnswersCorrect
