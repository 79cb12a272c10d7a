CONSTANTS
    Keys <- MCKeys
    InitElems <- MCInitElems
    Priorities <- MCPriorities
    QueryThreads = {q1}
    LogDebug = TRUE
    Workloads <- MCWorkloads
SPECIFICATION Spec
INVARIANT TypeOK
INVARIANT SnapshotsQueryReady
INVARIANT AnswersCorrect
PROPERTY Refinement
PROPERTY CloseReturns
