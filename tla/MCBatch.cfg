CONSTANTS
    Keys <- MCKeys
    InitElems <- MCInitElems
    Priorities <- MCPriorities
    Workloads <- MCWorkloads
    BatchSize = 2
    QueryThreads <- MCOneQueryThread
SPECIFICATION Spec
INVARIANT TypeOK
INVARIANT SnapshotsConsistent
PROPERTY Persistence
PROPERTY CloseReturns
