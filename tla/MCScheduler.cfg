CONSTANTS
    Keys <- MCKeys
    InitElems <- MCInitElems
    Priorities <- MCPriorities
    Workloads <- MCWorkloads
    NumThreads = 2
    BlockSize = 1
SPECIFICATION Spec
INVARIANT TypeOK
INVARIANT AugCacheSound
INVARIANT SnapshotQueryReady
PROPERTY Refinement
PROPERTY Progress
