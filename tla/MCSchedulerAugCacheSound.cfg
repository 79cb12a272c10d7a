CONSTANTS
    Keys <- MCKeys
    InitElems <- MCInitElems
    Priorities <- MCPriorities
    Workloads <- MCWorkloads
    NumThreads = 3
    BlockSize = 1
SPECIFICATION Spec
INVARIANT AugCacheSound
