CONSTANTS
    Keys <- MCKeys
    InitElems <- MCInitElems
    Priorities <- MCPriorities
    Workloads <- MCW2Workloads
    NumThreads = 3
    BlockSize = 2
SPECIFICATION Spec
PROPERTY Refinement
