CONSTANTS
    k1 = k1
    k2 = k2
    k3 = k3
    EmptyKey = EmptyKey
    Keys <- MCKeys
    Inputs <- MCInputs
    MaxChunks = 2
    MaxRows = 2
    MaxChunkSize = 1
    InitCap = 1
    AllocDelta = 0
    UpdateDelta = 0
    ChildMayFail = FALSE
    MaxOpens = 2

SPECIFICATION Spec

INVARIANT RowsCorrect
