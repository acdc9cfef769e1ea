CONSTANTS
    a = a
    b = b
    c = c
    NoKey = NoKey
    NoVal = NoVal
    Vals <- MCVals
    Coll <- MCColl
    Inputs <- MCInputs
    MaxChunks = 3
    MaxRows = 2
    Plans <- MCPlans
    MaxChunkSize = 1
    InitCap = 1
    AllocDelta = 0
    UpdateDelta = 0
    ChildMayFail = FALSE
    UpdateMayFail = TRUE
    MaxOpens = 2

SPECIFICATION Spec

INVARIANT RowsCorrect
