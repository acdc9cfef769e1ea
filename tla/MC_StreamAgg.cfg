CONSTANTS
    a = a
    b = b
    c = c
    NoKey = NoKey
    NoVal = NoVal
    Vals <- MCVals
    Coll <- MCColl
    Inputs <- MCInputs
    MaxChunks = 4
    MaxRows = 3
    Plans <- MCPlans
    MaxChunkSize = 1
    InitCap = 1
    AllocDelta = 0
    UpdateDelta = 0
    ChildMayFail = TRUE
    UpdateMayFail = TRUE
    MaxOpens = 1

SPECIFICATION Spec

CONSTRAINT RowBound

INVARIANT TypeOK
INVARIANT RowsCorrect
INVARIANT ResultComplete
PROPERTY NextCallReturns
