CONSTANTS
    k1 = k1
    k2 = k2
    k3 = k3
    NoGroup = NoGroup
    M = 2
    N = 2
    Keys <- MCKeys
    Hash <- MCHash
    Inputs <- MCInputs
    MaxChunkSize = 1
    InitCap = 1
    HasDefault = TRUE
    ChildMayFail = TRUE
    EvalMayFail = FALSE
    MergeMayFail = FALSE

SPECIFICATION Spec

INVARIANT TypeOK
INVARIANT ReturnedRowsCorrect
INVARIANT ResultComplete
INVARIANT FetcherSendNeverBlocks
INVARIANT RunReleasesMemory

PROPERTY CloseReturns
PROPERTY NextReturns
INVARIANT NoSendOnClosedChannel
