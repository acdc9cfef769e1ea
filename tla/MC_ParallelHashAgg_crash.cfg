CONSTANTS
    k1 = k1
    k2 = k2
    k3 = k3
    NoGroup = NoGroup
    M = 2
    N = 2
    Keys <- MCKeys
    Hash <- MCHash
    Inputs <- MCInputsTwo
    MaxChunkSize = 1
    InitCap = 1
    HasDefault = FALSE
    ChildMayFail = FALSE
    EvalMayFail = TRUE
    MergeMayFail = FALSE

SPECIFICATION Spec

INVARIANT NoSendOnClosedChannel
