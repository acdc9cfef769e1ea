CONSTANTS
    k1 = k1
    k2 = k2
    k3 = k3
    NoGroup = NoGroup
    M = 2
    N = 1
    Keys <- MCKeys
    Hash <- MCHashOne
    Inputs <- MCInputsTwo
    MaxChunkSize = 1
    InitCap = 1
    HasDefault = FALSE
    ChildMayFail = TRUE
    EvalMayFail = TRUE
    MergeMayFail = FALSE

SPECIFICATION Spec

PROPERTY CloseReturns

\* A hung Close is exactly what CloseReturns reports; the deadlock check
\* would stop at the same state first.
CHECK_DEADLOCK FALSE
