CONSTANTS
    k1 = k1
    k2 = k2
    k3 = k3
    NoGroup = NoGroup
    M = 2
    N = 2
    Keys <- MCKeys
    Hash <- MCHash
    Inputs <- MCInputsTwo
    MaxChunkSize = 1
    InitCap = 1
    HasDefault = FALSE
    ChildMayFail = TRUE
    EvalMayFail = TRUE
    MergeMayFail = TRUE

SPECIFICATION Spec

INVARIANT ReturnedRowsCorrect

\* Faults let Close hang (see MC_ParallelHashAgg_hang.cfg); this run asks
\* only what the caller can see, so a hung state is not reported here.
CHECK_DEADLOCK FALSE
PROPERTY AggregationSpec
