CONSTANTS
    w1 = w1
    w2 = w2
    Null = Null
    Workers <- MCWorkers
    Values = {0, 1, 3}
    MaxRows = 3
SPECIFICATION Spec
INVARIANT TypeOK
INVARIANT VarSampCorrect
