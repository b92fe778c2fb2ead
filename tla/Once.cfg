SPECIFICATION FairOnceSpec
CONSTANTS
    Callers = {c1, c2, c3}
    Fallible = TRUE
    MaxFails = 2
INVARIANTS
    TrueMeansCreated
    CreatedOnce
    FalseIsHonest
PROPERTY EveryCallReturns
