SPECIFICATION FairSpec
CONSTANTS
    Procs = {p1, p2}
    Batches <- MCBatches
    Horizon = 4
    Unit = 4
    Rate = 3
    Capacity = 2
    Eps = 1
    MaxBatch = 3
INVARIANTS
    TypeOK
PROPERTIES
    ImplementsContract
    BurstIsServed
    EveryCallReturns
