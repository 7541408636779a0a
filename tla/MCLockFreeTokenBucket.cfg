SPECIFICATION FairSpec
CONSTANTS
    Procs = {p1, p2}
    Batches = {0, 1, 2}
    Horizon = 2
    Unit = 4
    Rate = 3
    Capacity = 2
    Eps = 1
    MaxBatch = 2
    Addr = {a1, a2, a3, a4, a5}
    Nil = Nil
INVARIANTS
    TypeOK
    NoABA
    LostSwapMeansProgress
    StaleOverestimates
PROPERTIES
    ImplementsContract
    BurstIsServed
    EveryCallReturns
