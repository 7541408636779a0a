SPECIFICATION FairSpec
CONSTANTS
    Procs = {p1, p2}
    Batches = {0, 1, 2, 6}
    Horizon = 5
    T = 3
    Capacity = 2
    MaxSpan = 8
PROPERTY
    BurstIsServed
