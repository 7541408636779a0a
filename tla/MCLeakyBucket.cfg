SPECIFICATION Spec
CONSTANTS
    Procs = {p1, p2}
    Batches = {0, 1, 2, 3}
    Horizon = 4
    Unit = 4
    Rate = 3
    Capacity = 2
    Eps = 1
SYMMETRY Symmetry
INVARIANTS
    TypeOK
PROPERTIES
    ImplementsContract
