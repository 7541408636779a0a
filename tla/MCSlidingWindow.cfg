SPECIFICATION Spec
CONSTANTS
    Procs = {p1, p2}
    Batches = {0, 1, 2}
    Horizon = 7
    Limit = 2
    Window = 3
    Eps = 2
SYMMETRY Symmetry
INVARIANTS
    TypeOK
    LazyRolloverIsExact
    OverlapIsFraction
    TrailingOvershootBounded
