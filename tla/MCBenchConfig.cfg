SPECIFICATION Spec
CONSTANTS
    Rates <- MCRates
    Denom = 8
    Inf = Inf
    NaN = NaN
    Capacities <- MCCapacities
    Second = 12
    MaxSpan = 16
    OutOfRange <- MCOutOfRange
CHECK_DEADLOCK FALSE
INVARIANTS
    TypeOK
    NumbersNeverPanic
    RefusalsAreNeeded
    WarnedBeforeRows
    CompleteOrError
