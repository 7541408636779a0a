SPECIFICATION Spec
CONSTANTS
    Rates <- MCTinyRates
    Denom = 8
    Inf = Inf
    NaN = NaN
    Capacities = {1}
    Second = 12
    MaxSpan = 16
    OutOfRange <- MCOutOfRange
CHECK_DEADLOCK FALSE
INVARIANT
    ConversionsFit
