SPECIFICATION Spec
CONSTANTS
    Precision = 17
    MaxExponent = 13
    Scale <- MCScale
    TicksPerSecond = 3
    RateScale = 4
    Inf = Inf
    NaN = NaN
    Configs <- InfiniteRate
    MaxGap = 3
    MaxCalls = 12
    EpsilonRel <- MCEpsilonRel
    Window = 5
INVARIANTS
    ObservablyEquivalent
CHECK_DEADLOCK FALSE
