SPECIFICATION FairRunSpec
CONSTANTS
    Workers = {w1, w2}
    Latencies = {0, 1, 2, 6}
    TimerCost = 2
    MaxRuntime = 3
    MaxCalls = 3
    Buckets = 4
CHECK_DEADLOCK FALSE
INVARIANTS
    RunTypeOK
    ReportIsExact
    OneLateCallAtMost
    QuantileWithinFactorTwo
PROPERTIES
    RunReturns
