SPECIFICATION Spec
CONSTANTS
    Procs = {p1, p2}
    Batches <- MCBatches
    Horizon = 4
    Unit = 4
    Rate = 3
    CapQ = 8
    Slack <- MCSlack
    MaxSlack = 3
    Backdating = TRUE
SYMMETRY Symmetry
INVARIANTS
    TypeOK
    Accounting
    DebtBound
    WindowBound
