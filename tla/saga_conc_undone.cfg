\* A concurrent saga of three steps; no crash, no preemption.
CONSTANTS
    N = 3
    c1 = c1
    c2 = c2
    Coords <- MCCoords
    Concurrent = TRUE
    Orders <- MCOrders3
    TimeoutToFail = FALSE
    UpdateBranchSync = FALSE
    Preemption = FALSE
    MsgBranch = MsgBranch
    QueueCap = 2
    MaxCrashes = 0
    MaxSubmits = 1
    MaxDeadlines = 1
SPECIFICATION Spec
INVARIANT SagaFailedUndone
SYMMETRY Sym
