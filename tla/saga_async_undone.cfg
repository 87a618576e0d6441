\* A sequential saga with asynchronous branch-status updates; no crash.
CONSTANTS
    N = 2
    c1 = c1
    c2 = c2
    Coords <- MCCoords
    Concurrent = FALSE
    Orders <- MCNoOrders
    TimeoutToFail = FALSE
    UpdateBranchSync = FALSE
    Preemption = FALSE
    MsgBranch = MsgBranch
    QueueCap = 2
    MaxCrashes = 0
    MaxSubmits = 1
    MaxDeadlines = 1
SPECIFICATION Spec
INVARIANT SagaFailedUndone
SYMMETRY Sym
