\* A sequential saga with a fail-timeout, submitted twice by its client; no crash.
CONSTANTS
    N = 2
    c1 = c1
    c2 = c2
    Coords <- MCCoords
    Concurrent = FALSE
    Orders <- MCNoOrders
    TimeoutToFail = TRUE
    UpdateBranchSync = TRUE
    Preemption = FALSE
    MsgBranch = MsgBranch
    QueueCap = 2
    MaxCrashes = 0
    MaxSubmits = 2
    MaxDeadlines = 1
SPECIFICATION Spec
INVARIANT SucceedAllApplied
PROPERTY GlobalStatusTransitions
SYMMETRY Sym
