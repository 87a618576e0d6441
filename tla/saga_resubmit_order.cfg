\* A sequential saga submitted twice by its client; no crash, no preemption.
CONSTANTS
    N = 2
    c1 = c1
    c2 = c2
    Coords <- MCCoords
    Concurrent = FALSE
    Orders <- MCNoOrders
    TimeoutToFail = FALSE
    UpdateBranchSync = TRUE
    Preemption = FALSE
    MsgBranch = MsgBranch
    QueueCap = 2
    MaxCrashes = 0
    MaxSubmits = 2
    MaxDeadlines = 1
SPECIFICATION Spec
INVARIANT ActionsInOrder
SYMMETRY Sym
