\* A sequential saga whose lease may expire while a pass runs.
CONSTANTS
    N = 2
    c1 = c1
    c2 = c2
    Coords <- MCCoords
    Concurrent = FALSE
    Orders <- MCNoOrders
    TimeoutToFail = FALSE
    UpdateBranchSync = TRUE
    Preemption = TRUE
    MsgBranch = MsgBranch
    QueueCap = 2
    MaxCrashes = 0
    MaxSubmits = 1
    MaxDeadlines = 1
SPECIFICATION Spec
INVARIANT ActionsInOrder
SYMMETRY Sym
