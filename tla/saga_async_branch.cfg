\* A sequential saga with asynchronous branch-status updates on two servers:
\* a stale failed update is flushed after the succeed of a later pass.
CONSTANTS
    N = 2
    c1 = c1
    c2 = c2
    Coords <- MCCoords
    Concurrent = FALSE
    Orders <- MCNoOrders
    TimeoutToFail = FALSE
    UpdateBranchSync = FALSE
    Preemption = FALSE
    MsgBranch = MsgBranch
    QueueCap = 2
    MaxCrashes = 0
    MaxSubmits = 1
    MaxDeadlines = 1
SPECIFICATION Spec
SYMMETRY Sym
PROPERTY BranchSucceedTerminal
