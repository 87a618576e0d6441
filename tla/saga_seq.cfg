\* A sequential saga, synchronous branch updates, two crashes, no preemption.
\* Under the fairness of Saga the saga also eventually finishes.
CONSTANTS
    N = 2
    c1 = c1
    c2 = c2
    Coords <- MCCoords
    Concurrent = FALSE
    Orders <- MCNoOrders
    TimeoutToFail = FALSE
    UpdateBranchSync = TRUE
    Preemption = FALSE
    MsgBranch = MsgBranch
    QueueCap = 2
    MaxCrashes = 2
    MaxSubmits = 1
    MaxDeadlines = 2
SPECIFICATION FairSpec
INVARIANTS SucceedAllApplied SagaFailedUndone ActionsInOrder
PROPERTY SagaTerminates SagaRefines
