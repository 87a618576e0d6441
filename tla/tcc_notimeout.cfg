\* Two participants, no fail-timeout: the client drives submit or abort,
\* and its submit may arrive twice; lost calls and replies, late tries,
\* one crash.
CONSTANTS
    NP = 2
    c1 = c1
    c2 = c2
    Coords <- MCCoords
    TimeoutToFail = FALSE
    Preemption = FALSE
    MaxCrashes = 1
    DupSubmit = TRUE
SPECIFICATION Spec
INVARIANTS TccFailedCancelled TccExactlyOnce TccNoNullCancel
PROPERTY TccNoSuspension
SYMMETRY Sym
