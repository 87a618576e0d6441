\* A cron pass reads the rows, the client registers and tries one more
\* branch, then the pass aborts the global: the new try is never cancelled.
CONSTANTS
    NP = 2
    c1 = c1
    c2 = c2
    Coords <- MCCoords
    TimeoutToFail = TRUE
    Preemption = FALSE
    MaxCrashes = 0
    DupSubmit = FALSE
SPECIFICATION Spec
INVARIANT TccFailedCancelled
SYMMETRY Sym
