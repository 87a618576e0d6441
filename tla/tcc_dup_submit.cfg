\* The client's submit request reaches the server twice: the second copy
\* finds the global submitted and processes the empty GenBranches().
CONSTANTS
    NP = 2
    c1 = c1
    c2 = c2
    Coords <- MCCoords
    TimeoutToFail = FALSE
    Preemption = FALSE
    MaxCrashes = 0
    DupSubmit = TRUE
SPECIFICATION Spec
INVARIANT TccSucceedConfirmed
SYMMETRY Sym
