\* Two participants with a fail-timeout and a lease that may expire under a
\* running cron pass: the client's submit and abort race the cron poller's
\* timeout abort; lost calls and replies, late tries, one crash.  Under the
\* fairness of Tcc a prepared global is eventually finished.
CONSTANTS
    NP = 2
    c1 = c1
    c2 = c2
    Coords <- MCCoords
    TimeoutToFail = TRUE
    Preemption = TRUE
    MaxCrashes = 1
    DupSubmit = FALSE
SPECIFICATION FairSpec
INVARIANT TccSucceedConfirmed
INVARIANT NoConfirmAndCancel
PROPERTY TccTerminates
