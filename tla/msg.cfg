\* A msg of two steps: the producer's DoAndSubmit with lost calls and
\* replies and a crash, an API pass and the cron poller, one coordinator
\* crash.  Liveness under the fairness of Msg, so no symmetry.
CONSTANTS
    NS = 2
    c1 = c1
    c2 = c2
    Coords <- MCCoords
    TimeoutToFail = TRUE
    MaxCrashes = 1
    MaxIval = 4
SPECIFICATION FairSpec
INVARIANTS DeliveredOnlyIfCommitted FailedNeverCommitted RetryDelayBounded
PROPERTIES CommittedDelivered MsgRefines
