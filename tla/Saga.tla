------------------------------- MODULE Saga --------------------------------
(***************************************************************************)
(* The SAGA driver of the coordinator (dtmsvr/trans_type_saga.go) with    *)
(* the parts of the engine, the store and the cron poller it runs in:     *)
(* svcSubmit (api.go), CronTransOnce / LockOneGlobalTrans (cron.go,       *)
(* storage/sql/sql.go), execBranch / changeStatus / changeBranchStatus    *)
(* (trans_status.go) and the async branch-status flusher (svr.go).        *)
(* Participants wrap their work in the branch barrier (module Barrier).   *)
(*                                                                         *)
(* One global transaction (one gid) with N steps.  FindBranches returns   *)
(* the branches by insertion id: index 2s is the compensate of step s and *)
(* index 2s+1 its action, exactly as GenBranches inserts them.            *)
(*                                                                         *)
(* Coordinators are processing threads, each in its own dtm server: the   *)
(* goroutine svcSubmit starts and the cron pollers.  A coordinator runs   *)
(* one ProcessOnce pass at a time; the pass is split at its suspension    *)
(* points (store calls, goroutine starts, channel receives).  Branch      *)
(* calls run in goroutines that outlive the pass when the pass returns    *)
(* before they finish.  Time is abstract: the lease (next_cron_time) may  *)
(* expire, the fail-timeout may elapse and a pass's deadline may pass at  *)
(* any moment.                                                             *)
(***************************************************************************)
EXTENDS Naturals, FiniteSets, Sequences

CONSTANTS
    N,                 \* number of saga steps
    Coords,            \* coordinator threads
    Concurrent,        \* csc.Concurrent (EnableConcurrent on the client)
    Orders,            \* csc.Orders: step -> steps that must succeed first
    TimeoutToFail,     \* TransOptions.TimeoutToFail > 0
    UpdateBranchSync,  \* conf.UpdateBranchSync > 0 or a non-SQL store
    MsgBranch,         \* barrier id of the msg barrier (unused by a saga)
    Preemption,        \* the lease may expire while a pass still runs
    QueueCap,          \* capacity of updateBranchAsyncChan (1000)
    MaxCrashes,        \* bound on coordinator crashes
    MaxSubmits,        \* bound on submit requests from the client
    MaxDeadlines       \* bound on passes cut short by timeLimit

Steps == 0..(N-1)
Branches == 0..(2*N - 1)

ASSUME /\ N \in Nat \ {0}
       /\ Concurrent \in BOOLEAN /\ TimeoutToFail \in BOOLEAN
       /\ UpdateBranchSync \in BOOLEAN /\ Preemption \in BOOLEAN
       /\ Orders \in [Steps -> SUBSET Steps]
       \* AddConcurrentContext sends the orders only with EnableConcurrent
       /\ ~Concurrent => \A s \in Steps : Orders[s] = {}
       /\ QueueCap \in Nat \ {0} /\ MaxCrashes \in Nat /\ MaxSubmits \in Nat \ {0}

VARIABLES
    \* the store: trans_global and trans_branch_op rows of the gid
    gStatus,    \* trans_global.status ("none" before the row exists)
    bStatus,    \* branch index -> trans_branch_op.status
    expired,    \* next_cron_time has passed (the lease is free)
    timedOut,   \* isTimeout(): create_time + TimeoutToFail has passed
    \* the participants
    barrier, busiDone,
    net,        \* requests abandoned by their caller, still in flight
    \* the coordinators
    pc,         \* coordinator -> where it is in a pass
    tStatus,    \* coordinator -> t.Status, its in-memory global status
    fresh,      \* coordinator -> its branches come from GenBranches (ID 0)
    br,         \* coordinator -> branchResults of the pass
    rs,         \* coordinator -> the rsA*/rsC* counters of the pass
    gor,        \* branch goroutines (asyncExecBranch), live or stray
    queue,      \* coordinator -> updateBranchAsyncChan of its server
    crashes, submits,
    deadlines   \* passes cut short by their deadline so far

storeVars == <<gStatus, bStatus, expired, timedOut>>
partVars == <<barrier, busiDone, net>>
coordVars == <<pc, tStatus, fresh, br, rs, gor, queue>>
vars == <<storeVars, partVars, coordVars, crashes, submits, deadlines>>

P == INSTANCE Barrier WITH BranchIDs <- Steps

GStatuses == {"none", "prepared", "submitted", "aborting", "succeed", "failed"}
BStatuses == {"prepared", "succeed", "failed"}
PCs == {"idle", "locked", "start", "fwd", "fwait", "rollup",
        "bwd", "bwait", "final"}
Phases == {"idle", "running", "ready", "recv"}
Outs == {"pending", "ok", "failure", "error"}

IsAction(i) == i % 2 = 1
OpOf(i) == IF IsAction(i) THEN "action" ELSE "compensate"
StepOf(i) == i \div 2
Actions == {i \in Branches : IsAction(i)}
Compensates == Branches \ Actions

BrRec == [st : BStatuses, ph : Phases, res : BStatuses]
RsRec == [aToStart : Nat, aStarted : Nat, aDone : Nat, aFailed : Nat,
          aSucceed : Nat, cToStart : Nat, cDone : Nat, cSucceed : Nat]
GorRec == [c : Coords, i : Branches, out : Outs, live : BOOLEAN,
           tst : GStatuses, fresh : BOOLEAN]

NoBr == [i \in Branches |-> [st |-> "prepared", ph |-> "idle", res |-> "prepared"]]
NoRs == [aToStart |-> 0, aStarted |-> 0, aDone |-> 0, aFailed |-> 0,
         aSucceed |-> 0, cToStart |-> 0, cDone |-> 0, cSucceed |-> 0]

TypeOK ==
    /\ gStatus \in GStatuses
    /\ bStatus \in [Branches -> BStatuses]
    /\ expired \in BOOLEAN /\ timedOut \in BOOLEAN
    /\ P!BarrierTypeOK
    /\ net \subseteq Steps \X {"action", "compensate"}
    /\ pc \in [Coords -> PCs]
    /\ tStatus \in [Coords -> GStatuses]
    /\ fresh \in [Coords -> BOOLEAN]
    /\ br \in [Coords -> [Branches -> BrRec]]
    /\ rs \in [Coords -> RsRec]
    /\ gor \subseteq GorRec
    /\ queue \in [Coords -> Seq([i : Branches, st : BStatuses])]
    /\ \A c \in Coords : Len(queue[c]) <= QueueCap
    /\ crashes \in 0..MaxCrashes /\ submits \in 0..MaxSubmits
    /\ deadlines \in 0..MaxDeadlines

Init ==
    /\ gStatus = "none"
    /\ bStatus = [i \in Branches |-> "prepared"]
    /\ expired = FALSE /\ timedOut = FALSE
    /\ barrier = [k \in P!Keys |-> P!NoRow]
    /\ busiDone = [k \in P!Keys |-> 0]
    /\ net = {}
    /\ pc = [c \in Coords |-> "idle"]
    /\ tStatus = [c \in Coords |-> "none"]
    /\ fresh = [c \in Coords |-> FALSE]
    /\ br = [c \in Coords |-> NoBr]
    /\ rs = [c \in Coords |-> NoRs]
    /\ gor = {}
    /\ queue = [c \in Coords |-> <<>>]
    /\ crashes = 0 /\ submits = 0 /\ deadlines = 0

-----------------------------------------------------------------------------
(* The store (storage/sql/sql.go) and the engine helpers.                  *)

\* Updates are synchronous for concurrent or timed sagas (ProcessOnce sets
\* t.updateBranchSync) and when the configuration asks for it.
SyncBranch == UpdateBranchSync \/ Concurrent \/ TimeoutToFail

\* Variant: an unconditional UPDATE.
CanChangeStatusAlways(c) == TRUE

\* ChangeGlobalStatus: UPDATE ... WHERE status = old; zero rows -> panic.
CanChangeStatus(c) == gStatus = tStatus[c]

\* LockGlobalSaveBranches(gid, t.Status, [b]): the SELECT ... FOR UPDATE
\* finds the row with status = tst and the Save of a branch with an ID
\* updates it; a branch with ID 0 is an INSERT that hits the unique key.
\* Otherwise the transaction fails and the caller panics.
SavesBranch(tst, isFresh) == gStatus = tst /\ ~isFresh

\* TouchCronTime: UPDATE next_cron_time ... WHERE status = t.Status.
TouchesCronTime(tst) == gStatus = tst

\* Variant: the upsert keyed by branch_id, so it hits both rows of a step.
UpdateBranchesByBranchID(u) ==
    [i \in Branches |-> IF StepOf(i) = StepOf(u.i) THEN u.st ELSE bStatus[i]]

\* UpdateBranches: the upsert of one queued status by branch id.
UpdateBranches(u) == [bStatus EXCEPT ![u.i] = u.st]

\* MaySaveNewTrans: the INSERT of the global row; ErrUniqueConflict when
\* the gid exists.
MaySaveNewTrans == gStatus = "none"

\* A send on updateBranchAsyncChan (capacity QueueCap) does not block.
ChanHasRoom(c) == Len(queue[c]) < QueueCap

\* changeBranchStatus(b, st) as run by a goroutine whose t.Status is tst:
\* - sync: LockGlobalSaveBranches(gid, t.Status, [b]): SELECT ... FOR UPDATE
\*   WHERE status = t.Status, then Save; ErrNotFound -> panic.  A branch
\*   with ID 0 (isFresh) is an INSERT that hits the unique key: panic too;
\* - async: the update goes to the server's updateBranchAsyncChan.  An
\*   update with ID 0 inserts a new, junk row (not modelled) and leaves
\*   the real row alone.  A send on a full channel blocks the goroutine.
ChangeBranchStatus(c, i, st, tst, isFresh) ==
    IF SyncBranch
    THEN /\ bStatus' = IF SavesBranch(tst, isFresh)
                       THEN [bStatus EXCEPT ![i] = st] ELSE bStatus
         /\ UNCHANGED queue
    ELSE /\ ChanHasRoom(c)
         /\ queue' = IF isFresh THEN queue
                     ELSE [queue EXCEPT ![c] = Append(@, [i |-> i, st |-> st])]
         /\ UNCHANGED bStatus

\* The branch rows a pass starts from: FindBranches, or GenBranches.
LoadBr(bs) == [i \in Branches |-> [st |-> bs[i], ph |-> "idle", res |-> bs[i]]]

\* Variant: any reply of the endpoint counts as success.
BranchResultAnyReply(i, out) ==
    CASE out \in {"ok", "failure"}         -> "succeed"
      [] OTHER                             -> ""

\* getBranchResult: the branch status an endpoint outcome yields ("" none).
BranchResult(i, out) ==
    CASE out = "ok"                        -> "succeed"
      [] out = "failure" /\ IsAction(i)    -> "failed"
      [] OTHER                             -> ""

-----------------------------------------------------------------------------
(* ProcessOnce's closures over the pass state of coordinator c.            *)

Cnt(S) == Cardinality(S)

\* Variant: a sequential saga without the previous-step check.
ShouldRunNoPrev(c, cur) ==
    \A pre \in Orders[StepOf(cur)] : br[c][pre * 2 + 1].st = "succeed"

\* Variant: a concurrent saga without the Orders check.
ShouldRunNoOrders(c, cur) ==
    ~(~Concurrent /\ cur >= 2 /\ br[c][cur - 2].st # "succeed")

\* Variant: the previous step only must not have failed.
ShouldRunNotFailed(c, cur) ==
    /\ ~(~Concurrent /\ cur >= 2 /\ br[c][cur - 2].st = "failed")
    /\ \A pre \in Orders[StepOf(cur)] : br[c][pre * 2 + 1].st = "succeed"

\* shouldRun(current), current an action index.
ShouldRun(c, cur) ==
    /\ ~(~Concurrent /\ cur >= 2 /\ br[c][cur - 2].st # "succeed")
    /\ \A pre \in Orders[StepOf(cur)] : br[c][pre * 2 + 1].st = "succeed"

\* The inverse of Orders (csc.cOrders).
COrders(s) == {k \in Steps : s \in Orders[k]}

\* rollbacked(i): compensate i done, or its action still prepared.
Rollbacked(b, i) == b[i].st = "succeed" \/ b[i + 1].st = "prepared"

\* shouldRollback(current), current a compensate index.
ShouldRollback(c, cur) ==
    /\ ~Rollbacked(br[c], cur)
    /\ ~(~Concurrent /\ cur < 2*N - 2 /\ ~Rollbacked(br[c], cur + 2))
    /\ \A nx \in COrders(StepOf(cur)) : Rollbacked(br[c], 2 * nx)

PickToRunActions(c) ==
    {cur \in Actions : br[c][cur].ph = "idle" /\ br[c][cur].st = "prepared"
                       /\ ShouldRun(c, cur)}

PickToRunCompensates(c) ==
    {cur \in Compensates : br[c][cur].ph = "idle" /\ br[c][cur].st = "prepared"
                           /\ ShouldRollback(c, cur)}

\* runBranches: flag started, count started actions, start the goroutines.
RunBranches(c, toRun) ==
    /\ br' = [br EXCEPT ![c] = [i \in Branches |->
                 IF i \in toRun THEN [@[i] EXCEPT !.ph = "running"] ELSE @[i]]]
    /\ rs' = [rs EXCEPT ![c].aStarted = @ + Cnt(toRun \cap Actions)]
    /\ gor' = gor \cup {[c |-> c, i |-> i, out |-> "pending", live |-> TRUE,
                         tst |-> "none", fresh |-> fresh[c]] : i \in toRun}
    /\ UNCHANGED net

\* prepareToCompensate: started-but-prepared actions count as succeeded,
\* then count the compensations to run.
PrepareToCompensate(b) ==
    [i \in Branches |->
        IF IsAction(i) /\ b[i].ph # "idle" /\ b[i].st = "prepared"
        THEN [b[i] EXCEPT !.st = "succeed"] ELSE b[i]]

\* Variant: count only the compensations of failed actions.
CToStartFailedOnly(b) ==
    Cnt({i \in Compensates : b[i].st # "succeed" /\ b[i + 1].st = "failed"})

CToStart(b) == Cnt({i \in Compensates : b[i].st # "succeed"
                                        /\ b[i + 1].st # "prepared"})

\* The pass returns with t.Status = st: live goroutines become strays that
\* keep running with that t.Status.
EndPass(c, st) ==
    /\ pc' = [pc EXCEPT ![c] = "idle"]
    /\ tStatus' = [tStatus EXCEPT ![c] = st]
    /\ br' = [br EXCEPT ![c] = NoBr]
    /\ rs' = [rs EXCEPT ![c] = NoRs]
    /\ gor' = {IF g.c = c /\ g.live THEN [g EXCEPT !.live = FALSE, !.tst = st]
                                    ELSE g : g \in gor}

\* A pass starting from in-memory status st and branch rows bs.
BeginPass(c, st, bs, isFresh) ==
    /\ pc' = [pc EXCEPT ![c] = "start"]
    /\ tStatus' = [tStatus EXCEPT ![c] = st]
    /\ fresh' = [fresh EXCEPT ![c] = isFresh]
    /\ br' = [br EXCEPT ![c] = LoadBr(bs)]

-----------------------------------------------------------------------------
(* The engine entry points.                                                *)

\* svcSubmit of a new gid: saveNew (status submitted, GenBranches, lease
\* next_cron_time in the future), then Process on c.
Submit(c) ==
    /\ MaySaveNewTrans /\ pc[c] = "idle" /\ submits < MaxSubmits
    /\ gStatus' = "submitted"
    /\ bStatus' = [i \in Branches |-> "prepared"]
    /\ expired' = FALSE
    /\ submits' = submits + 1
    /\ BeginPass(c, "submitted", bStatus', FALSE)
    /\ UNCHANGED <<timedOut, partVars, rs, gor, queue, crashes, deadlines>>

\* svcSubmit of a gid that exists: ErrUniqueConflict.  A submitted global
\* is processed again with the freshly generated branches (all prepared,
\* ID 0); any other status is rejected with FAILURE.
ReSubmit(c) ==
    /\ ~MaySaveNewTrans /\ gStatus # "prepared" /\ pc[c] = "idle"
    /\ submits < MaxSubmits
    /\ submits' = submits + 1
    /\ IF gStatus = "submitted"
       THEN BeginPass(c, "submitted", [i \in Branches |-> "prepared"], TRUE)
       ELSE UNCHANGED <<pc, tStatus, fresh, br>>
    /\ UNCHANGED <<storeVars, partVars, rs, gor, queue, crashes, deadlines>>

\* Variant: the poller does not take aborting globals.
CronStatusesNoAborting == {"prepared", "submitted"}

\* LockOneGlobalTrans: WHERE ... status in ('prepared', 'aborting', 'submitted').
CronStatuses == {"prepared", "aborting", "submitted"}

\* CronTransOnce: LockOneGlobalTrans takes an expired, unfinished global,
\* pushes next_cron_time forward and re-reads the row by owner.
CronLock(c) ==
    /\ pc[c] = "idle" /\ expired
    /\ gStatus \in CronStatuses
    /\ expired' = FALSE
    /\ pc' = [pc EXCEPT ![c] = "locked"]
    /\ tStatus' = [tStatus EXCEPT ![c] = gStatus]
    /\ fresh' = [fresh EXCEPT ![c] = FALSE]
    /\ UNCHANGED <<gStatus, bStatus, timedOut, partVars, br, rs, gor, queue,
                   crashes, submits, deadlines>>

\* CronTransOnce: FindBranches(gid), then trans.Process(branches).
CronFindBranches(c) ==
    /\ pc[c] = "locked"
    /\ BeginPass(c, tStatus[c], bStatus, FALSE)
    /\ UNCHANGED <<storeVars, partVars, rs, gor, queue, crashes, submits, deadlines>>

-----------------------------------------------------------------------------
(* transSagaProcessor.ProcessOnce, step by step.                           *)

\* changeStatus(st): ChangeGlobalStatus sets t.Status to st, then updates
\* the row WHERE status = the old t.Status.  It panics when no row matched:
\* the pass ends with t.Status = st and the row unchanged.
ChangeStatus(c, st) ==
    /\ gStatus' = st
    /\ tStatus' = [tStatus EXCEPT ![c] = st]

ChangeStatusPanics(c, st) ==
    /\ ~CanChangeStatus(c)
    /\ EndPass(c, st)
    /\ UNCHANGED gStatus

\* isTimeout(): the fail-timeout counts from t.CreateTime, which saveNew
\* resets to the time of the request in a resubmitted pass.
IsTimeout(c) == timedOut /\ ~fresh[c]

\* Variant: prepared actions are not counted as to start.
InitRsNoToStart(b) ==
    [NoRs EXCEPT !.aFailed = Cnt({i \in Actions : b[i].st = "failed"})]

\* Counter initialisation from the loaded branches.
InitRs(b) ==
    [NoRs EXCEPT !.aToStart = Cnt({i \in Actions : b[i].st = "prepared"}),
                 !.aFailed = Cnt({i \in Actions : b[i].st = "failed"})]

\* Entry: a submitted saga past its fail-timeout goes to aborting; then the
\* counters are initialised.
Start(c) ==
    /\ pc[c] = "start"
    /\ LET abort == tStatus[c] = "submitted" /\ IsTimeout(c)
       IN  \/ abort /\ ChangeStatusPanics(c, "aborting")
           \/ /\ abort => CanChangeStatus(c)
              /\ IF abort THEN ChangeStatus(c, "aborting")
                          ELSE UNCHANGED <<gStatus, tStatus>>
              /\ pc' = [pc EXCEPT ![c] = "fwd"]
              /\ rs' = [rs EXCEPT ![c] = InitRs(br[c])]
              /\ UNCHANGED <<br, gor>>
    /\ UNCHANGED <<bStatus, expired, timedOut, partVars, fresh, queue,
                   crashes, submits, deadlines>>

\* The pass's timeLimit has passed (checked at the head of both loops).
DeadlinePasses ==
    /\ deadlines < MaxDeadlines
    /\ deadlines' = deadlines + 1

\* The forward loop's condition (besides the pass deadline).
FwdCond(c) ==
    tStatus[c] = "submitted" /\ ~IsTimeout(c) /\ rs[c].aFailed = 0

\* One iteration of the forward loop: pick and start the runnable actions,
\* leave the loop when none is running.
FwdRun(c) ==
    /\ pc[c] = "fwd" /\ FwdCond(c)
    /\ LET toRun == PickToRunActions(c)
       IN  /\ RunBranches(c, toRun)
           /\ pc' = [pc EXCEPT ![c] =
                       IF rs[c].aDone = rs'[c].aStarted THEN "rollup" ELSE "fwait"]
    /\ UNCHANGED <<storeVars, barrier, busiDone, tStatus, fresh, queue,
                   crashes, submits, deadlines>>

\* The forward loop ends: its condition is false, or time.Now() is past
\* timeLimit (RequestTimeout + 2 s after the pass began).
FwdExit(c) ==
    /\ pc[c] = "fwd"
    /\ \/ ~FwdCond(c) /\ UNCHANGED deadlines
       \/ DeadlinePasses
    /\ pc' = [pc EXCEPT ![c] = "rollup"]
    /\ UNCHANGED <<storeVars, partVars, tStatus, fresh, br, rs, gor, queue,
                   crashes, submits>>

\* waitDoneOnce: take one result from resultChan and fold it in.
Receive(c, i) ==
    LET r == br[c][i].res
    IN  /\ br' = [br EXCEPT ![c][i].st = r, ![c][i].ph = "recv"]
        /\ rs' = [rs EXCEPT ![c] =
                    IF IsAction(i)
                    THEN [@ EXCEPT !.aDone = @ + 1,
                                   !.aFailed = @ + (IF r = "failed" THEN 1 ELSE 0),
                                   !.aSucceed = @ + (IF r = "succeed" THEN 1 ELSE 0)]
                    ELSE [@ EXCEPT !.cDone = @ + 1,
                                   !.cSucceed = @ + (IF r = "succeed" THEN 1 ELSE 0)]]

Ready(c) == {i \in Branches : br[c][i].ph = "ready"}

\* waitDoneOnce in loop `from`: a result, or the 3 s timer when none is ready.
Wait(c, from, to) ==
    /\ pc[c] = from
    /\ \/ \E i \in Ready(c) : Receive(c, i)
       \/ Ready(c) = {} /\ UNCHANGED <<br, rs>>
    /\ pc' = [pc EXCEPT ![c] = to]
    /\ UNCHANGED <<storeVars, partVars, tStatus, fresh, gor, queue,
                   crashes, submits, deadlines>>

\* After the forward loop: succeed when every action to start succeeded;
\* abort on a failed action or the fail-timeout; compensate when aborting.
\* Variant: succeed without checking that every action to start succeeded.
ToSucceedNoCount(c) ==
    tStatus[c] = "submitted" /\ rs[c].aFailed = 0 /\ rs[c].aDone = rs[c].aStarted

\* The saga succeeded: every prepared action of the pass succeeded.
ToSucceed(c) ==
    tStatus[c] = "submitted" /\ rs[c].aFailed = 0 /\ rs[c].aToStart = rs[c].aSucceed

Rollup(c) ==
    /\ pc[c] = "rollup"
    /\ LET st == tStatus[c]
           r  == rs[c]
           toSucceed == ToSucceed(c)
           toAbort   == st = "submitted" /\ (r.aFailed > 0 \/ IsTimeout(c))
           b2 == PrepareToCompensate(br[c])
           compensate ==
               /\ pc' = [pc EXCEPT ![c] = "bwd"]
               /\ br' = [br EXCEPT ![c] = b2]
               /\ rs' = [rs EXCEPT ![c].cToStart = CToStart(b2)]
               /\ UNCHANGED gor
       IN  CASE toSucceed /\ ~CanChangeStatus(c) ->
                    ChangeStatusPanics(c, "succeed")
             [] toAbort /\ ~CanChangeStatus(c) ->
                    ChangeStatusPanics(c, "aborting")
             [] toSucceed ->
                    gStatus' = "succeed" /\ EndPass(c, "succeed")
             [] toAbort ->
                    ChangeStatus(c, "aborting") /\ compensate
             [] st = "aborting" ->
                    compensate /\ UNCHANGED <<gStatus, tStatus>>
             [] OTHER ->
                    EndPass(c, st) /\ UNCHANGED gStatus
    /\ UNCHANGED <<bStatus, expired, timedOut, partVars, fresh, queue,
                   crashes, submits, deadlines>>

\* One iteration of the compensation loop.
BwdRun(c) ==
    /\ pc[c] = "bwd" /\ tStatus[c] = "aborting"
    /\ LET toRun == PickToRunCompensates(c)
       IN  /\ RunBranches(c, toRun)
           /\ pc' = [pc EXCEPT ![c] =
                       IF rs[c].cDone = rs[c].cToStart THEN "final" ELSE "bwait"]
    /\ UNCHANGED <<storeVars, barrier, busiDone, tStatus, fresh, queue,
                   crashes, submits, deadlines>>

\* Nothing to start, nothing running, no result: rsCDone stays below
\* rsCToStart and the loop goes round (3 s timer) until timeLimit, which
\* always comes, whatever bound MaxDeadlines puts on early deadlines.
BwdSpins(c) ==
    /\ PickToRunCompensates(c) = {} /\ Ready(c) = {}
    /\ ~\E g \in gor : g.live /\ g.c = c

\* The compensation loop ends past timeLimit (t.Status stays aborting
\* inside the loop, so its other condition never ends it).
BwdExit(c) ==
    /\ pc[c] = "bwd"
    /\ \/ DeadlinePasses
       \/ BwdSpins(c) /\ UNCHANGED deadlines
    /\ pc' = [pc EXCEPT ![c] = "final"]
    /\ UNCHANGED <<storeVars, partVars, tStatus, fresh, br, rs, gor, queue,
                   crashes, submits>>

\* All compensations to start succeeded: the saga has failed.
\* Every compensation to start succeeded.
ToFail(c) == tStatus[c] = "aborting" /\ rs[c].cToStart = rs[c].cSucceed

Final(c) ==
    /\ pc[c] = "final"
    /\ LET toFail == ToFail(c)
       IN  CASE toFail /\ CanChangeStatus(c) ->
                    gStatus' = "failed" /\ EndPass(c, "failed")
             [] toFail ->
                    ChangeStatusPanics(c, "failed")
             [] OTHER ->
                    EndPass(c, tStatus[c]) /\ UNCHANGED gStatus
    /\ UNCHANGED <<bStatus, expired, timedOut, partVars, fresh, queue,
                   crashes, submits, deadlines>>

-----------------------------------------------------------------------------
(* Branch goroutines: asyncExecBranch -> execBranch.                        *)

\* The endpoint serves the request now (the barrier-wrapped handler with a
\* business result busi); the response reaches the goroutine, or is lost.
Invoke(g, busi, lost) ==
    LET r == P!CallResult(barrier, StepOf(g.i), OpOf(g.i), busi)
    IN  /\ g.out = "pending"
        /\ P!ApplyCall(StepOf(g.i), OpOf(g.i), r)
        /\ gor' = (gor \ {g}) \cup {[g EXCEPT !.out = IF lost THEN "error" ELSE r.res]}
        /\ UNCHANGED <<storeVars, net, pc, tStatus, fresh, br, rs, queue,
                       crashes, submits, deadlines>>

\* The call fails before the endpoint serves it (connection error or
\* request timeout); the request may still be served later.
CallFails(g) ==
    /\ g.out = "pending"
    /\ gor' = (gor \ {g}) \cup {[g EXCEPT !.out = "error"]}
    /\ net' = net \cup {<<StepOf(g.i), OpOf(g.i)>>}
    /\ UNCHANGED <<storeVars, barrier, busiDone, pc, tStatus, fresh, br, rs, queue,
                   crashes, submits, deadlines>>

\* asyncExecBranch's deferred send of branches[i].Status (set by
\* changeBranchStatus, still prepared when there was no result) to
\* resultChan; only a live pass reads it.
SendResult(g, st) ==
    br' = IF g.live
          THEN [br EXCEPT ![g.c][g.i].ph = "ready",
                          ![g.c][g.i].res = IF st # "" THEN st ELSE "prepared"]
          ELSE br

\* execBranch after the call: record the branch status, touch the cron
\* time, and send the result to resultChan (read only by a live pass).
Complete(g) ==
    LET st  == BranchResult(g.i, g.out)
        tst == IF g.live THEN tStatus[g.c] ELSE g.tst
        \* LockGlobalSaveBranches panics: no row with status = t.Status,
        \* or the INSERT of a branch with ID 0 hits the unique key
        panics == SyncBranch /\ st # "" /\ ~SavesBranch(tst, g.fresh)
    IN  /\ g.out # "pending"
        /\ IF st # "" THEN ChangeBranchStatus(g.c, g.i, st, tst, g.fresh)
                      ELSE UNCHANGED <<bStatus, queue>>
        \* touchCronTime, skipped by a panic: reset on success (when due),
        \* keep or back off on an error; UPDATE ... WHERE status = t.Status.
        /\ \E touch \in IF g.out = "ok" THEN BOOLEAN ELSE {TRUE} :
              expired' = IF touch /\ ~panics /\ TouchesCronTime(tst) THEN FALSE
                                                           ELSE expired
        /\ SendResult(g, st)
        /\ gor' = gor \ {g}
        /\ UNCHANGED <<gStatus, timedOut, partVars, pc, tStatus, fresh, rs,
                       crashes, submits, deadlines>>

-----------------------------------------------------------------------------
(* The environment.                                                        *)

\* An abandoned request reaches the endpoint late, or never.
Deliver(s, op, busi) ==
    /\ <<s, op>> \in net
    /\ P!ApplyCall(s, op, P!CallResult(barrier, s, op, busi))
    /\ net' = net \ {<<s, op>>}
    /\ UNCHANGED <<storeVars, coordVars, crashes, submits, deadlines>>

Lose(s, op) ==
    /\ <<s, op>> \in net
    /\ net' = net \ {<<s, op>>}
    /\ UNCHANGED <<storeVars, barrier, busiDone, coordVars, crashes, submits, deadlines>>

\* updateBranchAsync: UpdateBranches writes queued statuses by branch id.
Flush(c) ==
    /\ queue[c] # <<>>
    /\ bStatus' = UpdateBranches(Head(queue[c]))
    /\ queue' = [queue EXCEPT ![c] = Tail(@)]
    /\ UNCHANGED <<gStatus, expired, timedOut, partVars, pc, tStatus, fresh,
                   br, rs, gor, crashes, submits, deadlines>>

\* The server of c crashes and restarts: its pass, goroutines and async
\* queue are lost; the store and the participants keep their state.
Crash(c) ==
    /\ crashes < MaxCrashes
    /\ pc[c] # "idle" \/ queue[c] # <<>> \/ \E g \in gor : g.c = c
    /\ crashes' = crashes + 1
    /\ pc' = [pc EXCEPT ![c] = "idle"]
    /\ tStatus' = [tStatus EXCEPT ![c] = "none"]
    /\ fresh' = [fresh EXCEPT ![c] = FALSE]
    /\ br' = [br EXCEPT ![c] = NoBr]
    /\ rs' = [rs EXCEPT ![c] = NoRs]
    /\ gor' = {g \in gor : g.c # c}
    /\ queue' = [queue EXCEPT ![c] = <<>>]
    /\ UNCHANGED <<storeVars, partVars, submits, deadlines>>

\* A pass or a branch call still running.
Busy == (\E c \in Coords : pc[c] # "idle") \/ gor # {}

\* Time passes beyond next_cron_time.  Without Preemption the lease
\* (RetryInterval, renewed by touchCronTime) outlasts every pass
\* (RequestTimeout + 2 s) and every branch call (RequestTimeout).
LeaseExpires ==
    /\ ~expired /\ gStatus # "none"
    /\ Preemption \/ ~Busy
    /\ expired' = TRUE
    /\ UNCHANGED <<gStatus, bStatus, timedOut, partVars, coordVars,
                   crashes, submits, deadlines>>

\* Time passes beyond create_time + TimeoutToFail.
FailTimeoutElapses ==
    /\ TimeoutToFail /\ ~timedOut /\ gStatus # "none"
    /\ timedOut' = TRUE
    /\ UNCHANGED <<gStatus, bStatus, expired, partVars, coordVars,
                   crashes, submits, deadlines>>

BusiOutcomes == {"ok", "failure"}

\* The global is finished and nothing is left running, in flight or queued:
\* the pollers find nothing to do.
Quiescent ==
    /\ gStatus \in {"succeed", "failed"} /\ ~Busy /\ net = {}
    /\ \A c \in Coords : queue[c] = <<>>

Done == Quiescent /\ UNCHANGED vars

Next ==
    \/ \E c \in Coords :
          \/ Submit(c) \/ ReSubmit(c) \/ CronLock(c) \/ CronFindBranches(c)
          \/ Start(c) \/ FwdRun(c) \/ FwdExit(c) \/ Wait(c, "fwait", "fwd")
          \/ Rollup(c) \/ BwdRun(c) \/ BwdExit(c) \/ Wait(c, "bwait", "bwd")
          \/ Final(c) \/ Flush(c) \/ Crash(c)
    \/ \E g \in gor :
          \/ \E busi \in BusiOutcomes, lost \in BOOLEAN : Invoke(g, busi, lost)
          \/ CallFails(g)
          \/ Complete(g)
    \/ \E s \in Steps, op \in {"action", "compensate"} :
          \/ \E busi \in BusiOutcomes : Deliver(s, op, busi)
          \/ Lose(s, op)
    \/ LeaseExpires
    \/ FailTimeoutElapses
    \/ Done

Spec == Init /\ [][Next]_vars

\* A thread keeps taking the steps of a pass it has begun (WF); a cron
\* poller that keeps finding an expired lease takes it (SF: another thread
\* may take it first); the flusher keeps flushing; a goroutine keeps
\* going; an endpoint that is called again and again eventually answers
\* ok (SF), which a saga requires of its compensations; the lease expires.
\* Submissions, deadlines, crashes and the late requests get no fairness.
Fairness ==
    /\ \A c \in Coords :
          /\ SF_vars(CronLock(c)) /\ WF_vars(CronFindBranches(c))
          /\ WF_vars(Start(c)) /\ WF_vars(FwdRun(c)) /\ WF_vars(FwdExit(c))
          /\ WF_vars(Wait(c, "fwait", "fwd")) /\ WF_vars(Rollup(c))
          /\ WF_vars(BwdRun(c)) /\ SF_vars(BwdExit(c))
          /\ WF_vars(Wait(c, "bwait", "bwd"))
          /\ WF_vars(Final(c)) /\ WF_vars(Flush(c))
    /\ WF_vars(\E g \in gor : Complete(g))
    /\ WF_vars(\E g \in gor : CallFails(g) \/ \E busi \in BusiOutcomes, lost \in BOOLEAN :
                                                Invoke(g, busi, lost))
    /\ SF_vars(\E g \in gor : Invoke(g, "ok", FALSE))
    /\ WF_vars(LeaseExpires)

FairSpec == Spec /\ Fairness

-----------------------------------------------------------------------------
(* Properties.                                                             *)

Applied(s) == busiDone[<<s, "action">>] > 0
Compensated(s) == busiDone[<<s, "compensate">>] > 0

\* The steps a step's action depends on: the previous step of a sequential
\* saga, the Orders of a concurrent one.
Before(s) == Orders[s] \cup (IF ~Concurrent /\ s > 0 THEN {s - 1} ELSE {})

(***************************************************************************)
(* The global status only moves along submitted -> aborting -> failed or  *)
(* submitted -> succeed (svcSubmit, and the changeStatus calls of         *)
(* ProcessOnce guarded by ChangeGlobalStatus's WHERE status = old).        *)
(***************************************************************************)
GlobalStatusTransitions ==
    [][gStatus' # gStatus =>
         <<gStatus, gStatus'>> \in {<<"none", "submitted">>,
                                    <<"submitted", "aborting">>,
                                    <<"submitted", "succeed">>,
                                    <<"aborting", "failed">>}]_gStatus

(***************************************************************************)
(* A saga the coordinator marks succeed has every action applied at the   *)
(* participant and no compensation applied (rsAToStart == rsASucceed in   *)
(* ProcessOnce, with the statuses of earlier passes read from the store).  *)
(***************************************************************************)
SucceedAllApplied ==
    gStatus = "succeed" => \A s \in Steps : Applied(s) /\ ~Compensated(s)

(***************************************************************************)
(* A saga the coordinator marks failed has no action left applied without *)
(* its compensation (prepareToCompensate and shouldRollback decide which  *)
(* compensations run; rsCToStart == rsCSucceed decides failed).           *)
(***************************************************************************)
SagaFailedUndone ==
    gStatus = "failed" => \A s \in Steps : Applied(s) => Compensated(s)

(***************************************************************************)
(* Spec 8.4: an action commits at its participant only after the actions  *)
(* it depends on committed (shouldRun over the in-memory branch results). *)
(***************************************************************************)
ActionsInOrder ==
    \A s \in Steps, p \in Steps :
        p \in Before(s) /\ Applied(s) => Applied(p)

(***************************************************************************)
(* A branch row that says an action succeeded is true at the participant: *)
(* its business work committed.  The row is written by a goroutine after  *)
(* the call returned, synchronously or later by the flusher of its        *)
(* server, and several passes may report the same branch.                *)
(***************************************************************************)
ActionRowTruthful ==
    \A i \in Actions : bStatus[i] = "succeed" => Applied(StepOf(i))

(***************************************************************************)
(* Spec 8.1: a branch row that is succeed stays succeed, whatever the      *)
(* goroutines of several passes and the async flusher write later.        *)
(***************************************************************************)
BranchSucceedTerminal ==
    [][\A i \in Branches : bStatus[i] = "succeed" => bStatus'[i] = "succeed"]_bStatus

\* A submitted saga eventually ends succeed or failed, through crashes,
\* lost calls and passes cut at timeLimit: the cron poller takes up every
\* unfinished global whose lease expired, aborting ones included, and
\* retries the failing compensations until they succeed.
SagaTerminates ==
    gStatus = "submitted" ~> gStatus \in {"succeed", "failed"}

(***************************************************************************)
(* The saga refines SagaAbstract: with the status taken from the store    *)
(* and the applied and undone steps from the participants' committed      *)
(* business work, every step of the coordinators, goroutines, flusher and *)
(* network is a step of the abstract saga or leaves it unchanged, and     *)
(* under Fairness the abstract saga's progress follows.                   *)
(***************************************************************************)
AbsSaga == INSTANCE SagaAbstract WITH
    Deps    <- [s \in Steps |-> Before(s)],
    status  <- gStatus,
    applied <- {s \in Steps : Applied(s)},
    undone  <- {s \in Steps : Compensated(s)}

SagaRefines == AbsSaga!AbsSpec
=============================================================================
