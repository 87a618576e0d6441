-------------------------------- MODULE Msg ---------------------------------
(***************************************************************************)
(* A reliable message (trans_type "msg"): the producer's Msg.DoAndSubmit   *)
(* (dtmcli/msg.go), the engine entry points svcPrepare, svcSubmit and the *)
(* msg branch of svcAbort (dtmsvr/api.go), the cron poller, and the msg   *)
(* driver.  The driver (trans_type_msg.go) is not part of this repository *)
(* and is taken from spec.md 4.4.3 and 7: when the fail-timeout of a      *)
(* prepared msg has passed the pass calls the producer's QueryPrepared    *)
(* endpoint and moves the global to submitted or failed; a submitted msg  *)
(* runs its action branches one after another and then becomes succeed.  *)
(*                                                                         *)
(* One gid with steps 1..NS.  The producer's local transaction and its    *)
(* QueryPrepared endpoint use the msg barrier (branch "00", op "msg") of  *)
(* module Barrier; each consumer wraps its action in the barrier too.     *)
(* Branch rows are written synchronously (LockGlobalSaveBranches).       *)
(* next_cron_interval is counted in units of conf.RetryInterval (the     *)
(* transaction sets no RetryInterval of its own).                        *)
(***************************************************************************)
EXTENDS Naturals

CONSTANTS
    NS,             \* steps added with Msg.Add
    Coords,         \* coordinator threads: API goroutines and cron pollers
    TimeoutToFail,  \* conf.TimeoutToFail > 0 (a msg has no option of its own)
    MaxCrashes,     \* bound on coordinator crashes
    MaxIval         \* bound on next_cron_interval (in RetryInterval units)

ASSUME NS \in Nat \ {0} /\ TimeoutToFail \in BOOLEAN /\ MaxCrashes \in Nat
       /\ MaxIval \in Nat /\ MaxIval >= 2

Steps == 1..NS
Producer == 0                         \* the msg barrier's branch id "00"
QueryReq == <<Producer, "query">>     \* a QueryPrepared request in flight
BusiResults == {"ok", "failure", "error"}

VARIABLES
    \* the store
    gStatus,    \* trans_global.status ("none" before prepare)
    bst,        \* step -> status of its action row ("none": no row)
    expired,    \* next_cron_time has passed
    timedOut,   \* create_time + conf.TimeoutToFail has passed
    ival,       \* next_cron_interval
    \* producer and consumers
    barrier, busiDone,
    net,        \* requests whose caller gave up, still in flight
    \* the producer's DoAndSubmit
    cpc,        \* where it is
    errb,       \* what busiCall returned
    \* the coordinators
    pc, tStatus,
    lb,         \* the rows of the pass and their statuses when read
    idx,        \* the step the forward loop is at
    leased,     \* the pass was started by the cron poller
    tIval,      \* the pass's t.NextCronInterval
    crashes

storeVars == <<gStatus, bst, expired, timedOut, ival>>
partVars == <<barrier, busiDone, net>>
clientVars == <<cpc, errb>>
coordVars == <<pc, tStatus, lb, idx, leased, tIval>>
vars == <<storeVars, partVars, clientVars, coordVars, crashes>>

B == INSTANCE Barrier WITH BranchIDs <- Steps, MsgBranch <- Producer

NoRows == [i \in Steps |-> "none"]

\* transMsgProcessor.GenBranches: one action row per step.
GenBranches == [i \in Steps |-> "prepared"]

TypeOK ==
    /\ gStatus \in {"none", "prepared", "submitted", "succeed", "failed"}
    /\ bst \in [Steps -> {"none", "prepared", "succeed"}]
    /\ expired \in BOOLEAN /\ timedOut \in BOOLEAN /\ ival \in 1..MaxIval
    /\ net \subseteq (Steps \X {"action"}) \cup {QueryReq}
    /\ cpc \in {"init", "busi", "query", "abort", "submit", "end"}
    /\ errb \in {"none", "ok", "failure", "error", "duplicated"}
    /\ pc \in [Coords -> {"idle", "locked", "start", "run"}]
    /\ idx \in [Coords -> 0..NS + 1] /\ leased \in [Coords -> BOOLEAN]
    /\ tIval \in [Coords -> 1..MaxIval] /\ crashes \in 0..MaxCrashes

Init ==
    /\ gStatus = "none" /\ bst = NoRows /\ expired = FALSE /\ timedOut = FALSE
    /\ ival = 1
    /\ barrier = [k \in B!Keys |-> B!NoRow]
    /\ busiDone = [k \in B!Keys |-> 0]
    /\ net = {}
    /\ cpc = "init" /\ errb = "none"
    /\ pc = [c \in Coords |-> "idle"] /\ tStatus = [c \in Coords |-> "none"]
    /\ lb = [c \in Coords |-> NoRows] /\ idx = [c \in Coords |-> 0]
    /\ leased = [c \in Coords |-> FALSE] /\ tIval = [c \in Coords |-> 1]
    /\ crashes = 0

-----------------------------------------------------------------------------
(* The store and the engine helpers.                                       *)

\* ChangeGlobalStatus: UPDATE ... WHERE status = t.Status; 0 rows -> panic.
CanChangeStatus(c) == gStatus = tStatus[c]

\* Variant: isTimeout() ignored (no fail-timeout for a prepared global).
NeedProcessNoTimeout(c) == tStatus[c] \in {"submitted", "aborting"}

\* needProcess(): the pass has work only for these statuses.
NeedProcess(c) ==
    \/ tStatus[c] \in {"submitted", "aborting"}
    \/ tStatus[c] = "prepared" /\ timedOut

\* Variant: the reset condition of execBranch grouped as its comment reads.
CronTypeGrouped(c, ok, elapsed) ==
    CASE ok /\ (elapsed \/ tIval[c] > 1) -> "reset"
      [] ok                              -> "none"
      [] OTHER                           -> "backoff"

\* execBranch's choice of touchCronTime: `err == nil && elapsed || interval
\* above the default` (&& binds first) resets, a success within 1.5s of
\* lastTouched touches nothing, an error backs off.
CronType(c, ok, elapsed) ==
    CASE (ok /\ elapsed) \/ tIval[c] > 1 -> "reset"
      [] ok                                -> "none"
      [] OTHER                             -> "backoff"

\* getNextCronInterval: double for a backoff, else the default interval.
NextCronInterval(c, ct) == IF ct = "backoff" THEN tIval[c] * 2 ELSE 1

\* touchCronTime: t.NextCronInterval is set, and the row's next_cron_time
\* and next_cron_interval are updated WHERE status = t.Status.
TouchCronTime(c, ct) ==
    LET iv == NextCronInterval(c, ct)
    IN  /\ iv <= MaxIval
        /\ IF ct # "none" /\ gStatus = tStatus[c]
           THEN ival' = iv /\ expired' = FALSE
           ELSE UNCHANGED <<ival, expired>>
        /\ tIval' = [tIval EXCEPT ![c] = IF ct = "none" THEN @ ELSE iv]

\* A pass starts in thread c from status st with rows and interval iv.
BeginPass(c, st, cron, rows, iv) ==
    /\ pc' = [pc EXCEPT ![c] = "start"]
    /\ tStatus' = [tStatus EXCEPT ![c] = st]
    /\ lb' = [lb EXCEPT ![c] = rows]
    /\ leased' = [leased EXCEPT ![c] = cron]
    /\ tIval' = [tIval EXCEPT ![c] = iv]

\* ProcessOnce returns (or panics into handlePanic).
EndPass(c) ==
    /\ pc' = [pc EXCEPT ![c] = "idle"]
    /\ tStatus' = [tStatus EXCEPT ![c] = "none"]
    /\ lb' = [lb EXCEPT ![c] = NoRows]
    /\ idx' = [idx EXCEPT ![c] = 0]
    /\ leased' = [leased EXCEPT ![c] = FALSE]

-----------------------------------------------------------------------------
(* The producer: Msg.DoAndSubmit.  A call to the server may be lost before *)
(* it arrives, or its reply after it was applied.                          *)

\* BarrierFrom succeeds (all four fields are set); Prepare: svcPrepare of
\* a new gid saves it prepared with its rows (saveNew); a lost call or
\* reply is an error and DoAndSubmit returns it.
CPrepare ==
    /\ cpc = "init"
    /\ \E delivered, answered \in BOOLEAN :
          /\ answered => delivered
          /\ IF delivered
             THEN /\ gStatus' = "prepared" /\ bst' = GenBranches
                  /\ ival' = 1 /\ expired' = FALSE
             ELSE UNCHANGED <<gStatus, bst, ival, expired>>
          /\ cpc' = IF answered THEN "busi" ELSE "end"
    /\ UNCHANGED <<timedOut, partVars, errb, coordVars, crashes>>

\* busiCall(bb) = bb.CallWithDB: the local transaction in the msg barrier.
\* A commit that the database applied may still report an error.
\* FAILURE leads to abort, success to submit, anything else to the query.
CBusi ==
    /\ cpc = "busi"
    /\ \E busi \in BusiResults, commitErr \in BOOLEAN :
          LET r == B!CallResult(barrier, Producer, "msg", busi)
              e == IF r.ran /\ commitErr THEN "error" ELSE r.res
          IN  /\ B!ApplyCall(Producer, "msg", r)
              /\ errb' = e
              /\ cpc' = CASE e = "failure" -> "abort"
                          [] e = "ok"      -> "submit"
                          [] OTHER         -> "query"
    /\ UNCHANGED <<storeVars, net, coordVars, crashes>>

\* TransRequestBranch GET queryPrepared: the producer's endpoint answers
\* with QueryPrepared, or the call fails and the request may arrive later.
\* ErrFailure leads to abort, nil to submit, an error ends DoAndSubmit.
CQuery ==
    /\ cpc = "query"
    /\ \/ LET q == B!QueryPreparedResult(barrier)
          IN  /\ barrier' = q.tbl
              /\ cpc' = IF q.res = "failure" THEN "abort" ELSE "submit"
              /\ UNCHANGED net
       \/ /\ net' = net \cup {QueryReq}
          /\ cpc' = "end"
          /\ UNCHANGED barrier
    /\ UNCHANGED <<storeVars, busiDone, errb, coordVars, crashes>>

\* svcAbort of a msg that is prepared changes it to failed; for any other
\* status it is an error, which DoAndSubmit ignores.
CAbort ==
    /\ cpc = "abort"
    /\ cpc' = "end"
    /\ \E delivered \in BOOLEAN :
          gStatus' = IF delivered /\ gStatus = "prepared" THEN "failed" ELSE gStatus
    /\ UNCHANGED <<bst, expired, timedOut, ival, partVars, errb, coordVars, crashes>>

\* svcSubmit of the existing gid.  A prepared global is changed to
\* submitted and its rows read; a submitted one is processed with the rows
\* of saveNew (GenBranches, all prepared).  The pass runs in a goroutine
\* with the request's t (interval reset by saveNew).  Other statuses are a
\* FAILURE; the request may also be lost.
CSubmit ==
    /\ cpc = "submit"
    /\ cpc' = "end"
    /\ \/ \E c \in Coords :
            /\ pc[c] = "idle" /\ gStatus \in {"prepared", "submitted"}
            /\ gStatus' = "submitted"
            /\ BeginPass(c, "submitted", FALSE,
                         IF gStatus = "prepared" THEN bst ELSE GenBranches, 1)
       \/ UNCHANGED <<gStatus, coordVars>>
    /\ UNCHANGED <<bst, expired, timedOut, ival, partVars, errb, idx, crashes>>

\* The producer process dies between two of its calls.
ClientCrash ==
    /\ cpc \in {"busi", "query", "abort", "submit"}
    /\ cpc' = "end"
    /\ UNCHANGED <<storeVars, partVars, errb, coordVars, crashes>>

-----------------------------------------------------------------------------
(* The coordinators: CronTransOnce and the msg driver's ProcessOnce.       *)

\* LockOneGlobalTrans: take the expired global and push its lease; the
\* pass loads the row, next_cron_interval included.
CronLock(c) ==
    /\ pc[c] = "idle" /\ expired
    /\ gStatus \in {"prepared", "aborting", "submitted"}
    /\ expired' = FALSE
    /\ pc' = [pc EXCEPT ![c] = "locked"]
    /\ tStatus' = [tStatus EXCEPT ![c] = gStatus]
    /\ leased' = [leased EXCEPT ![c] = TRUE]
    /\ tIval' = [tIval EXCEPT ![c] = ival]
    /\ UNCHANGED <<gStatus, bst, timedOut, ival, partVars, clientVars, lb, idx,
                   crashes>>

\* CronTransOnce: FindBranches(gid), then Process.
CronFind(c) ==
    /\ pc[c] = "locked"
    /\ BeginPass(c, tStatus[c], TRUE, bst, tIval[c])
    /\ UNCHANGED <<storeVars, partVars, clientVars, idx, crashes>>

\* ProcessOnce entry (spec 4.4.3, 7): nothing is done unless needProcess().
StartIdle(c) ==
    /\ pc[c] = "start" /\ ~NeedProcess(c)
    /\ EndPass(c)
    /\ UNCHANGED <<storeVars, partVars, clientVars, tIval, crashes>>

\* A submitted msg starts its forward loop.
StartRun(c) ==
    /\ pc[c] = "start" /\ NeedProcess(c) /\ tStatus[c] = "submitted"
    /\ pc' = [pc EXCEPT ![c] = "run"]
    /\ idx' = [idx EXCEPT ![c] = 1]
    /\ UNCHANGED <<storeVars, partVars, clientVars, tStatus, lb, leased, tIval,
                   crashes>>

\* A prepared msg past its timeout calls QueryPrepared: success ->
\* submitted (conditional) and the loop starts, FAILURE -> failed
\* (conditional, the pass ends).
StartQuery(c) ==
    /\ pc[c] = "start" /\ NeedProcess(c) /\ tStatus[c] = "prepared"
    /\ LET q  == B!QueryPreparedResult(barrier)
           go == q.res = "ok" /\ CanChangeStatus(c)
       IN  /\ barrier' = q.tbl
           /\ gStatus' = CASE ~CanChangeStatus(c) -> gStatus
                           [] q.res = "ok"        -> "submitted"
                           [] OTHER               -> "failed"
           /\ IF go
              THEN /\ pc' = [pc EXCEPT ![c] = "run"]
                   /\ tStatus' = [tStatus EXCEPT ![c] = "submitted"]
                   /\ idx' = [idx EXCEPT ![c] = 1]
                   /\ UNCHANGED <<lb, leased>>
              ELSE EndPass(c)
    /\ UNCHANGED <<bst, expired, timedOut, ival, busiDone, net, clientVars, tIval,
                   crashes>>

\* The QueryPrepared call fails: the global is left as it is and the
\* request may still reach the producer.
StartQueryFails(c) ==
    /\ pc[c] = "start" /\ NeedProcess(c) /\ tStatus[c] = "prepared"
    /\ net' = net \cup {QueryReq}
    /\ EndPass(c)
    /\ UNCHANGED <<storeVars, barrier, busiDone, clientVars, tIval, crashes>>

Start(c) == StartIdle(c) \/ StartRun(c) \/ StartQuery(c) \/ StartQueryFails(c)

\* Variant: the loop stops one step early.
HasNextOffByOne(c) == idx[c] < NS

\* for each action row: the loop has not passed the last step
HasNext(c) == idx[c] <= NS

\* The row was prepared when read.
ToExec(c) == lb[c][idx[c]] = "prepared"

\* A row that is not executed.
Skip(c) ==
    /\ pc[c] = "run" /\ HasNext(c) /\ ~ToExec(c)
    /\ idx' = [idx EXCEPT ![c] = @ + 1]
    /\ UNCHANGED <<storeVars, partVars, clientVars, pc, tStatus, lb, leased, tIval,
                   crashes>>

\* execBranch of the step's action: the consumer serves the call; a
\* success is written with LockGlobalSaveBranches(gid, t.Status) (panic
\* when the global moved on), then touchCronTime as CronType says; an
\* error ends the pass for a cron retry.  elapsed: 1.5s since lastTouched.
Exec(c, busi, answered, elapsed) ==
    LET i  == idx[c]
        r  == B!CallResult(barrier, i, "action", busi)
        ok == answered /\ r.res = "ok"
        writes == ok /\ gStatus = tStatus[c]
    IN  /\ pc[c] = "run" /\ HasNext(c) /\ ToExec(c)
        /\ B!ApplyCall(i, "action", r)
        /\ bst' = IF writes THEN [bst EXCEPT ![i] = "succeed"] ELSE bst
        /\ IF ok /\ ~writes
           THEN EndPass(c) /\ UNCHANGED <<expired, ival, tIval>>
           ELSE /\ TouchCronTime(c, CronType(c, ok, elapsed))
                /\ IF ok THEN /\ idx' = [idx EXCEPT ![c] = @ + 1]
                              /\ UNCHANGED <<pc, tStatus, lb, leased>>
                         ELSE EndPass(c)
        /\ UNCHANGED <<gStatus, timedOut, net, clientVars, crashes>>

\* The call times out before the consumer serves it; it may arrive later.
ExecTimesOut(c) ==
    /\ pc[c] = "run" /\ HasNext(c) /\ ToExec(c)
    /\ net' = net \cup {<<idx[c], "action">>}
    /\ TouchCronTime(c, CronType(c, FALSE, FALSE))
    /\ EndPass(c)
    /\ UNCHANGED <<gStatus, bst, timedOut, barrier, busiDone, clientVars, crashes>>

\* After the loop: succeed (conditional).
Final(c) ==
    /\ pc[c] = "run" /\ ~HasNext(c)
    /\ gStatus' = IF CanChangeStatus(c) THEN "succeed" ELSE gStatus
    /\ EndPass(c)
    /\ UNCHANGED <<bst, expired, timedOut, ival, partVars, clientVars, tIval,
                   crashes>>

-----------------------------------------------------------------------------
(* The environment.                                                        *)

\* A request in flight reaches the producer (QueryPrepared) or a consumer.
Deliver(k, busi) ==
    /\ k \in net
    /\ IF k = QueryReq
       THEN /\ barrier' = B!QueryPreparedResult(barrier).tbl
            /\ UNCHANGED busiDone
       ELSE B!ApplyCall(k[1], "action", B!CallResult(barrier, k[1], "action", busi))
    /\ net' = net \ {k}
    /\ UNCHANGED <<storeVars, clientVars, coordVars, crashes>>

Lose(k) ==
    /\ k \in net
    /\ net' = net \ {k}
    /\ UNCHANGED <<storeVars, barrier, busiDone, clientVars, coordVars, crashes>>

\* A coordinator's server crashes and restarts: its pass is gone.
Crash(c) ==
    /\ crashes < MaxCrashes /\ pc[c] # "idle"
    /\ crashes' = crashes + 1
    /\ EndPass(c)
    /\ UNCHANGED <<storeVars, partVars, clientVars, tIval>>

\* next_cron_time passes.  A cron pass ends within its lease; an
\* API-started pass holds none.
LeaseExpires ==
    /\ ~expired /\ gStatus \in {"prepared", "submitted"}
    /\ \A c \in Coords : ~leased[c]
    /\ expired' = TRUE
    /\ UNCHANGED <<gStatus, bst, timedOut, ival, partVars, clientVars, coordVars,
                   crashes>>

\* create_time + conf.TimeoutToFail passes.
FailTimeoutElapses ==
    /\ TimeoutToFail /\ ~timedOut /\ gStatus # "none"
    /\ timedOut' = TRUE
    /\ UNCHANGED <<gStatus, bst, expired, ival, partVars, clientVars, coordVars,
                   crashes>>

\* Finished, nothing running or in flight: the pollers find nothing.
Done ==
    /\ gStatus \in {"none", "succeed", "failed"}
    /\ cpc = "end" /\ net = {} /\ \A c \in Coords : pc[c] = "idle"
    /\ UNCHANGED vars

Next ==
    \/ CPrepare \/ CBusi \/ CQuery \/ CAbort \/ CSubmit \/ ClientCrash
    \/ \E c \in Coords :
          \/ CronLock(c) \/ CronFind(c) \/ Start(c) \/ Skip(c) \/ Final(c)
          \/ \E busi \in BusiResults, answered, elapsed \in BOOLEAN :
                Exec(c, busi, answered, elapsed)
          \/ ExecTimesOut(c) \/ Crash(c)
    \/ \E k \in net :
          \/ \E busi \in BusiResults : Deliver(k, busi)
          \/ Lose(k)
    \/ LeaseExpires \/ FailTimeoutElapses \/ Done

Spec == Init /\ [][Next]_vars

\* One call that succeeds: the consumer eventually answers ok.
ExecOk(c) == \E elapsed \in BOOLEAN : Exec(c, "ok", TRUE, elapsed)

\* A thread that has begun a pass keeps taking its steps (WF); a cron
\* poller that keeps finding an expired lease takes it (SF: another thread
\* may take it first); a call retried forever is eventually answered and
\* an action retried forever eventually succeeds (SF), which a msg
\* requires of its producer and consumers; time passes.  The producer,
\* the network and crashes get no fairness.
Fairness ==
    /\ \A c \in Coords :
          /\ SF_vars(CronLock(c)) /\ WF_vars(CronFind(c)) /\ WF_vars(Start(c))
          /\ SF_vars(StartQuery(c))
          /\ WF_vars(Skip(c)) /\ WF_vars(Final(c)) /\ SF_vars(ExecOk(c))
          /\ WF_vars(ExecTimesOut(c)
                     \/ \E busi \in BusiResults, answered, elapsed \in BOOLEAN :
                           Exec(c, busi, answered, elapsed))
    /\ WF_vars(LeaseExpires) /\ WF_vars(FailTimeoutElapses)

FairSpec == Spec /\ Fairness

-----------------------------------------------------------------------------
(* Properties.                                                             *)

\* The producer's local transaction committed (busiCall ran in the barrier).
Committed == busiDone[<<Producer, "msg">>] > 0
Delivered(i) == busiDone[<<i, "action">>] > 0

\* A consumer runs a step's action only for a message whose local
\* transaction committed: neither DoAndSubmit's back-query after an
\* ambiguous busiCall nor the cron poller's QueryPrepared of a timed-out
\* prepared msg submits a message whose transaction rolled back.
DeliveredOnlyIfCommitted ==
    (\E i \in Steps : Delivered(i)) => Committed

\* A msg marked failed never has its local transaction committed, now or
\* later: the rollback row QueryPrepared inserts makes a busiCall that
\* starts after the poller gave up return DUPLICATED without committing.
FailedNeverCommitted ==
    gStatus = "failed" => ~Committed

\* next_cron_interval never exceeds twice conf.RetryInterval: execBranch
\* resets an interval above the default on the next error instead of
\* doubling it again.
RetryDelayBounded ==
    ival <= 2

\* The reliable-message promise: once the producer's local transaction
\* committed, every consumer eventually runs its action and the msg ends
\* succeed, whatever happens to DoAndSubmit after the commit.
CommittedDelivered ==
    Committed ~> (gStatus = "succeed" /\ \A i \in Steps : Delivered(i))
\* The refinement mapping to MsgAbstract: the producer's transaction is
\* its barrier row's commit, a step is delivered when its consumer ran,
\* and the global's terminal statuses are the message's outcome.
Abs == INSTANCE MsgAbstract WITH
           local <- IF Committed THEN "committed" ELSE "open",
           delivered <- {i \in Steps : Delivered(i)},
           outcome <- IF gStatus \in {"succeed", "failed"} THEN gStatus ELSE "open"

\* Msg implements the abstract reliable message: every step of DoAndSubmit,
\* the API and cron passes, QueryPrepared and the consumers is a step of
\* MsgAbstract or leaves its state alone, and its fairness holds.
MsgRefines == Abs!AbsSpec
====
