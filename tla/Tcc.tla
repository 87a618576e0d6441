-------------------------------- MODULE Tcc ---------------------------------
(***************************************************************************)
(* A TCC global transaction: the client TccGlobalTransaction2 and          *)
(* Tcc.CallBranch (dtmcli/tcc.go), the engine entry points svcPrepare,     *)
(* svcRegisterBranch, svcSubmit and svcAbort (dtmsvr/api.go), the cron     *)
(* poller, and transTccProcessor.ProcessOnce (dtmsvr/trans_type_tcc.go).  *)
(*                                                                         *)
(* One gid, participants 1..NP called by the client's tccFunc in that      *)
(* order.  Each participant wraps try, confirm and cancel in the branch    *)
(* barrier (module Barrier).  A TCC pass calls execBranch in its own       *)
(* goroutine, one branch after another, so a call and the handling of its *)
(* result form one step.  Branch rows are written synchronously           *)
(* (LockGlobalSaveBranches); the asynchronous path is modelled in Saga.   *)
(***************************************************************************)
EXTENDS Naturals, Sequences

CONSTANTS
    NP,             \* participants the client's tccFunc calls
    Coords,         \* coordinator threads: API goroutines and cron pollers
    TimeoutToFail,  \* a fail-timeout is set (TransOptions or conf)
    Preemption,     \* the lease may expire while a cron pass still runs
    MaxCrashes,     \* bound on coordinator crashes
    DupSubmit       \* the submit request may be delivered twice

ASSUME NP \in Nat \ {0} /\ TimeoutToFail \in BOOLEAN
       /\ Preemption \in BOOLEAN /\ MaxCrashes \in Nat /\ DupSubmit \in BOOLEAN

Parts == 1..NP
TccOps == {"cancel", "confirm"}
BusiOutcomes == {"ok", "failure"}

VARIABLES
    \* the store
    gStatus,    \* trans_global.status ("none" before prepare)
    bst,        \* participant -> op -> status of its row ("none": no row)
    reg,        \* participants in the order their rows were inserted
    expired,    \* next_cron_time has passed
    timedOut,   \* create_time + timeout has passed
    \* the participants
    barrier, busiDone,
    net,        \* requests whose caller gave up, still in flight
    \* the client
    cpc,        \* where TccGlobalTransaction2 is
    ck,         \* the participant it is calling
    dupSubmit,  \* a copy of the submit request is still in flight
    \* the coordinators
    pc, tStatus,
    lo,         \* the rows of the pass (FindBranches): registration order
    lb,         \* ... and their statuses when read
    idx,        \* ProcessOnce's loop index `current` (1-based, 0 = done)
    leased,     \* the pass was started by the cron poller
    crashes

storeVars == <<gStatus, bst, reg, expired, timedOut>>
partVars == <<barrier, busiDone, net>>
clientVars == <<cpc, ck, dupSubmit>>
coordVars == <<pc, tStatus, lo, lb, idx, leased>>
vars == <<storeVars, partVars, clientVars, coordVars, crashes>>

B == INSTANCE Barrier WITH BranchIDs <- Parts, MsgBranch <- 0

\* transTccProcessor.GenBranches: a TCC global has no rows of its own.
GenBranches == <<>>

NoRows == [p \in Parts |-> [op \in TccOps |-> "none"]]

TypeOK ==
    /\ gStatus \in {"none", "prepared", "submitted", "aborting", "succeed", "failed"}
    /\ bst \in [Parts -> [TccOps -> {"none", "prepared", "succeed"}]]
    /\ reg \in Seq(Parts) /\ expired \in BOOLEAN /\ timedOut \in BOOLEAN
    /\ net \subseteq Parts \X {"try", "confirm", "cancel"}
    /\ cpc \in {"init", "reg", "try", "submit", "abort", "end"} /\ ck \in Parts
    /\ pc \in [Coords -> {"idle", "locked", "start", "run"}]
    /\ idx \in [Coords -> 0..NP] /\ leased \in [Coords -> BOOLEAN]
    /\ crashes \in 0..MaxCrashes

Init ==
    /\ gStatus = "none" /\ bst = NoRows /\ reg = <<>>
    /\ expired = FALSE /\ timedOut = FALSE
    /\ barrier = [k \in B!Keys |-> B!NoRow]
    /\ busiDone = [k \in B!Keys |-> 0]
    /\ net = {}
    /\ cpc = "init" /\ ck = 1 /\ dupSubmit = FALSE
    /\ pc = [c \in Coords |-> "idle"] /\ tStatus = [c \in Coords |-> "none"]
    /\ lo = [c \in Coords |-> <<>>] /\ lb = [c \in Coords |-> NoRows]
    /\ idx = [c \in Coords |-> 0] /\ leased = [c \in Coords |-> FALSE]
    /\ crashes = 0

-----------------------------------------------------------------------------
(* The store and the engine helpers.                                       *)

\* Variant: an unconditional UPDATE.
CanChangeStatusAlways(c) == TRUE

\* ChangeGlobalStatus: UPDATE ... WHERE status = t.Status; 0 rows -> panic.
CanChangeStatus(c) == gStatus = tStatus[c]

\* LockGlobalSaveBranches(gid, "prepared", rows) of svcRegisterBranch.
RegisterOK == gStatus = "prepared"

\* Variant: isTimeout() ignored (no fail-timeout for a prepared global).
NeedProcessNoTimeout(c) == tStatus[c] \in {"submitted", "aborting"}

\* needProcess(): the pass has work only for these statuses.
NeedProcess(c) ==
    \/ tStatus[c] \in {"submitted", "aborting"}
    \/ tStatus[c] = "prepared" /\ timedOut

\* A pass starts in thread c from status st with the rows read now.
BeginPass(c, st, cron, rows) ==
    /\ pc' = [pc EXCEPT ![c] = "start"]
    /\ tStatus' = [tStatus EXCEPT ![c] = st]
    /\ lo' = [lo EXCEPT ![c] = rows]
    /\ lb' = [lb EXCEPT ![c] = bst]
    /\ leased' = [leased EXCEPT ![c] = cron]

\* ProcessOnce returns (or panics into handlePanic).
EndPass(c) ==
    /\ pc' = [pc EXCEPT ![c] = "idle"]
    /\ tStatus' = [tStatus EXCEPT ![c] = "none"]
    /\ lo' = [lo EXCEPT ![c] = <<>>]
    /\ lb' = [lb EXCEPT ![c] = NoRows]
    /\ idx' = [idx EXCEPT ![c] = 0]
    /\ leased' = [leased EXCEPT ![c] = FALSE]

-----------------------------------------------------------------------------
(* The client: TccGlobalTransaction2.  A call to the server may be lost    *)
(* before it arrives, or its reply after it was applied.                   *)

\* svcPrepare of a new gid saves the global as prepared with a lease.
CPrepare ==
    /\ cpc = "init"
    /\ \E delivered, answered \in BOOLEAN :
          /\ answered => delivered
          /\ IF delivered THEN gStatus' = "prepared" /\ expired' = FALSE
                          ELSE UNCHANGED <<gStatus, expired>>
          /\ cpc' = IF answered THEN "reg" ELSE "end"
    /\ UNCHANGED <<bst, reg, timedOut, partVars, ck, dupSubmit, coordVars, crashes>>

\* CallBranch: registerBranch saves the (cancel, confirm) rows, prepared,
\* only while the global is prepared (else FAILURE); an error aborts.
CRegister ==
    /\ cpc = "reg"
    /\ \E delivered, answered \in BOOLEAN :
          LET saved == delivered /\ RegisterOK
          IN  /\ answered => delivered
              /\ bst' = IF saved THEN [bst EXCEPT ![ck] = [op \in TccOps |-> "prepared"]]
                                 ELSE bst
              /\ reg' = IF saved THEN Append(reg, ck) ELSE reg
              /\ cpc' = IF answered /\ saved THEN "try" ELSE "abort"
    /\ UNCHANGED <<gStatus, expired, timedOut, partVars, ck, dupSubmit, coordVars,
                   crashes>>

\* CallBranch: the try.  The participant serves it now and the reply may be
\* lost, or the request times out and stays in flight.  Anything but a
\* success aborts; after the last participant the client submits.
CTry ==
    /\ cpc = "try"
    /\ \/ \E busi \in BusiOutcomes, answered \in BOOLEAN :
            LET r  == B!CallResult(barrier, ck, "try", busi)
                ok == answered /\ r.res = "ok"
            IN  /\ B!ApplyCall(ck, "try", r)
                /\ cpc' = CASE ~ok -> "abort" [] ck < NP -> "reg" [] OTHER -> "submit"
                /\ ck' = IF ok /\ ck < NP THEN ck + 1 ELSE ck
                /\ UNCHANGED net
       \/ /\ net' = net \cup {<<ck, "try">>}
          /\ cpc' = "abort"
          /\ UNCHANGED <<barrier, busiDone, ck>>
    /\ UNCHANGED <<storeVars, dupSubmit, coordVars, crashes>>

\* svcSubmit of a gid that exists (ErrUniqueConflict).  A prepared global
\* is changed to submitted (conditionally), its rows are read and Process
\* starts the pass in a goroutine (WaitResult unset).  A submitted one is
\* processed with the rows of saveNew: GenBranches() = <<>>.  Any other
\* status is a FAILURE; the request may also be lost.
SvcSubmit ==
    \/ \E c \in Coords :
          /\ pc[c] = "idle" /\ gStatus \in {"prepared", "submitted"}
          /\ gStatus' = "submitted"
          /\ BeginPass(c, "submitted", FALSE,
                       IF gStatus = "prepared" THEN reg ELSE GenBranches)
    \/ UNCHANGED <<gStatus, coordVars>>

\* The deferred submit.  Its reply does not matter: the client returns.
\* The request may reach the server twice (DupSubmit).
CSubmit ==
    /\ cpc = "submit"
    /\ cpc' = "end"
    /\ SvcSubmit
    /\ dupSubmit' \in IF DupSubmit THEN BOOLEAN ELSE {FALSE}
    /\ UNCHANGED <<bst, reg, expired, timedOut, partVars, ck, idx, crashes>>

\* The second copy of the submit request.
SubmitAgain ==
    /\ dupSubmit
    /\ dupSubmit' = FALSE
    /\ SvcSubmit
    /\ UNCHANGED <<bst, reg, expired, timedOut, partVars, cpc, ck, idx, crashes>>

\* The deferred abort: svcAbort of a tcc global that is prepared or
\* aborting changes it to aborting, then reads its rows and processes them.
CAbort ==
    /\ cpc = "abort"
    /\ cpc' = "end"
    /\ \/ \E c \in Coords :
            /\ pc[c] = "idle" /\ gStatus \in {"prepared", "aborting"}
            /\ gStatus' = "aborting"
            /\ BeginPass(c, "aborting", FALSE, reg)
       \/ UNCHANGED <<gStatus, coordVars>>
    /\ UNCHANGED <<bst, reg, expired, timedOut, partVars, ck, dupSubmit, idx,
                   crashes>>

\* The client process dies between two of its calls.
ClientCrash ==
    /\ cpc \in {"reg", "try", "submit", "abort"}
    /\ cpc' = "end"
    /\ UNCHANGED <<storeVars, partVars, ck, dupSubmit, coordVars, crashes>>

-----------------------------------------------------------------------------
(* The coordinators: CronTransOnce and transTccProcessor.ProcessOnce.      *)

\* LockOneGlobalTrans: take the expired global and push its lease.
CronLock(c) ==
    /\ pc[c] = "idle" /\ expired
    /\ gStatus \in {"prepared", "aborting", "submitted"}
    /\ expired' = FALSE
    /\ pc' = [pc EXCEPT ![c] = "locked"]
    /\ tStatus' = [tStatus EXCEPT ![c] = gStatus]
    /\ leased' = [leased EXCEPT ![c] = TRUE]
    /\ UNCHANGED <<gStatus, bst, reg, timedOut, partVars, clientVars, lo, lb,
                   idx, crashes>>

\* CronTransOnce: FindBranches(gid), then Process.
CronFind(c) ==
    /\ pc[c] = "locked"
    /\ BeginPass(c, tStatus[c], TRUE, reg)
    /\ UNCHANGED <<storeVars, partVars, clientVars, idx, crashes>>

\* ProcessOnce entry: nothing to do unless needProcess(); a prepared global
\* past its timeout is changed to aborting; the loop starts at the last row.
Start(c) ==
    /\ pc[c] = "start"
    /\ LET abort == tStatus[c] = "prepared" /\ timedOut
       IN  \/ ~NeedProcess(c) /\ EndPass(c) /\ UNCHANGED gStatus
           \/ abort /\ ~CanChangeStatus(c) /\ EndPass(c) /\ UNCHANGED gStatus
           \/ /\ NeedProcess(c) /\ (abort => CanChangeStatus(c))
              /\ gStatus' = IF abort THEN "aborting" ELSE gStatus
              /\ tStatus' = [tStatus EXCEPT ![c] = IF abort THEN "aborting" ELSE @]
              /\ pc' = [pc EXCEPT ![c] = "run"]
              /\ idx' = [idx EXCEPT ![c] = Len(lo[c])]
              /\ UNCHANGED <<lo, lb, leased>>
    /\ UNCHANGED <<bst, reg, expired, timedOut, partVars, clientVars, crashes>>

\* op: confirm when submitted, cancel otherwise.
Op(c) == IF tStatus[c] = "submitted" THEN "confirm" ELSE "cancel"

\* The participant of the row the loop is at.
Cur(c) == lo[c][idx[c]]

\* Variant: the loop stops one row early.
HasNextOffByOne(c) == idx[c] > 1

\* for current := len(branches) - 1; current >= 0; current--
HasNext(c) == idx[c] > 0

\* The row matches op and was prepared when read.
ToExec(c) == lb[c][Cur(c)][Op(c)] = "prepared"

\* A row that is not executed.
Skip(c) ==
    /\ pc[c] = "run" /\ HasNext(c) /\ ~ToExec(c)
    /\ idx' = [idx EXCEPT ![c] = @ - 1]
    /\ UNCHANGED <<storeVars, partVars, clientVars, pc, tStatus, lo, lb, leased,
                   crashes>>

\* execBranch of the row: the participant serves the call, a success is
\* written with LockGlobalSaveBranches(gid, t.Status) (panic when the
\* global moved on) and touches the lease when due; any error touches the
\* lease (backoff, WHERE status = t.Status) and ends the pass.
Exec(c, busi, answered) ==
    LET p  == Cur(c)
        op == Op(c)
        r  == B!CallResult(barrier, p, op, busi)
        ok == answered /\ r.res = "ok"
        writes == ok /\ gStatus = tStatus[c]
    IN  /\ pc[c] = "run" /\ HasNext(c) /\ ToExec(c)
        /\ B!ApplyCall(p, op, r)
        /\ bst' = IF writes THEN [bst EXCEPT ![p][op] = "succeed"] ELSE bst
        /\ \E touch \in IF ok THEN BOOLEAN ELSE {TRUE} :
              expired' = IF touch /\ (writes \/ ~ok) /\ gStatus = tStatus[c]
                         THEN FALSE ELSE expired
        /\ IF writes THEN /\ idx' = [idx EXCEPT ![c] = @ - 1]
                          /\ UNCHANGED <<pc, tStatus, lo, lb, leased>>
                     ELSE EndPass(c)
        /\ UNCHANGED <<gStatus, reg, timedOut, net, clientVars, crashes>>

\* The call times out before the participant serves it; it may arrive later.
ExecTimesOut(c) ==
    /\ pc[c] = "run" /\ HasNext(c) /\ ToExec(c)
    /\ net' = net \cup {<<Cur(c), Op(c)>>}
    /\ expired' = IF gStatus = tStatus[c] THEN FALSE ELSE expired
    /\ EndPass(c)
    /\ UNCHANGED <<gStatus, bst, reg, timedOut, barrier, busiDone, clientVars,
                   crashes>>

\* After the loop: succeed from submitted, failed otherwise (conditional).
Final(c) ==
    /\ pc[c] = "run" /\ ~HasNext(c)
    /\ gStatus' = IF CanChangeStatus(c)
                  THEN IF tStatus[c] = "submitted" THEN "succeed" ELSE "failed"
                  ELSE gStatus
    /\ EndPass(c)
    /\ UNCHANGED <<bst, reg, expired, timedOut, partVars, clientVars, crashes>>

-----------------------------------------------------------------------------
(* The environment.                                                        *)

Deliver(p, op, busi) ==
    /\ <<p, op>> \in net
    /\ B!ApplyCall(p, op, B!CallResult(barrier, p, op, busi))
    /\ net' = net \ {<<p, op>>}
    /\ UNCHANGED <<storeVars, clientVars, coordVars, crashes>>

Lose(p, op) ==
    /\ <<p, op>> \in net
    /\ net' = net \ {<<p, op>>}
    /\ UNCHANGED <<storeVars, barrier, busiDone, clientVars, coordVars, crashes>>

\* A coordinator's server crashes and restarts: its pass is gone.
Crash(c) ==
    /\ crashes < MaxCrashes /\ pc[c] # "idle"
    /\ crashes' = crashes + 1
    /\ EndPass(c)
    /\ UNCHANGED <<storeVars, partVars, clientVars>>

\* next_cron_time passes.  Without Preemption a cron pass ends within its
\* lease; an API-started pass holds no lease.
LeaseExpires ==
    /\ ~expired /\ gStatus \in {"prepared", "aborting", "submitted"}
    /\ Preemption \/ \A c \in Coords : ~leased[c]
    /\ expired' = TRUE
    /\ UNCHANGED <<gStatus, bst, reg, timedOut, partVars, clientVars, coordVars,
                   crashes>>

\* create_time + timeout passes.
FailTimeoutElapses ==
    /\ TimeoutToFail /\ ~timedOut /\ gStatus # "none"
    /\ timedOut' = TRUE
    /\ UNCHANGED <<gStatus, bst, reg, expired, partVars, clientVars, coordVars,
                   crashes>>

\* Finished, nothing running or in flight: the pollers find nothing.
Done ==
    /\ \/ gStatus \in {"succeed", "failed"}
       \/ cpc = "end" /\ gStatus = "none"
    /\ cpc = "end" /\ ~dupSubmit /\ net = {} /\ \A c \in Coords : pc[c] = "idle"
    /\ UNCHANGED vars

Next ==
    \/ CPrepare \/ CRegister \/ CTry \/ CSubmit \/ SubmitAgain \/ CAbort
    \/ ClientCrash
    \/ \E c \in Coords :
          \/ CronLock(c) \/ CronFind(c) \/ Start(c) \/ Skip(c) \/ Final(c)
          \/ \E busi \in BusiOutcomes, answered \in BOOLEAN : Exec(c, busi, answered)
          \/ ExecTimesOut(c) \/ Crash(c)
    \/ \E p \in Parts, op \in {"try", "confirm", "cancel"} :
          \/ \E busi \in BusiOutcomes : Deliver(p, op, busi)
          \/ Lose(p, op)
    \/ LeaseExpires \/ FailTimeoutElapses \/ Done

Spec == Init /\ [][Next]_vars
\* One call that succeeds: the participant eventually answers ok.
ExecOk(c) == Exec(c, "ok", TRUE)

\* A thread that has begun a pass keeps taking its steps (WF); a cron poller
\* that keeps finding an expired lease takes it (SF: another thread may take
\* it first); a confirm or cancel that is retried forever eventually
\* succeeds (SF), which TCC requires of its participants; time passes.
\* The client, the network and crashes get no fairness.
Fairness ==
    /\ \A c \in Coords :
          /\ SF_vars(CronLock(c)) /\ WF_vars(CronFind(c)) /\ WF_vars(Start(c))
          /\ WF_vars(Skip(c)) /\ WF_vars(Final(c)) /\ SF_vars(ExecOk(c))
          /\ WF_vars(ExecTimesOut(c)
                     \/ \E busi \in BusiOutcomes, answered \in BOOLEAN :
                           Exec(c, busi, answered))
    /\ WF_vars(LeaseExpires) /\ WF_vars(FailTimeoutElapses)

FairSpec == Spec /\ Fairness

-----------------------------------------------------------------------------
(* Properties.                                                             *)

Applied(p, op) == busiDone[<<p, op>>] > 0
Registered(p) == bst[p]["cancel"] # "none"

\* A global that ProcessOnce marks succeed had every registered branch's try
\* committed, then its confirm, and never its cancel: the confirm loop
\* walked every row of the registration.
TccSucceedConfirmed ==
    gStatus = "succeed" =>
        \A p \in Parts : Registered(p) \/ Applied(p, "try") =>
            Applied(p, "try") /\ Applied(p, "confirm") /\ ~Applied(p, "cancel")

\* A global marked failed has no confirm committed, and every try that
\* committed was cancelled: the cancel loop reached every branch whose try
\* the participant ran, including a try that arrived late.
TccFailedCancelled ==
    gStatus = "failed" =>
        \A p \in Parts : ~Applied(p, "confirm") /\ (Applied(p, "try") => Applied(p, "cancel"))

\* No participant commits both confirm and cancel: the client's submit, its
\* abort and the cron poller's timeout abort race on ChangeGlobalStatus and
\* exactly one direction wins, in every thread.
NoConfirmAndCancel ==
    \A p \in Parts : ~(Applied(p, "confirm") /\ Applied(p, "cancel"))

\* A prepared global is eventually finished, whatever the client does: the
\* fail-timeout makes the cron poller abort what the client left prepared.
TccTerminates ==
    gStatus = "prepared" ~> gStatus \in {"succeed", "failed"}
\* Exactly-once at the participants: however often the client, two passes
\* of a duplicated submit and the network repeat a try, confirm or cancel,
\* its business work commits at most once (Call's currentAffected check).
TccExactlyOnce == B!BusiAtMostOnce

\* No null cancel: the abort pass cancels every registered branch, tried
\* or not, and a cancel commits business work only for a participant
\* whose try committed (Call's originAffected check).
TccNoNullCancel == B!NoNullCompensation

\* No suspension: a try that reaches the participant after its cancel
\* passed the barrier never commits.
TccNoSuspension == B!NoSuspension
====
