# TLA+ models of the dtm coordinator

This directory holds TLA+ models of the dtm distributed-transaction manager. The Go source is in `src/`. The models cover:
- the SAGA and TCC drivers of the server;
- the parts of the server the drivers run in (entry points, cron poller, store, flusher);
- the TCC client (`TccGlobalTransaction2`, `CallBranch`);
- the reliable message (msg): the producer's `DoAndSubmit`, the engine's msg entry points and a msg driver taken from spec.md, with an abstract specification it refines;
- the participant-side branch barrier.

TLC checks every model. `PROJECT.json` lists every component, run, mutant, finding and hazard. It also maps every definition to the source lines it models.

## The system

The server, `dtmsvr`, stores one `trans_global` row per global transaction (gid) and one `trans_branch_op` row per branch operation. `storage/sql/sql.go` holds the store code.

Work is driven from three places:

- **svcSubmit** (`api.go`) saves a new saga through `saveNew` (`trans_process.go`) and `MaySaveNewTrans`. It then calls `Process`, which runs one `ProcessOnce` pass of the saga processor (`trans_type_saga.go`) in a goroutine.
  - If the gid already exists and is `submitted`, it runs a pass over freshly generated branches.
- **The cron poller** (`cron.go`) calls `LockOneGlobalTrans`. This takes an unfinished global whose `next_cron_time` has passed and pushes the lease forward. The poller then reads the branches and runs a pass.
- **A pass** starts one goroutine per branch (`asyncExecBranch`). Each goroutine calls the participant, then writes the branch status (`execBranch`, `changeBranchStatus`, `trans_status.go`), then touches the lease, then sends its result to the pass.
  - Branch status writes are synchronous (`LockGlobalSaveBranches`, conditional on the global status) for concurrent or timed sagas, or when so configured.
  - Otherwise they go through the bounded `updateBranchAsyncChan` to the flusher (`updateBranchAsync`, `svr.go`).
  - The pass changes the global status with `ChangeGlobalStatus`. This is an UPDATE conditional on the old status, and it panics when no row matches.

A TCC global is driven by its client (`dtmcli/tcc.go`):
- `svcPrepare` saves the global as `prepared`.
- For each participant, `CallBranch` calls `svcRegisterBranch`, then the try. `svcRegisterBranch` inserts the branch's `cancel` and `confirm` rows, and only while the global is `prepared`.
- The deferred call then sends `submit` when every try succeeded, or `abort` otherwise.
  - `svcSubmit` changes a `prepared` global to `submitted` and processes its rows.
  - `svcAbort` changes it to `aborting` and processes its rows.
- `transTccProcessor.ProcessOnce` walks the rows in reverse and calls `execBranch` for each `confirm` (or `cancel`) row still `prepared`. It stops at the first error and ends with `succeed` (or `failed`).
- The cron poller takes up a global the client left behind. When the fail-timeout has passed, `ProcessOnce` first changes a `prepared` global to `aborting`.

Participants wrap their work in `BranchBarrier.Call` (`dtmcli/barrier.go`). Call inserts barrier rows in the participant's local transaction. The inserts filter out duplicated requests, null compensations and requests that arrive after their compensation (suspension). `QueryPrepared` is the msg back-query on the same table.

A msg producer (`dtmcli/msg.go`) prepares a global, runs its local transaction through the msg barrier (branch `00`, op `msg`) and submits. When the submit is lost, the engine's poller asks the producer's `QueryPrepared` endpoint whether the local transaction committed, and submits or fails the message accordingly.

## Modules

| module | models | state | actions |
|---|---|---|---|
| `Barrier` | `dtmcli/barrier.go` | `barrier` (table, key → reason), `busiDone` (commits of the business work per key) | a library: `CallResult` is Call as a function of the table and of the business result, `ApplyCall` its effect, `QueryPreparedResult` the back-query's answer. `Saga`, `Tcc` and `Msg` instantiate it |
| `Saga` | saga driver, engine, SQL store, cron, flusher, svcSubmit | store: `gStatus`, `bStatus`, `expired` (lease free), `timedOut`; participants: `barrier`, `busiDone` (through `INSTANCE Barrier`), `net` (abandoned requests still in flight); coordinators: `pc`, `tStatus` (in-memory `t.Status`), `fresh`, `br` (`branchResults`), `rs` (the `rsA*`/`rsC*` counters), `gor` (branch goroutines), `queue` (async channel) | `Submit`, `ReSubmit`, `CronLock`, `CronFindBranches`, and one action per step of `ProcessOnce`: `Start`, `FwdRun`, `FwdExit`, `Wait`, `Rollup`, `BwdRun`, `BwdExit`, `Final`. Goroutines: `Invoke`, `CallFails`, `Complete`. Environment: `Deliver`, `Lose`, `Flush`, `Crash`, `LeaseExpires`, `FailTimeoutElapses`, `Done` |
| `Tcc` | TCC driver, svcPrepare/svcRegisterBranch/svcSubmit/svcAbort, cron, the TCC client | store: `gStatus`, `bst` (cancel/confirm rows per participant), `reg` (registration order), `expired`, `timedOut`; participants: `barrier`, `busiDone` (`INSTANCE Barrier`), `net`; client: `cpc`, `ck`, `dupSubmit`; coordinators: `pc`, `tStatus`, `lo`/`lb` (rows read by the pass), `idx` (loop index), `leased` | client: `CPrepare`, `CRegister`, `CTry`, `CSubmit` (through `SvcSubmit`), `SubmitAgain`, `CAbort`, `ClientCrash`; coordinators: `CronLock`, `CronFind`, `Start`, `Skip`, `Exec`, `ExecTimesOut`, `Final`; environment: `Deliver`, `Lose`, `Crash`, `LeaseExpires`, `FailTimeoutElapses`, `Done` |
| `Msg` | `dtmcli/msg.go`, svcPrepare/svcSubmit/svcAbort for msg, cron, `getNextCronInterval`, `touchCronTime`; the msg driver from spec.md | store: `gStatus`, `bst`, `expired`, `timedOut`, `ival` (`next_cron_interval`); participants: `barrier`, `busiDone`, `net`; producer: `cpc`, `errb`; coordinators: `pc`, `tStatus`, `lb`, `idx`, `leased`, `tIval` | producer: `CPrepare`, `CBusi`, `CQuery`, `CAbort`, `CSubmit`, `ClientCrash`; coordinators: `CronLock`, `CronFind`, `Start` (`StartIdle`, `StartRun`, `StartQuery`, `StartQueryFails`), `Skip`, `Exec`, `ExecTimesOut`, `Final`; environment: `Deliver`, `Lose`, `Crash`, `LeaseExpires`, `FailTimeoutElapses`, `Done` |
| `SagaAbstract` | what a saga promises (spec.md §4.4.1, §8) | `status`, `applied` (steps whose action committed), `undone` (steps whose compensation committed) | `AbsSubmit`, `Apply`, `AbsAbort`, `Undo`, `AbsSucceed`, `AbsFail` |
| `MsgAbstract` | what a reliable message promises (spec.md §4.4.3) | `local` (producer's transaction open or committed), `delivered` (steps whose consumer committed), `outcome` | `Commit`, `DeliverStep`, `Succeed`, `Fail` |
| `MCSaga`, `MCTcc`, `MCMsg` | model values, orders and symmetry for TLC | | |

### How Saga corresponds to the code

A coordinator (`Coords`) is one processing thread: the svcSubmit goroutine or a cron poller of some server. One pass of `ProcessOnce` is split into steps at its suspension points (store calls, goroutine starts, channel receives). `pc` records where the thread is.

- **Pass setup:**
  - `Start` models the timeout check and the counter initialisation (lines 69-131).
  - `FwdRun` is one iteration of the forward loop: `pickToRunActions` and `runBranches`.
  - `Wait` is `waitDoneOnce`: one result, or the 3 s timer when none is ready.
- **After the forward loop:**
  - `Rollup` makes the succeed/abort decision and calls `prepareToCompensate`.
  - `BwdRun` and `Wait` form the compensation loop.
  - `Final` makes the final change to `failed`.
- **ChangeGlobalStatus:** `ChangeStatus` and `ChangeStatusPanics` model it. It assigns the new status to `t.Status` before the conditional update. On a mismatch the pass panics, and `processInner`'s `handlePanic` ends it, with the new status kept in memory.
- **Goroutines:** the goroutines of a pass outlive it when the pass returns early. `EndPass` turns them into strays that keep the pass's last `t.Status`.
- **Complete:** it models `execBranch` after the call:
  - `getBranchResult`;
  - `changeBranchStatus`, which is sync or async;
  - `touchCronTime`, which is skipped when the sync write panics;
  - the deferred send of `branches[i].Status`, which `changeBranchStatus` set before the write.
- **Data abstraction:**
  - A participant call is the barrier-wrapped handler with business result `ok` or `failure`. Its response may be lost.
  - A call that fails (a timeout or a connection error) leaves the request in `net`. From there it may be served late (`Deliver`) or never (`Lose`).
  - URLs, payloads, headers and the HTTP/gRPC encoding are abstracted away.
- **Time is abstract:**
  - `LeaseExpires`: `next_cron_time` passes.
  - `FailTimeoutElapses`: `create_time + TimeoutToFail` passes.
  - `DeadlinePasses`: a pass's `timeLimit` passes.
  - Without `Preemption`, the lease may only expire when no pass or call is running. The default `RetryInterval` of 10 s exceeds `RequestTimeout + 2 s`, and `touchCronTime` renews the lease.

### How Tcc corresponds to the code

- **Client:** one `TccGlobalTransaction2` with participants `1..NP`, called in order.
  - Each call to the server may be lost before it arrives, or its reply lost after it was applied.
  - `CRegister` is `CallBranch`'s `registerBranch`: `svcRegisterBranch` → `LockGlobalSaveBranches(gid, prepared, …)`.
  - `CTry` is the try through the barrier. Its request can time out and stay in `net`, to arrive later.
  - Any error takes the client to the deferred `abort`; success after the last try takes it to `submit`.
  - `ClientCrash` ends the client between two calls.
- **Server entry points:**
  - `SvcSubmit` is `svcSubmit` for an existing gid. A `prepared` global changes to `submitted` and its rows are read. A `submitted` one is processed with `saveNew`'s rows, that is `GenBranches()`, which is empty for TCC.
  - `SubmitAgain` is a second copy of the submit request (`DupSubmit`).
  - `CAbort` is `svcAbort` for a TCC global.
  - Both start the pass in a goroutine (`process`, `WaitResult` unset).
- **A pass (`ProcessOnce`):**
  - `Start` is `needProcess` and the timeout abort. `ChangeGlobalStatus` is conditional, and `handlePanic` ends the pass when it fails.
  - `Skip`/`Exec` is one iteration of the reverse loop over the rows read when the pass began (`lo`, `lb`).
  - `Exec` covers the barrier-wrapped call, the synchronous row write (a panic when the global moved on) and `touchCronTime`. `ExecTimesOut` is a call that fails before it is served.
  - `Final` is the last `changeStatus`.
- **Simplification:** TCC rows are written synchronously here (`UpdateBranchSync`). The asynchronous path is modelled in `Saga`.

### The saga's abstract specification

`SagaAbstract` states what a saga promises with everything else hidden. Its global status goes `submitted → succeed` or `submitted → aborting → failed`. An action commits once, after the actions it depends on, while the saga is undecided. A compensation commits once, only for a committed action, and only while aborting. `succeed` needs every action committed; `failed` needs every committed action compensated.

`Saga` maps onto it with `status` = the store's `gStatus`, `applied` = steps whose action's business work committed at the participant, and `undone` = the same for compensations (`AbsSaga` in `Saga.tla`). `saga_seq` checks `SagaRefines`, so the three safety invariants of that run and `SagaTerminates` are consequences of one statement. A refinement is not checked for the runs with preemption, a fail-timeout or asynchronous writes on two servers: there the findings below show the code leaves the abstract saga.

### How Msg corresponds to the code

- **Producer (`DoAndSubmit`, msg.go):** `CPrepare` is the prepare call; `CBusi` the local transaction through the msg barrier, whose commit may fail (`errb`); `CQuery` the producer's own `QueryPrepared` after an error; `CAbort` the abort it sends on a failure; `CSubmit` the submit. Each request may be lost or arrive late (`net`). `ClientCrash` stops the producer between two calls.
- **Engine:** `CSubmit` and `CAbort` apply `svcSubmit` (prepared → submitted, rows `GenBranches`) and the msg branch of `svcAbort` (prepared → failed) under the conditional status update.
- **A pass:** the driver is not in `src/` and is taken from spec.md: `StartQuery` is the back-query of a timed-out prepared msg, answered from the barrier table (`QueryPreparedResult`), which moves the global to `submitted` or `failed`; `StartQueryFails` is a query that gets no answer. `Skip`/`Exec` walk the steps in order; `Final` sets `succeed`.
- **Backoff:** every `Exec` ends with `touchCronTime` and `getNextCronInterval` (trans_status.go:148-178). `ival` is `next_cron_interval` in units of the retry interval, loaded into the pass by `CronLock`.
- **Refinement:** `Msg` implements `MsgAbstract` under the mapping `local` = the producer's barrier row committed, `delivered` = steps whose consumer committed, `outcome` = `succeed`/`failed` or open (`MsgRefines`).

## Runs

| run | expect | what it shows |
|---|---|---|
| `saga_seq` | pass | 2 sequential steps, sync writes, lost/late requests, 2 deadlines, 2 crashes. `succeed` implies all actions applied and no compensation (`SucceedAllApplied`). `failed` implies nothing left applied (`SagaFailedUndone`). A step's action commits only after the previous step's action (`ActionsInOrder`). Under `FairSpec` a submitted saga always ends `succeed` or `failed` (`SagaTerminates`). The whole saga refines `SagaAbstract` (`SagaRefines`): every step of coordinators, goroutines and network is a legal step of the abstract saga, and its fairness (an undecided saga decides, an aborting one compensates and fails) follows. |
| `saga_conc` | pass | 3 concurrent steps, step 2 after step 0. Goroutines interleave freely, `Orders` are respected, and `succeed` is sound. |
| `saga_async` | pass | Branch statuses go through the async channel (capacity 2 here) and the flusher. Succeed and order still hold over unflushed rows. A full channel blocks the sending goroutine; deadlock checking shows the flusher always frees it. A row that says an action succeeded, though written late by the flusher, always matches a committed action at the participant (`ActionRowTruthful`). |
| `saga_resubmit` | pass | Fail-timeout on and the client submits twice, so two passes run at once. The global status moves only along `submitted → aborting → failed` or `submitted → succeed` (`GlobalStatusTransitions`). |
| `tcc_notimeout` | pass | No fail-timeout. Lost calls and replies, late tries, a crash and a duplicated submit are all possible. A `failed` global has no confirm committed and every committed try cancelled (`TccFailedCancelled`). The barrier keeps each participant's try, confirm and cancel to at most one commit (`TccExactlyOnce`), commits no cancel without its try (`TccNoNullCancel`) and no try after its cancel (`TccNoSuspension`, an action property). |
| `msg` | pass | 2 steps, fail-timeout on, 2 coordinators, one crash, lost and late requests, the producer's commit failing or crashing. A consumer runs only for a committed local transaction (`DeliveredOnlyIfCommitted`); a `failed` msg never has one (`FailedNeverCommitted`); `next_cron_interval` never exceeds twice the retry interval (`RetryDelayBounded`); under `FairSpec` a committed message is eventually `succeed` with every step delivered (`CommittedDelivered`); and the whole is a refinement of `MsgAbstract` (`MsgRefines`). |
| `tcc_live` | pass | Fail-timeout on, and the lease may expire under a running cron pass. The client's submit and abort race the poller's timeout abort. `succeed` implies every registered branch tried and confirmed (`TccSucceedConfirmed`). No branch is both confirmed and cancelled (`NoConfirmAndCancel`). Under `FairSpec`, a `prepared` global always ends `succeed` or `failed` (`TccTerminates`). |
| `saga_preempt` | violation | `ActionsInOrder`, when the lease expires during a pass. |
| `saga_async_branch` | violation | `BranchSucceedTerminal`, with async updates on two servers and no preemption. |
| `saga_timeout_undone` | violation | `SagaFailedUndone`, with a fail-timeout and a lost response. |
| `tcc_timeout_cancel` | violation | `TccFailedCancelled`, when a branch is registered between the cron pass's read and its timeout abort. |
| `tcc_dup_submit` | violation | `TccSucceedConfirmed`, when the submit request arrives twice. |

### What the violations show

Each violation is a finding in `PROJECT.json`.

1. **A failed saga can leave an action applied** (`saga_timeout_undone`).
   - `rollbacked()` counts an action whose row is still `prepared` as rolled back.
   - `prepareToCompensate` only marks actions started in the current pass.
   - So an action that committed in an earlier pass is never compensated when its row stayed `prepared`. The row stays `prepared` when:
     - the response was lost (the run's trace);
     - the pass hit `timeLimit`;
     - the async write was not yet flushed.
   - spec.md §4.4.1 asks to treat "we don't know" as "must compensate".
2. **Preemption is not safe for the pass that lost its lease** (`saga_preempt`).
   - The stale pass's conditional write fails, but the deferred send still reports the status `changeBranchStatus` set in memory.
   - The stale pass then runs the next step after the new owner aborted and null-compensated the earlier one.
   - This contradicts spec.md §5 ("preemption is safe because all state writes are conditional").
3. **An asynchronous branch update can undo a newer one** (`saga_async_branch`).
   - `UpdateBranches` is an unconditional upsert by row id. Each server flushes its own queue.
   - A `failed` result queued on one server is flushed after a later pass on another server re-ran the action and flushed `succeed`. The failed call left no barrier row.
   - The row goes back from `succeed` to `failed`, against spec.md §8.1. No preemption is needed.
4. **A TCC branch registered during the cron poller's timeout abort is never cancelled** (`tcc_timeout_cancel`).
   - `CronTransOnce` reads the rows (`FindBranches`, cron.go:45). Only then does `ProcessOnce` change the timed-out `prepared` global to `aborting`.
   - In between, `svcRegisterBranch` still accepts a branch and the client's try commits.
   - The pass cancels the rows it read and marks the global `failed`, with the new try committed and never cancelled.
5. **A duplicated submit finishes a TCC global before its confirms** (`tcc_dup_submit`).
   - `svcSubmit` of a `submitted` gid processes `saveNew`'s rows, that is `GenBranches()`, which is empty for TCC. So the pass goes straight to `succeed`.
   - With synchronous branch writes (the model's setting) the first pass's next confirm write then panics, because the status moved on, and branches stay unconfirmed in a `succeed` global. With the default asynchronous writes (trans_status.go:56) the first pass goes on confirming, but the global was already reported `succeed` before its confirms.
   - For a saga the same line starts a second pass from step 0 beside the first.

**Backoff is not exponential** (`msg`, `RetryDelayBounded`). `execBranch` computes `err == nil && elapsed || interval > default` (trans_status.go:156-157); `&&` binds before `||`, so an interval above the default is reset after any result, success or error. `getNextCronInterval` then doubles only from the default, and a branch that keeps failing alternates between 1× and 2× the retry interval. spec.md §4.3 states the same reset rule ("or current `next_cron_interval` exceeds baseline → reset"), so the code follows it; it is the spec's label "exponential backoff" for the error case that the rule does not deliver. TLC shows `ival <= 2` in every reachable state. The mutant `CronTypeGrouped` groups the condition as `err == nil && (elapsed || interval > default)`, the precedence slip a reader of the label would expect, and lets `ival` reach 4. This is recorded as a hazard rather than a violation run: the bound holds; it is the spec's claim that fails.

`saga_conc_undone.cfg`, `saga_async_undone.cfg`, `saga_preempt_branch.cfg` and `saga_resubmit_order.cfg` are further configurations that reproduce the mechanisms of findings 1, 2 and 5 on `Saga`. They are kept for reference and are not part of the run list.

### Mutants

Every property of a passing run has a mutant in `PROJECT.json`. A mutant is a variant operator, defined in the module just before the definition it replaces, that reproduces a plausible bug:
- dropping the duplicate, null-compensation or origin-row check in `Call`;
- the flusher's upsert keyed by `branch_id` instead of the row id (`UpdateBranchesByBranchID`);
- answering QueryPrepared from the affected-row count, or a call that ignores a duplicate;
- succeeding without counting successes (`ToSucceedNoCount`);
- counting only failed actions for compensation;
- dropping the previous-step or Orders check of `shouldRun`;
- an unconditional status UPDATE (Saga and Tcc);
- treating any reply as success;
- not counting prepared actions to start;
- a cron query that skips `aborting` globals (`CronStatusesNoAborting`);
- TCC's reverse loop stopping one row early (`HasNextOffByOne`);
- `needProcess` ignoring the fail-timeout (`NeedProcessNoTimeout`);
- the backoff condition grouped as `err == nil && (elapsed || interval > default)` (`CronTypeGrouped`).

TLC finds each mutant's property violated under the run's own configuration.

## Bounds and why they are enough

- **Steps:** 2 steps for sequential sagas. That is the least needed for an order between steps and for a compensation that follows another. 3 steps with one order for concurrent sagas, so that one pair is ordered and one is not.
- **TCC participants:** `NP = 2`. That is enough for a branch registered after another was read, for a loop that stops early, and for a submit racing an abort over two rows.
- **Coordinators:** 2 threads, enough for preemption, resubmission and a client pass racing a cron pass. One pass per thread at a time, as in the code. Safety runs use symmetry. Liveness runs (`saga_seq`, `tcc_live`) do not, because symmetry is unsound for liveness.
- **Time and failures:**
  - `MaxDeadlines` (1-2) bounds passes cut short by `timeLimit`.
  - `MaxCrashes` (0-2) bounds server restarts.
  - `MaxSubmits` (1-2) bounds client submits.
  - `DupSubmit` allows one duplicate of the TCC submit.
  - `QueueCap` (2) stands for the channel's 1000 slots: what matters is a full channel, not its size.
- **The barrier:** checked inside `tcc_notimeout`, where 2 participants, lost and late tries and a duplicated submit reach every order of try, cancel and duplicate on a branch.
- **Msg:** `NS = 2` steps (one order between deliveries), `MaxIval = 4` (the cap the guards stop at, one doubling above what the code reaches, so an exponential backoff would show), one crash.
- **Running times:**
  - `saga_conc` runs without crashes or deadlines and takes under 3 minutes. With one crash it takes over 10 minutes, and the crash behaviour is already checked by `saga_seq`.
  - `saga_seq` (with the refinement) takes about 2 minutes, `tcc_live` about 1.5.

Every violation is found at these bounds with the shortest traces above.

## Fairness and deadlock

Safety runs use `Spec`, with no fairness. Three runs use `FairSpec` (`Spec /\ Fairness`) to check liveness: `saga_seq`, `tcc_live` and `msg`. The fairness is what the code's scheduling gives:
- **Weak fairness on every step of a pass that has begun.** A pass is a goroutine running straight-line code: `Start`, the loop steps, `Final`, `Wait`'s 3 s timer, goroutine steps and the flusher.
- **Strong fairness on `CronLock`.** `CronExpiredTrans` polls for ever, but another thread may take the expired global first.
- **Strong fairness on a successful participant call.** This is `Invoke(g, "ok", FALSE)` in Saga and `ExecOk` in Tcc and Msg. In Msg the answered back-query (`StartQuery`) is strongly fair too: the producer's endpoint answers when retried. TCC and saga both require confirm, cancel and compensate to succeed eventually when retried. Without it, the retry at trans_type_saga.go:332 or trans_type_tcc.go:47 may go on for ever.
- **Strong fairness on `BwdExit`.** The compensation loop returns to its head every 3 s, so real time reaches `timeLimit`. `BwdSpins` lets the loop exit once nothing can run, without spending `MaxDeadlines`.
- **Weak fairness on `LeaseExpires` and `FailTimeoutElapses`.** Time passes.
- **No fairness for the rest.** The client, submissions, late or lost requests, deadlines and crashes may never happen.

On deadlock:
- `Saga` and `Tcc` have a `Done` step once the global is finished and nothing is running, in flight or queued. This is the pollers finding nothing to do, so deadlock checking stays on for their runs.

## Not modelled (yet), and the plan

- **Msg driver and xa:** the msg driver is spec-modelled (it is not under `src/`); xa is not modelled. Msg rows are written synchronously, and `ErrOngoing` answers are not modelled.
- **Backoff in Saga and Tcc:** only `Msg` tracks `next_cron_interval`; elsewhere time is abstract and only the order of events is modelled.
- **Refinement:** `Msg` refines `MsgAbstract` and `Saga` refines `SagaAbstract` (in `saga_seq`). No abstract TCC is checked: every TCC run needs either the fail-timeout or the duplicated submit to fire all of `Tcc`'s actions, and each of those breaks "all confirmed or all cancelled" (findings 4 and 5).
- **Left out:**
  - HTTP/gRPC adapters, the saga and msg request builders, logging, configuration and start-up;
  - the asynchronous branch writes for TCC (modelled for sagas);
  - the junk row an async update with branch ID 0 inserts;
  - the flusher's retry of a failed batch (folded into `Flush`);
  - batching. On PostgreSQL a batch that holds two updates of one row fails for ever (the hazard at svr.go:116); the model applies updates one at a time and cannot show it.
