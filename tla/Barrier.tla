------------------------------ MODULE Barrier ------------------------------
(***************************************************************************)
(* The participant-side branch barrier of dtmcli/barrier.go.              *)
(*                                                                         *)
(* A participant wraps its local business work in BranchBarrier.Call.     *)
(* Call runs in one local database transaction: two INSERT IGNOREs into   *)
(* the barrier table (keyed by gid, branch_id, op, barrier_id), a          *)
(* decision on the two affected-row counts, the business function, and a  *)
(* commit, or a rollback when the business function returned an error.   *)
(* The database serialises two transactions inserting the same key, so a  *)
(* whole Call is one atomic step here.                                     *)
(*                                                                         *)
(* The module covers one gid.  barrier_id is always "01": every request   *)
(* builds a fresh BranchBarrier (BarrierFromQuery) and calls Call once.   *)
(* Saga, Tcc and Msg instantiate it for their participants; there the     *)
(* network delays, duplicates and reorders the requests.                  *)
(***************************************************************************)
EXTENDS Naturals, FiniteSets

CONSTANTS
    BranchIDs,     \* branch ids of the saga steps / tcc participants
    MsgBranch      \* the special branch id "00" used by the msg barrier

ASSUME MsgBranch \notin BranchIDs

\* Branch operations (dtmcli constants BranchAction, BranchCompensate, ...).
ForwardOps == {"action", "try", "confirm"}
BackwardOps == {"compensate", "cancel"}
BranchOps == ForwardOps \cup BackwardOps

\* Every key of the barrier table the participant can insert for this gid.
Keys == (BranchIDs \X BranchOps) \cup {<<MsgBranch, "msg">>}

\* reason column: the op that did the insert, or "rollback" (QueryPrepared).
Reasons == BranchOps \cup {"msg", "rollback"}
NoRow == "norow"

\* Results a business function (BarrierBusiFunc) or Call can return.
BusiResults == {"ok", "failure", "error"}

VARIABLES
    barrier,    \* barrier table: key -> reason of the row, or NoRow
    busiDone    \* key -> number of committed runs of the business function

barrierVars == <<barrier, busiDone>>

BarrierTypeOK ==
    /\ barrier \in [Keys -> Reasons \cup {NoRow}]
    /\ busiDone \in [Keys -> Nat]

(***************************************************************************)
(* originOp: the forward op a backward op inserts against; "" otherwise   *)
(* (the Go map lookup of a missing key).                                   *)
(***************************************************************************)
OriginOp(op) ==
    CASE op = "cancel"     -> "try"
      [] op = "compensate" -> "action"
      [] OTHER             -> ""

(***************************************************************************)
(* insertBarrier: INSERT IGNORE of (b, op) with a reason into table tbl;  *)
(* an empty op inserts nothing.  Returns the new table and the number of  *)
(* affected rows.                                                          *)
(***************************************************************************)
InsertBarrier(tbl, b, op, reason) ==
    IF op = "" \/ tbl[<<b, op>>] # NoRow
    THEN [tbl |-> tbl, affected |-> 0]
    ELSE [tbl |-> [tbl EXCEPT ![<<b, op>>] = reason], affected |-> 1]

\* Variant: no duplicate check (currentAffected ignored).
CallResultNoDup(tbl, b, op, busi) ==
    LET o == InsertBarrier(tbl, b, OriginOp(op), op)
        c == InsertBarrier(o.tbl, b, op, op)
    IN  IF (op \in BackwardOps /\ o.affected > 0) \/ busi # "ok"
        THEN [tbl |-> c.tbl, ran |-> FALSE, res |-> IF busi = "ok" THEN "ok" ELSE busi]
        ELSE [tbl |-> c.tbl, ran |-> TRUE, res |-> "ok"]

\* Variant: no null-compensation check (originAffected ignored).
CallResultNoNullCheck(tbl, b, op, busi) ==
    LET o == InsertBarrier(tbl, b, OriginOp(op), op)
        c == InsertBarrier(o.tbl, b, op, op)
    IN  CASE c.affected = 0 -> [tbl |-> c.tbl, ran |-> FALSE, res |-> "ok"]
          [] busi = "ok"    -> [tbl |-> c.tbl, ran |-> TRUE, res |-> "ok"]
          [] OTHER          -> [tbl |-> tbl, ran |-> FALSE, res |-> busi]

\* Variant: a compensate/cancel does not insert the origin row.
CallResultNoOrigin(tbl, b, op, busi) ==
    LET c == InsertBarrier(tbl, b, op, op)
        a == tbl[<<b, OriginOp(op)>>] = NoRow
    IN  CASE c.affected = 0 \/ (op \in BackwardOps /\ a) ->
               [tbl |-> c.tbl, ran |-> FALSE, res |-> "ok"]
          [] busi = "ok" -> [tbl |-> c.tbl, ran |-> TRUE, res |-> "ok"]
          [] OTHER       -> [tbl |-> tbl, ran |-> FALSE, res |-> busi]

(***************************************************************************)
(* BranchBarrier.Call(tx, busiCall) as a function of the table before the *)
(* call and of what busiCall would return.  Result: the table after commit *)
(* or rollback, whether the business function committed, and the error   *)
(* returned to the handler ("ok" is nil).                                  *)
(***************************************************************************)
CallResult(tbl, b, op, busi) ==
    LET o    == InsertBarrier(tbl, b, OriginOp(op), op)
        c    == InsertBarrier(o.tbl, b, op, op)
        skip == \/ op \in BackwardOps /\ o.affected > 0   \* null compensate
                \/ c.affected = 0                        \* repeated or dangled
    IN  CASE op = "msg" /\ c.affected = 0 ->
               [tbl |-> tbl, ran |-> FALSE, res |-> "duplicated"]
          [] skip ->
               [tbl |-> c.tbl, ran |-> FALSE, res |-> "ok"]
          [] busi = "ok" ->
               [tbl |-> c.tbl, ran |-> TRUE, res |-> "ok"]
          [] OTHER ->
               [tbl |-> tbl, ran |-> FALSE, res |-> busi]

\* The state change of one Call: the table and the business effect.
ApplyCall(b, op, r) ==
    /\ barrier' = r.tbl
    /\ busiDone' = IF r.ran THEN [busiDone EXCEPT ![<<b, op>>] = @ + 1]
                            ELSE busiDone

\* Variant: the answer is taken from the affected-row count.
QueryPreparedByAffected(tbl) ==
    LET ins == InsertBarrier(tbl, MsgBranch, "msg", "rollback")
    IN  [tbl |-> ins.tbl, res |-> IF ins.affected = 1 THEN "failure" ELSE "ok"]

(***************************************************************************)
(* QueryPrepared: INSERT IGNORE (MsgBranch, "msg") with reason "rollback" *)
(* outside any transaction, then read the row's reason back.              *)
(***************************************************************************)
QueryPreparedResult(tbl) ==
    LET ins == InsertBarrier(tbl, MsgBranch, "msg", "rollback")
    IN  [tbl |-> ins.tbl,
         res |-> IF ins.tbl[<<MsgBranch, "msg">>] = "rollback" THEN "failure"
                                                               ELSE "ok"]

-----------------------------------------------------------------------------
(* Properties.                                                             *)

\* The forward op a backward op undoes.
Forward(op) == OriginOp(op)

(***************************************************************************)
(* Exactly-once: Call commits the business function of a (branch, op) at  *)
(* most once however many times the request is repeated (the             *)
(* currentAffected = 0 check of Call).                                     *)
(***************************************************************************)
BusiAtMostOnce == \A k \in Keys : busiDone[k] <= 1

(***************************************************************************)
(* No null compensation: the business work of compensate/cancel commits   *)
(* only for a branch whose action/try committed before (the               *)
(* originAffected > 0 check of Call).                                     *)
(***************************************************************************)
NoNullCompensation ==
    \A b \in BranchIDs, op \in BackwardOps :
        busiDone[<<b, op>>] > 0 => busiDone[<<b, Forward(op)>>] > 0

(***************************************************************************)
(* No suspension: once a compensate/cancel request has passed the barrier *)
(* (its row exists), the action/try of that branch never commits          *)
(* afterwards, even if its request arrives late.                           *)
(***************************************************************************)
NoSuspension ==
    [][\A b \in BranchIDs, op \in BackwardOps :
          barrier[<<b, op>>] # NoRow =>
              busiDone'[<<b, Forward(op)>>] = busiDone[<<b, Forward(op)>>]
      ]_barrierVars
=============================================================================
