---------------------------- MODULE MsgAbstract -----------------------------
(***************************************************************************)
(* What a reliable message promises (spec.md 2 and 7, "Message            *)
(* exactly-once"): the producer's local transaction commits or not; a     *)
(* consumer's action runs only after the commit; the message ends failed *)
(* only if the transaction never commits, and succeed only after every    *)
(* consumer ran.  Once committed, every consumer eventually runs and the  *)
(* message ends succeed.  Module Msg implements it (see MsgRefines).      *)
(***************************************************************************)
CONSTANTS Steps

VARIABLES
    local,      \* the producer's transaction: "open" or "committed"
    delivered,  \* steps whose consumer ran its action
    outcome     \* "open", "succeed" or "failed"

absVars == <<local, delivered, outcome>>

AbsTypeOK ==
    /\ local \in {"open", "committed"}
    /\ delivered \subseteq Steps
    /\ outcome \in {"open", "succeed", "failed"}

AbsInit == local = "open" /\ delivered = {} /\ outcome = "open"

\* The transaction commits, unless the message was already given up.
Commit ==
    /\ local = "open" /\ outcome # "failed"
    /\ local' = "committed"
    /\ UNCHANGED <<delivered, outcome>>

\* A consumer runs its action for a committed message.
DeliverStep(i) ==
    /\ local = "committed" /\ i \notin delivered
    /\ delivered' = delivered \cup {i}
    /\ UNCHANGED <<local, outcome>>

\* The message ends succeed once every consumer ran.
Succeed ==
    /\ outcome = "open" /\ delivered = Steps
    /\ outcome' = "succeed"
    /\ UNCHANGED <<local, delivered>>

\* The message is given up while the transaction has not committed.
Fail ==
    /\ outcome = "open" /\ local = "open"
    /\ outcome' = "failed"
    /\ UNCHANGED <<local, delivered>>

AbsNext == Commit \/ (\E i \in Steps : DeliverStep(i)) \/ Succeed \/ Fail

AbsSpec ==
    /\ AbsInit /\ [][AbsNext]_absVars
    /\ \A i \in Steps : WF_absVars(DeliverStep(i))
    /\ WF_absVars(Succeed)
====
