---------------------------- MODULE SagaAbstract ----------------------------
(***************************************************************************)
(* What a saga promises (spec.md 4.4.1 and 8), with coordinators,          *)
(* goroutines, rows and the network hidden.  One saga of steps Steps.     *)
(* Its global status goes submitted -> succeed, or submitted -> aborting  *)
(* -> failed.  An action of a step commits at most once, and only after   *)
(* the actions it depends on (Deps) committed, while the saga is not yet  *)
(* decided.  A compensation commits at most once, only for a committed    *)
(* action, and only once the saga is aborting.  The saga succeeds with    *)
(* every action committed, and fails once every committed action is       *)
(* compensated.                                                            *)
(***************************************************************************)
CONSTANTS
    Steps,      \* the saga's steps
    Deps        \* step -> the steps whose actions must commit before it

VARIABLES
    status,     \* the saga's global status ("none" before the submit)
    applied,    \* steps whose action committed
    undone      \* steps whose compensation committed

sagaVars == <<status, applied, undone>>

AbsTypeOK ==
    /\ status \in {"none", "submitted", "aborting", "succeed", "failed"}
    /\ applied \subseteq Steps /\ undone \subseteq applied

AbsInit == status = "none" /\ applied = {} /\ undone = {}

AbsSubmit ==
    /\ status = "none" /\ status' = "submitted"
    /\ UNCHANGED <<applied, undone>>

Apply(s) ==
    /\ status \in {"submitted", "aborting"}
    /\ s \notin applied /\ Deps[s] \subseteq applied
    /\ applied' = applied \cup {s}
    /\ UNCHANGED <<status, undone>>

AbsAbort ==
    /\ status = "submitted" /\ status' = "aborting"
    /\ UNCHANGED <<applied, undone>>

Undo(s) ==
    /\ status = "aborting" /\ s \in applied \ undone
    /\ undone' = undone \cup {s}
    /\ UNCHANGED <<status, applied>>

AbsSucceed ==
    /\ status = "submitted" /\ applied = Steps
    /\ status' = "succeed"
    /\ UNCHANGED <<applied, undone>>

AbsFail ==
    /\ status = "aborting" /\ applied \subseteq undone
    /\ status' = "failed"
    /\ UNCHANGED <<applied, undone>>

AbsNext ==
    \/ AbsSubmit \/ AbsAbort \/ AbsSucceed \/ AbsFail
    \/ \E s \in Steps : Apply(s) \/ Undo(s)

\* A submitted saga does not stay undecided, and an aborting one keeps
\* compensating until it fails.
AbsFairness ==
    /\ WF_sagaVars(AbsAbort \/ AbsSucceed \/ \E s \in Steps : Apply(s))
    /\ WF_sagaVars(\E s \in Steps : Undo(s))
    /\ WF_sagaVars(AbsFail)

AbsSpec == AbsInit /\ [][AbsNext]_sagaVars /\ AbsFairness
=============================================================================
