------------------------------- MODULE MCMsg --------------------------------
(* Model values for the coordinator threads of Msg.                        *)
EXTENDS Msg, TLC

CONSTANTS c1, c2

MCCoords == {c1, c2}
====
