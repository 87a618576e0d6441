------------------------------ MODULE MCSaga -------------------------------
(* Model-checking instances of Saga.                                       *)
EXTENDS Saga, TLC

CONSTANTS c1, c2

MCCoords == {c1, c2}

\* Coordinators are interchangeable threads.
Sym == Permutations(MCCoords)

\* Two steps, no orders (a sequential saga).
MCNoOrders == [s \in 0..1 |-> {}]

\* Three steps: step 2 waits for step 0; steps 0 and 1 run in parallel.
MCOrders3 == [s \in 0..2 |-> IF s = 2 THEN {0} ELSE {}]
=============================================================================
