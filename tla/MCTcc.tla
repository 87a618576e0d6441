------------------------------- MODULE MCTcc --------------------------------
(* Model-checking instances of Tcc.                                        *)
EXTENDS Tcc, TLC

CONSTANTS c1, c2

MCCoords == {c1, c2}

\* Coordinators are interchangeable threads.
Sym == Permutations(MCCoords)
=============================================================================
