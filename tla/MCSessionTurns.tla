-------------------------- MODULE MCSessionTurns --------------------------
(* Instances of SessionTurns for TLC.                                      *)
EXTENDS SessionTurns, TLC

(* No turn attaches: the ways through runTurn that do not await a read.    *)
NoneAttaching == {}

(* Turns of a kind are interchangeable, and so are the sessions.           *)
Symmetry == Permutations(Turns) \cup Permutations(Sessions)
=============================================================================
