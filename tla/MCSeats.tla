------------------------------ MODULE MCSeats ------------------------------
(* Instances of Seats for TLC.                                             *)
EXTENDS Seats, TLC

(* Attempts are interchangeable, and so are projects and connections:      *)
(* every definition quantifies over them.                                  *)
Symmetry ==
  Permutations(Attempts) \cup Permutations(Projects) \cup Permutations(Conns)
=============================================================================
