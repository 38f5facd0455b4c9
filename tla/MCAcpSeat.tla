----------------------------- MODULE MCAcpSeat -----------------------------
(* Instances of AcpSeat for TLC.                                           *)
EXTENDS AcpSeat, TLC

(* Turns are interchangeable.                                              *)
Symmetry == Permutations(Turns)
=============================================================================
