--------------------------- MODULE MCSessionStore ---------------------------
(* Instances of SessionStore for TLC.                                      *)
EXTENDS SessionStore, TLC

CONSTANTS s1, s2, s3

(* The directories of the old store: none; or one session whose summary    *)
(* lags its log and whose last turn was cut off, one that claims records   *)
(* and has no log, each with a line that did not parse or not.             *)
NoLegacy == Nothing
OldDir(first, last, records, skipped) ==
  [first |-> first, last |-> last, bytes |-> 2, truncated |-> FALSE,
   midTurn |-> FALSE, stamp |-> 0, records |-> records, skipped |-> skipped]
OldStore ==
  (s1 :> OldDir(1, 1, {[seq |-> 2, turn |-> FALSE, bytes |-> 1],
                       [seq |-> 3, turn |-> TRUE, bytes |-> 1]}, 1))
  @@ (s2 :> OldDir(1, 4, {}, 0))

Symmetry == Permutations(Sids) \cup Permutations(Files)
=============================================================================
