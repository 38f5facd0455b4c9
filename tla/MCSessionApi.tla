--------------------------- MODULE MCSessionApi ----------------------------
(* SessionApi for TLC: the list is asked for the same task, not searched   *)
(* or searched, and the cursor of a read from the start is a model value.  *)
EXTENDS SessionApi, TLC
=============================================================================
