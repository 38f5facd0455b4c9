--------------------------- MODULE SeatContract ---------------------------
(***************************************************************************)
(* What a seat promises the session that uses it: one turn runs at a time, *)
(* a turn ends once and for good, chunks come only from the running turn,  *)
(* and a seat that has been given up starts no other.                      *)
(***************************************************************************)
CONSTANTS Turns, NoTurn

VARIABLES
  running,    \* the turn that has started and not ended, or NoTurn
  ended,      \* the turns that are over, refused ones too
  delivered,  \* the turns a chunk was delivered under
  usable      \* FALSE once the seat is closed or poisoned

vars == <<running, ended, delivered, usable>>

Init ==
  /\ running = NoTurn
  /\ ended = {}
  /\ delivered = {}
  /\ usable = TRUE

Start(t) ==
  /\ usable
  /\ running = NoTurn
  /\ t \notin ended
  /\ running' = t
  /\ UNCHANGED <<ended, delivered, usable>>

Refuse(t) ==
  /\ running # t
  /\ ended' = ended \cup {t}
  /\ UNCHANGED <<running, delivered, usable>>

Deliver ==
  /\ running # NoTurn
  /\ delivered' = delivered \cup {running}
  /\ UNCHANGED <<running, ended, usable>>

(* A turn may end because, or although, its seat is given up.              *)
End ==
  /\ running # NoTurn
  /\ running' = NoTurn
  /\ ended' = ended \cup {running}
  /\ usable' \in {usable, FALSE}
  /\ UNCHANGED delivered

GiveUp ==
  /\ usable' = FALSE
  /\ UNCHANGED <<running, ended, delivered>>

Next == (\E t \in Turns : Start(t) \/ Refuse(t)) \/ Deliver \/ End \/ GiveUp

Spec == Init /\ [][Next]_vars
=============================================================================
