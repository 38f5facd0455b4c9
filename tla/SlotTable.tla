----------------------------- MODULE SlotTable -----------------------------
(***************************************************************************)
(* What the seat pool promises, whatever opens, loads, failures and        *)
(* expiries do: a table with one holder per key and at most Max holders.   *)
(* A key changes hands only after its holder let go of it or went stale.   *)
(***************************************************************************)
EXTENDS Naturals, FiniteSets

CONSTANTS Keys, Holders, None, Max

VARIABLES holder,  \* who holds each key, or None
          stale    \* holders whose claim may be swept

tableVars == <<holder, stale>>

Held(map) == {k \in Keys : map[k] # None}

(* The table once the keys of K are free.                                  *)
Without(K) == [k \in Keys |-> IF k \in K THEN None ELSE holder[k]]

Init == holder = [k \in Keys |-> None] /\ stale = {}

(* A free key is taken, below the cap, once stale claims have been swept.  *)
Acquire(k, h, K) ==
  /\ \A j \in K : holder[j] \in stale
  /\ Without(K)[k] = None
  /\ Cardinality(Held(Without(K))) < Max
  /\ holder' = [Without(K) EXCEPT ![k] = h]
  /\ UNCHANGED stale

(* Claims are given up, or swept.                                          *)
Drop(K) == holder' = Without(K) /\ UNCHANGED stale

Expire(h) == stale' = stale \cup {h} /\ UNCHANGED holder

Next ==
  \/ \E k \in Keys, h \in Holders, K \in SUBSET Keys : Acquire(k, h, K)
  \/ \E K \in SUBSET Keys : Drop(K)
  \/ \E h \in Holders : Expire(h)

Spec == Init /\ [][Next]_tableVars
=============================================================================
