---------------------------- MODULE SeatsProofs ----------------------------
(***************************************************************************)
(* Theorems about Seats, for any numbers of sockets, projects, attempts    *)
(* and any caps.  The argument: SeatInv, below, says who may own a pool    *)
(* entry, who holds a seat and that one connection runs one open or load   *)
(* at a time; every action keeps it, and the properties follow from it.    *)
(***************************************************************************)
EXTENDS Seats, FiniteSetTheorems, TLAPS

(* Every variable stays in its domain.                                     *)
THEOREM TypeCorrect == Spec => []TypeOK
<1>1. Init => TypeOK
  BY NoAttemptIsNull DEF Init, TypeOK, Phases, ChildStates
<1>2. TypeOK /\ [Next]_vars => TypeOK'
  <2> SUFFICES ASSUME TypeOK, [Next]_vars PROVE TypeOK'
    OBVIOUS
  <2> USE DEF TypeOK, poolVars, connVars, idVars,
              Phases, OpenPhases, LoadPhases, ChildStates
  <2>1. ASSUME NEW a \in Attempts, OpenSession(a) PROVE TypeOK'
      BY <2>1 DEF OpenSession, Latch, Goto
  <2>2. ASSUME NEW a \in Attempts, LoadSession(a) PROVE TypeOK'
      BY <2>2 DEF LoadSession, Latch, Goto, HeadlessFull
  <2>3. ASSUME NEW a \in Attempts, GateRefuses(a) PROVE TypeOK'
      BY <2>3 DEF GateRefuses, Goto, Unlatch
  <2>4. ASSUME NEW a \in Attempts, ReserveRefused(a) PROVE TypeOK'
      BY <2>4 DEF ReserveRefused, Swept, Goto, Unlatch
  <2>5. ASSUME NEW a \in Attempts, Reserve(a) PROVE TypeOK'
      BY <2>5 DEF Reserve, Swept, KeyTaken, Goto
  <2>6. ASSUME NEW a \in Attempts, SpawnFails(a) PROVE TypeOK'
      BY <2>6 DEF SpawnFails, RemoveKey, Goto, Unlatch
  <2>7. ASSUME NEW a \in Attempts, Spawned(a) PROVE TypeOK'
      BY <2>7 DEF Spawned, Goto
  <2>8. ASSUME NEW a \in Attempts, OpenUnwinds(a) PROVE TypeOK'
      BY <2>8 DEF OpenUnwinds, RemoveKey, Goto, Unlatch
  <2>9. ASSUME NEW a \in Attempts, UnwindDone(a) PROVE TypeOK'
      BY <2>9 DEF UnwindDone, Goto, Unlatch
  <2>10. ASSUME NEW a \in Attempts, Opened(a) PROVE TypeOK'
      BY <2>10 DEF Opened, Goto, Unlatch
  <2>11. ASSUME NEW a \in Attempts, CreateFails(a) PROVE TypeOK'
      BY <2>11 DEF CreateFails, Release, RemoveKey, CloseChild, Closing, Goto, Unlatch
  <2>12. ASSUME NEW a \in Attempts, Unclaimed(a) PROVE TypeOK'
      BY <2>12 DEF Unclaimed, CloseChild, Closing, Goto
  <2>13. ASSUME NEW a \in Attempts, UnclaimedDone(a) PROVE TypeOK'
      BY <2>13 DEF UnclaimedDone, RemoveKey, Goto, Unlatch
  <2>14. ASSUME NEW a \in Attempts, HeadlessRefused(a) PROVE TypeOK'
      BY <2>14 DEF HeadlessRefused, Goto, Unlatch
  <2>15. ASSUME NEW a \in Attempts, HeadlessSpawned(a) PROVE TypeOK'
      BY <2>15 DEF HeadlessSpawned, Goto
  <2>16. ASSUME NEW a \in Attempts, HeadlessUnwinds(a) PROVE TypeOK'
      BY <2>16 DEF HeadlessUnwinds, Goto, Unlatch
  <2>17. ASSUME NEW a \in Attempts, HeadlessClosed(a) PROVE TypeOK'
      BY <2>17 DEF HeadlessClosed, Goto
  <2>18. ASSUME NEW a \in Attempts, HandshakeFails(a) PROVE TypeOK'
      BY <2>18 DEF HandshakeFails, CloseChild, Closing, Goto
  <2>19. ASSUME NEW a \in Attempts, PromoteRefused(a) PROVE TypeOK'
      BY <2>19 DEF PromoteRefused, IsReservation, RemoveKey, CloseChild, Closing, Goto
  <2>20. ASSUME NEW a \in Attempts, Promote(a) PROVE TypeOK'
      BY <2>20 DEF Promote, IsReservation, Goto
  <2>21. ASSUME NEW a \in Attempts, HeadlessHandshakeFails(a) PROVE TypeOK'
      BY <2>21 DEF HeadlessHandshakeFails, CloseChild, Closing, Goto
  <2>22. ASSUME NEW a \in Attempts, HeadlessReady(a) PROVE TypeOK'
      BY <2>22 DEF HeadlessReady, Goto
  <2>23. ASSUME NEW a \in Attempts, AdoptFails(a) PROVE TypeOK'
      BY <2>23 DEF AdoptFails, Swept, CloseChild, Closing, Goto, Unlatch
  <2>24. ASSUME NEW a \in Attempts, Adopted(a) PROVE TypeOK'
      BY <2>24 DEF Adopted, Swept, KeyTaken, CloseChild, Closing, Goto, Unlatch
  <2>25. ASSUME NEW a \in Attempts, Age(a) PROVE TypeOK'
      BY <2>25 DEF Age
  <2>26. ASSUME NEW a \in Attempts, ChildExits(a) PROVE TypeOK'
      BY <2>26 DEF ChildExits
  <2>27. ASSUME NEW a \in Attempts, ChildDies(a) PROVE TypeOK'
      BY <2>27 DEF ChildDies
  <2>28. ASSUME NEW c \in Conns, EndSession(c) PROVE TypeOK'
      BY <2>28 DEF EndSession, Release, RemoveKey, CloseChild, Closing, Goto
  <2>29. ASSUME NEW c \in Conns, Overflow(c) PROVE TypeOK'
      BY <2>29 DEF Overflow, Release, RemoveKey, CloseChild, Closing
  <2>30. ASSUME NEW c \in Conns, SocketClosed(c) PROVE TypeOK'
      BY <2>30 DEF SocketClosed, Release, RemoveKey, CloseChild, Closing
  <2>31. CASE UNCHANGED vars
    BY <2>31 DEF vars
  <2> QED
    BY <2>1, <2>2, <2>3, <2>4, <2>5, <2>6, <2>7, <2>8, <2>9, <2>10, <2>11,
       <2>12, <2>13, <2>14, <2>15, <2>16, <2>17, <2>18, <2>19, <2>20,
       <2>21, <2>22, <2>23, <2>24, <2>25, <2>26, <2>27, <2>28, <2>29,
       <2>30, <2>31
       DEF Next, OpenFlow, LoadFlow, HarnessAnswers
<1> QED
  BY <1>1, <1>2, PTL DEF Spec

----------------------------------------------------------------------------
(* The inductive invariant *)

(* A seat is held by the connection that opened it, once it is promoted.   *)
HeldByOwner ==
  \A c \in Conns : held[c] # NoAttempt =>
    /\ owner[held[c]] = c
    /\ phase[held[c]] \in {"create", "live"}

KeysDisjoint ==
  \A p \in Projects : active[p] = NoAttempt \/ provisional[p] = NoAttempt

(* An open that reserved its key still has it, unless it was too slow or   *)
(* somebody deleted it.                                                    *)
ReservationKept ==
  \A a \in Attempts : phase[a] \in Reserving =>
    provisional[project[a]] = a \/ a \in aged \/ a \in displaced

(* The read slot of a load that has not finished.                          *)
SlotHeld == \A a \in Attempts : phase[a] \in LoadPhases => a \in headless

SeatInv ==
  /\ TypeOK
  /\ NoGhostEntries
  /\ KeysDisjoint
  /\ HeldIsCounted
  /\ HeldByOwner
  /\ LatchedOnce
  /\ ReservationKept
  /\ NoOrphanChild
  /\ SlotHeld

LEMMA SeatInvInit == Init => SeatInv
  BY NoAttemptIsNull DEF Init, SeatInv, TypeOK, Phases, ChildStates, NoGhostEntries,
    KeysDisjoint, HeldIsCounted, HeldByOwner, LatchedOnce, ReservationKept,
    NoOrphanChild, SlotHeld, Latched, Reserving, OpenPhases, LoadPhases

LEMMA SeatInvStep == SeatInv /\ TypeOK' /\ [Next]_vars => SeatInv'
<1> SUFFICES ASSUME SeatInv, TypeOK', [Next]_vars PROVE SeatInv'
  OBVIOUS
<1> USE NoAttemptIsNull
    DEF TypeOK, poolVars, connVars, idVars, Phases, OpenPhases, LoadPhases,
        ChildStates, Latched, Reserving, SeatInv, NoGhostEntries, KeysDisjoint,
        HeldIsCounted, HeldByOwner, LatchedOnce, ReservationKept,
        NoOrphanChild, SlotHeld
<1>1. ASSUME NEW a \in Attempts, OpenSession(a) PROVE SeatInv'
    BY <1>1 DEF OpenSession, Latch, Goto
<1>2. ASSUME NEW a \in Attempts, LoadSession(a) PROVE SeatInv'
    BY <1>2 DEF LoadSession, Latch, Goto, HeadlessFull
<1>3. ASSUME NEW a \in Attempts, GateRefuses(a) PROVE SeatInv'
    BY <1>3 DEF GateRefuses, Goto, Unlatch
<1>4. ASSUME NEW a \in Attempts, ReserveRefused(a) PROVE SeatInv'
    BY <1>4 DEF ReserveRefused, Swept, Goto, Unlatch
<1>5. ASSUME NEW a \in Attempts, Reserve(a) PROVE SeatInv'
    BY <1>5 DEF Reserve, Swept, KeyTaken, Goto
<1>6. ASSUME NEW a \in Attempts, SpawnFails(a) PROVE SeatInv'
    BY <1>6 DEF SpawnFails, RemoveKey, Goto, Unlatch
<1>7. ASSUME NEW a \in Attempts, Spawned(a) PROVE SeatInv'
    BY <1>7 DEF Spawned, Goto
<1>8. ASSUME NEW a \in Attempts, OpenUnwinds(a) PROVE SeatInv'
    BY <1>8 DEF OpenUnwinds, RemoveKey, Goto, Unlatch
<1>9. ASSUME NEW a \in Attempts, UnwindDone(a) PROVE SeatInv'
    BY <1>9 DEF UnwindDone, Goto, Unlatch
<1>10. ASSUME NEW a \in Attempts, Opened(a) PROVE SeatInv'
    BY <1>10 DEF Opened, Goto, Unlatch
<1>11. ASSUME NEW a \in Attempts, CreateFails(a) PROVE SeatInv'
    BY <1>11 DEF CreateFails, Release, RemoveKey, CloseChild, Closing, Goto, Unlatch
<1>12. ASSUME NEW a \in Attempts, Unclaimed(a) PROVE SeatInv'
    BY <1>12 DEF Unclaimed, CloseChild, Closing, Goto
<1>13. ASSUME NEW a \in Attempts, UnclaimedDone(a) PROVE SeatInv'
    BY <1>13 DEF UnclaimedDone, RemoveKey, Goto, Unlatch
<1>14. ASSUME NEW a \in Attempts, HeadlessRefused(a) PROVE SeatInv'
    BY <1>14 DEF HeadlessRefused, Goto, Unlatch
<1>15. ASSUME NEW a \in Attempts, HeadlessSpawned(a) PROVE SeatInv'
    BY <1>15 DEF HeadlessSpawned, Goto
<1>16. ASSUME NEW a \in Attempts, HeadlessUnwinds(a) PROVE SeatInv'
    BY <1>16 DEF HeadlessUnwinds, Goto, Unlatch
<1>17. ASSUME NEW a \in Attempts, HeadlessClosed(a) PROVE SeatInv'
    BY <1>17 DEF HeadlessClosed, Goto
<1>18. ASSUME NEW a \in Attempts, HandshakeFails(a) PROVE SeatInv'
    BY <1>18 DEF HandshakeFails, CloseChild, Closing, Goto
<1>19. ASSUME NEW a \in Attempts, PromoteRefused(a) PROVE SeatInv'
    BY <1>19 DEF PromoteRefused, IsReservation, RemoveKey, CloseChild, Closing, Goto
<1>20. ASSUME NEW a \in Attempts, Promote(a) PROVE SeatInv'
    BY <1>20 DEF Promote, IsReservation, Goto
<1>21. ASSUME NEW a \in Attempts, HeadlessHandshakeFails(a) PROVE SeatInv'
    BY <1>21 DEF HeadlessHandshakeFails, CloseChild, Closing, Goto
<1>22. ASSUME NEW a \in Attempts, HeadlessReady(a) PROVE SeatInv'
    BY <1>22 DEF HeadlessReady, Goto
<1>23. ASSUME NEW a \in Attempts, AdoptFails(a) PROVE SeatInv'
    BY <1>23 DEF AdoptFails, Swept, CloseChild, Closing, Goto, Unlatch
<1>24. ASSUME NEW a \in Attempts, Adopted(a) PROVE SeatInv'
    BY <1>24 DEF Adopted, Swept, KeyTaken, CloseChild, Closing, Goto, Unlatch
<1>25. ASSUME NEW a \in Attempts, Age(a) PROVE SeatInv'
    BY <1>25 DEF Age
<1>26. ASSUME NEW a \in Attempts, ChildExits(a) PROVE SeatInv'
    BY <1>26 DEF ChildExits
<1>27. ASSUME NEW a \in Attempts, ChildDies(a) PROVE SeatInv'
    BY <1>27 DEF ChildDies
<1>28. ASSUME NEW c \in Conns, EndSession(c) PROVE SeatInv'
    BY <1>28 DEF EndSession, Release, RemoveKey, CloseChild, Closing, Goto
<1>29. ASSUME NEW c \in Conns, Overflow(c) PROVE SeatInv'
    BY <1>29 DEF Overflow, Release, RemoveKey, CloseChild, Closing
<1>30. ASSUME NEW c \in Conns, SocketClosed(c) PROVE SeatInv'
    BY <1>30 DEF SocketClosed, Release, RemoveKey, CloseChild, Closing
<1>31. CASE UNCHANGED vars
  BY <1>31 DEF vars
<1> QED
  BY <1>1, <1>2, <1>3, <1>4, <1>5, <1>6, <1>7, <1>8, <1>9, <1>10, <1>11,
     <1>12, <1>13, <1>14, <1>15, <1>16, <1>17, <1>18, <1>19, <1>20,
     <1>21, <1>22, <1>23, <1>24, <1>25, <1>26, <1>27, <1>28, <1>29,
     <1>30, <1>31
     DEF Next, OpenFlow, LoadFlow, HarnessAnswers

LEMMA SeatInvariant == Spec => []SeatInv
  BY SeatInvInit, SeatInvStep, TypeCorrect, PTL DEF Spec

(* No cap slot is ever leaked.                                             *)
THEOREM NoSlotLeaked == Spec => []NoGhostEntries
  BY SeatInvariant, PTL DEF SeatInv

(* A held seat is counted, unless its entry was deleted by another.        *)
THEOREM HeldSeatsAreCounted == Spec => []HeldIsCounted
  BY SeatInvariant, PTL DEF SeatInv

(* No harness process is without somebody to reap it.                      *)
THEOREM NoChildIsOrphaned == Spec => []NoOrphanChild
  BY SeatInvariant, PTL DEF SeatInv

----------------------------------------------------------------------------
(* Deletions *)

(* What remove() can delete besides the caller's own entry.                *)
LEMMA RemoveKeyBlames ==
  ASSUME SeatInv, NEW a \in Attempts, RemoveKey(a),
         \/ phase[a] \in Reserving
         \/ phase[a] = "unclaimed"
         \/ held[owner[a]] = a
  PROVE  DeletionBlamed
<1> SUFFICES ASSUME NEW b \in displaced' \ displaced
             PROVE  /\ a # b
                    /\ project[a] = project[b]
                    /\ a \in aged \/ a \in displaced \/ phase[a] = "unclaimed"
  BY DEF DeletionBlamed
<1>1. b \in {provisional[project[a]], active[project[a]]} \ {a, NoAttempt}
  BY DEF RemoveKey
<1>2. a # b /\ project[a] = project[b]
  BY <1>1 DEF SeatInv, TypeOK, NoGhostEntries
<1>3. project[a] \in Projects /\ a # NoAttempt
  BY NoAttemptIsNull DEF SeatInv, TypeOK
<1>4. CASE phase[a] \in Reserving
  <2>1. provisional[project[a]] = a \/ a \in aged \/ a \in displaced
    BY <1>4 DEF SeatInv, ReservationKept
  <2>2. provisional[project[a]] = a => active[project[a]] = NoAttempt
    BY <1>3 DEF SeatInv, KeysDisjoint
  <2> QED
    BY <1>1, <1>2, <2>1, <2>2
<1>5. CASE held[owner[a]] = a
  <2>1. active[project[a]] = a \/ a \in displaced
    BY <1>3, <1>5 DEF SeatInv, TypeOK, HeldIsCounted
  <2>2. active[project[a]] = a => provisional[project[a]] = NoAttempt
    BY <1>3 DEF SeatInv, KeysDisjoint
  <2> QED
    BY <1>1, <1>2, <2>1, <2>2
<1> QED
  BY <1>2, <1>4, <1>5

(* Nobody's entry is deleted but on behalf of an expired, displaced or     *)
(* unclaimed attempt.                                                      *)
THEOREM DeletionsHaveACause == Spec => DisplacedOnlyByStale
<1>1. SeatInv /\ [Next]_vars => DeletionBlamed
  <2> SUFFICES ASSUME SeatInv, [Next]_vars PROVE DeletionBlamed
    OBVIOUS
  <2>1. ASSUME NEW c \in Conns, held[c] # NoAttempt, Release(c) PROVE DeletionBlamed
    <3>1. held[c] \in Attempts /\ held[owner[held[c]]] = held[c]
      BY <2>1 DEF SeatInv, TypeOK, HeldByOwner
    <3> QED
      BY <2>1, <3>1, RemoveKeyBlames DEF Release
  <2>2. ASSUME NEW a \in Attempts, SpawnFails(a) PROVE DeletionBlamed
    BY <2>2, RemoveKeyBlames DEF SpawnFails, Reserving
  <2>3. ASSUME NEW a \in Attempts, OpenUnwinds(a) PROVE DeletionBlamed
    BY <2>3, RemoveKeyBlames DEF OpenUnwinds, Reserving
  <2>4. ASSUME NEW a \in Attempts, CreateFails(a) PROVE DeletionBlamed
    BY <2>4, <2>1, NoAttemptIsNull DEF DeletionBlamed, CreateFails, poolVars, SeatInv, TypeOK
  <2>5. ASSUME NEW a \in Attempts, UnclaimedDone(a) PROVE DeletionBlamed
    BY <2>5, RemoveKeyBlames DEF UnclaimedDone
  <2>6. ASSUME NEW a \in Attempts, PromoteRefused(a) PROVE DeletionBlamed
    BY <2>6, RemoveKeyBlames DEF PromoteRefused, Reserving
  <2>7. ASSUME NEW c \in Conns, EndSession(c) PROVE DeletionBlamed
    BY <2>7, <2>1 DEF EndSession
  <2>8. ASSUME NEW c \in Conns, Overflow(c) PROVE DeletionBlamed
    BY <2>8, <2>1 DEF Overflow
  <2>9. ASSUME NEW c \in Conns, SocketClosed(c) PROVE DeletionBlamed
    BY <2>9, <2>1 DEF DeletionBlamed, SocketClosed, poolVars
  <2>10. ASSUME NEW a \in Attempts,
                OpenSession(a) \/ LoadSession(a) \/
                GateRefuses(a) \/ ReserveRefused(a) \/
                Reserve(a) \/ Spawned(a) \/ UnwindDone(a) \/
                Opened(a) \/ Unclaimed(a) \/
                HeadlessRefused(a) \/ HeadlessSpawned(a) \/
                HeadlessUnwinds(a) \/ HeadlessClosed(a) \/
                HandshakeFails(a) \/ Promote(a) \/
                HeadlessHandshakeFails(a) \/ HeadlessReady(a)
                \/ AdoptFails(a) \/ Adopted(a) \/ Age(a) \/
                ChildExits(a) \/ ChildDies(a)
         PROVE  DeletionBlamed
    BY <2>10 DEF DeletionBlamed, poolVars, OpenSession, LoadSession,
       GateRefuses, ReserveRefused, Reserve, Spawned, UnwindDone,
       Opened, Unclaimed, HeadlessRefused, HeadlessSpawned,
       HeadlessUnwinds, HeadlessClosed, HandshakeFails, Promote,
       HeadlessHandshakeFails, HeadlessReady, AdoptFails, Adopted,
       Age, ChildExits, ChildDies
  <2>11. CASE UNCHANGED vars
    BY <2>11 DEF DeletionBlamed, vars
  <2> QED
    BY <2>2, <2>3, <2>4, <2>5, <2>6, <2>7, <2>8, <2>9, <2>10, <2>11
       DEF Next, OpenFlow, LoadFlow, HarnessAnswers
<1> QED
  BY <1>1, SeatInvariant, PTL DEF Spec, DisplacedOnlyByStale

(* A connection runs one open or load at a time, and none beside a seat.   *)
THEOREM OneOpenPerConnection == Spec => []LatchedOnce
  BY SeatInvariant, PTL DEF SeatInv

(* A connection gives up a seat before it has another.                     *)
THEOREM SeatsAreNeverReplaced == Spec => SeatNeverReplaced
<1>1. SeatInv /\ [Next]_vars => SeatKept
  <2> SUFFICES ASSUME SeatInv, [Next]_vars PROVE SeatKept
    OBVIOUS
  <2>1. ASSUME NEW c \in Conns, Release(c) PROVE SeatKept
    BY <2>1 DEF SeatKept, Release, SeatInv, TypeOK
  <2>2. ASSUME NEW a \in Attempts, Promote(a) PROVE SeatKept
    BY <2>2 DEF SeatKept, Promote, SeatInv, TypeOK, LatchedOnce, HeldByOwner, Latched, OpenPhases
  <2>3. ASSUME NEW a \in Attempts, Adopted(a) PROVE SeatKept
    BY <2>3 DEF SeatKept, Adopted, SeatInv, TypeOK, LatchedOnce, HeldByOwner, Latched, LoadPhases
  <2>4. ASSUME NEW a \in Attempts, CreateFails(a) PROVE SeatKept
    BY <2>4, <2>1 DEF SeatKept, CreateFails, SeatInv, TypeOK
  <2>5. ASSUME NEW c \in Conns, EndSession(c) \/ Overflow(c) \/ SocketClosed(c) PROVE SeatKept
    BY <2>5, <2>1 DEF SeatKept, EndSession, Overflow, SocketClosed
  <2>6. ASSUME NEW a \in Attempts,
                OpenSession(a) \/ LoadSession(a) \/
                GateRefuses(a) \/ ReserveRefused(a) \/
                Reserve(a) \/ SpawnFails(a) \/ Spawned(a) \/
                OpenUnwinds(a) \/ UnwindDone(a) \/ Opened(a)
                \/ Unclaimed(a) \/ UnclaimedDone(a) \/
                HeadlessRefused(a) \/ HeadlessSpawned(a) \/
                HeadlessUnwinds(a) \/ HeadlessClosed(a) \/
                HandshakeFails(a) \/ PromoteRefused(a) \/
                HeadlessHandshakeFails(a) \/ HeadlessReady(a)
                \/ AdoptFails(a) \/ Age(a) \/ ChildExits(a) \/
                ChildDies(a)
         PROVE  SeatKept
    BY <2>6 DEF SeatKept, connVars, OpenSession, LoadSession,
       GateRefuses, ReserveRefused, Reserve, SpawnFails, Spawned,
       OpenUnwinds, UnwindDone, Opened, Unclaimed, UnclaimedDone,
       HeadlessRefused, HeadlessSpawned, HeadlessUnwinds,
       HeadlessClosed, HandshakeFails, PromoteRefused,
       HeadlessHandshakeFails, HeadlessReady, AdoptFails, Age,
       ChildExits, ChildDies
  <2>7. CASE UNCHANGED vars
    BY <2>7 DEF SeatKept, vars
  <2> QED
    BY <2>2, <2>3, <2>4, <2>5, <2>6, <2>7
       DEF Next, OpenFlow, LoadFlow, HarnessAnswers
<1> QED
  BY <1>1, SeatInvariant, PTL DEF Spec, SeatNeverReplaced
----------------------------------------------------------------------------
(* The caps *)

LEMMA TakenFinite ==
  ASSUME NEW map
  PROVE  IsFiniteSet(Taken(map)) /\ Cardinality(Taken(map)) \in Nat
  BY ProjectsFinite, FS_Subset, FS_CardinalityType DEF Taken

LEMMA FewerTaken ==
  ASSUME NEW map, NEW less, Taken(less) \subseteq Taken(map)
  PROVE  Cardinality(Taken(less)) <= Cardinality(Taken(map))
  BY TakenFinite, FS_Subset

LEMMA OneMoreTaken ==
  ASSUME NEW map, NEW more, NEW p, p \notin Taken(map),
         Taken(more) = Taken(map) \cup {p}
  PROVE  Cardinality(Taken(more)) = Cardinality(Taken(map)) + 1
  BY TakenFinite, FS_AddElement

LEMMA OneLessTaken ==
  ASSUME NEW map, NEW less, NEW p, p \in Taken(map),
         Taken(less) = Taken(map) \ {p}
  PROVE  Cardinality(Taken(less)) = Cardinality(Taken(map)) - 1
  BY TakenFinite, FS_RemoveElement

LEMMA CapStep == SeatInv /\ SeatInv' /\ PoolWithinCap /\ [Next]_vars => PoolWithinCap'
<1> SUFFICES ASSUME SeatInv, SeatInv', PoolWithinCap, [Next]_vars
             PROVE  PoolWithinCap'
  OBVIOUS
<1> DEFINE Size == Cardinality(Taken(active)) + Cardinality(Taken(provisional))
<1>1. /\ Cardinality(Taken(active)) \in Nat
      /\ Cardinality(Taken(provisional)) \in Nat
      /\ Cardinality(Taken(active')) \in Nat
      /\ Cardinality(Taken(provisional')) \in Nat
      /\ Cardinality(Taken(Swept)) \in Nat
      /\ Size <= MaxSeats
      /\ MaxSeats \in Nat
  BY TakenFinite, CapsAreNaturals DEF PoolWithinCap
<1>2. Taken(active') \cap Taken(provisional') = {}
  BY DEF SeatInv, KeysDisjoint, Taken
<1>3. Taken(Swept) \subseteq Taken(provisional)
  BY DEF Taken, Swept
<1>4. ASSUME /\ Taken(active') \subseteq Taken(active)
             /\ Taken(provisional') \subseteq Taken(provisional)
      PROVE  PoolWithinCap'
  BY <1>1, <1>2, <1>4, FewerTaken DEF PoolWithinCap
<1>5. ASSUME NEW a \in Attempts, RemoveKey(a) PROVE PoolWithinCap'
  BY <1>4, <1>5 DEF RemoveKey, Taken, SeatInv, TypeOK
<1>6. ASSUME UNCHANGED <<active, provisional>> PROVE PoolWithinCap'
  BY <1>4, <1>6 DEF Taken
<1>7. ASSUME provisional' = Swept, UNCHANGED active PROVE PoolWithinCap'
  BY <1>3, <1>4, <1>7 DEF Taken
<1>8. ASSUME NEW a \in Attempts, Reserve(a) PROVE PoolWithinCap'
  <2>1. project[a] \notin Taken(Swept)
    BY <1>8 DEF Reserve, KeyTaken, Taken
  <2>2. Taken(provisional') = Taken(Swept) \cup {project[a]}
    BY <1>8, NoAttemptIsNull DEF Reserve, Swept, Taken, SeatInv, TypeOK
  <2>3. Cardinality(Taken(provisional')) = Cardinality(Taken(Swept)) + 1
    BY <2>1, <2>2, OneMoreTaken
  <2>4. ~(Cardinality(Taken(active)) + Cardinality(Taken(Swept)) >= MaxSeats)
    BY <1>8 DEF Reserve, CapReached
  <2>5. Taken(active') = Taken(active)
    BY <1>8 DEF Reserve, Taken
  <2> QED
    BY <1>1, <1>2, <2>3, <2>4, <2>5 DEF PoolWithinCap
<1>9. ASSUME NEW a \in Attempts, Promote(a) PROVE PoolWithinCap'
  <2>1. project[a] \in Taken(provisional) /\ project[a] \notin Taken(active)
    BY <1>9, NoAttemptIsNull DEF Promote, IsReservation, Taken, SeatInv, TypeOK, KeysDisjoint
  <2>2. Taken(provisional') = Taken(provisional) \ {project[a]}
    BY <1>9 DEF Promote, Taken, SeatInv, TypeOK
  <2>3. Taken(active') = Taken(active) \cup {project[a]}
    BY <1>9, NoAttemptIsNull DEF Promote, Taken, SeatInv, TypeOK
  <2>4. /\ Cardinality(Taken(provisional')) = Cardinality(Taken(provisional)) - 1
        /\ Cardinality(Taken(active')) = Cardinality(Taken(active)) + 1
    BY <2>1, <2>2, <2>3, OneMoreTaken, OneLessTaken
  <2> QED
    BY <1>1, <1>2, <2>4 DEF PoolWithinCap
<1>10. ASSUME NEW a \in Attempts, Adopted(a) PROVE PoolWithinCap'
  <2>1. CASE owner[a] \in closed
    BY <1>7, <1>10, <2>1 DEF Adopted
  <2>2. CASE owner[a] \notin closed
    <3>1. project[a] \notin Taken(active)
      BY <1>10 DEF Adopted, KeyTaken, Taken
    <3>2. Taken(active') = Taken(active) \cup {project[a]}
      BY <1>10, <2>2, NoAttemptIsNull DEF Adopted, Taken, SeatInv, TypeOK
    <3>3. Cardinality(Taken(active')) = Cardinality(Taken(active)) + 1
      BY <3>1, <3>2, OneMoreTaken
    <3>4. ~(Cardinality(Taken(active)) + Cardinality(Taken(Swept)) >= MaxSeats)
      BY <1>10 DEF Adopted, CapReached
    <3>5. Taken(provisional') = Taken(Swept)
      BY <1>10 DEF Adopted, Taken
    <3> QED
      BY <1>1, <1>2, <3>3, <3>4, <3>5 DEF PoolWithinCap
  <2> QED
    BY <2>1, <2>2
<1>11. ASSUME NEW a \in Attempts,
              SpawnFails(a) \/ OpenUnwinds(a) \/ PromoteRefused(a) \/ UnclaimedDone(a)
       PROVE  PoolWithinCap'
  BY <1>5, <1>11 DEF SpawnFails, OpenUnwinds, PromoteRefused, UnclaimedDone
<1>12. ASSUME NEW c \in Conns, held[c] # NoAttempt, Release(c) PROVE PoolWithinCap'
  BY <1>5, <1>12 DEF Release, SeatInv, TypeOK
<1>13. ASSUME NEW c \in Conns, EndSession(c) \/ Overflow(c) \/ SocketClosed(c)
       PROVE  PoolWithinCap'
  BY <1>6, <1>12, <1>13 DEF EndSession, Overflow, SocketClosed, poolVars
<1>14. ASSUME NEW a \in Attempts, CreateFails(a) PROVE PoolWithinCap'
  BY <1>6, <1>12, <1>14, NoAttemptIsNull DEF CreateFails, poolVars, SeatInv, TypeOK
<1>15. ASSUME NEW a \in Attempts, ReserveRefused(a) \/ AdoptFails(a) PROVE PoolWithinCap'
  BY <1>6, <1>7, <1>15 DEF ReserveRefused, AdoptFails
<1>16. ASSUME NEW a \in Attempts,
              \/ OpenSession(a) \/ LoadSession(a) \/ GateRefuses(a) \/ Spawned(a)
              \/ UnwindDone(a) \/ Opened(a) \/ Unclaimed(a) \/ HeadlessRefused(a)
              \/ HeadlessSpawned(a) \/ HeadlessUnwinds(a) \/ HeadlessClosed(a)
              \/ HandshakeFails(a) \/ HeadlessHandshakeFails(a) \/ HeadlessReady(a)
              \/ Age(a) \/ ChildExits(a) \/ ChildDies(a)
       PROVE  PoolWithinCap'
  BY <1>6, <1>16
     DEF OpenSession, LoadSession, GateRefuses, Spawned, UnwindDone, Opened,
         Unclaimed, HeadlessRefused, HeadlessSpawned, HeadlessUnwinds,
         HeadlessClosed, HandshakeFails, HeadlessHandshakeFails, HeadlessReady,
         Age, ChildExits, ChildDies, poolVars
<1>17. CASE UNCHANGED vars
  BY <1>6, <1>17 DEF vars
<1> QED
  BY <1>8, <1>9, <1>10, <1>11, <1>13, <1>14, <1>15, <1>16, <1>17
     DEF Next, OpenFlow, LoadFlow, HarnessAnswers

(* The pool never exceeds its cap and no key is in both of its maps.       *)
THEOREM PoolStaysWithinCap == Spec => []PoolWithinCap
<1>1. Init => PoolWithinCap
  <2> SUFFICES ASSUME Init PROVE PoolWithinCap
    OBVIOUS
  <2>1. Taken(active) = {} /\ Taken(provisional) = {}
    BY DEF Init, Taken
  <2> QED
    BY <2>1, FS_EmptySet, CapsAreNaturals DEF PoolWithinCap
<1> QED
  BY <1>1, CapStep, SeatInvariant, PTL DEF Spec

(* The read path never has more harness processes than its own cap.        *)
THEOREM HeadlessStaysBounded == Spec => []HeadlessBounded
<1> DEFINE Few == Cardinality(headless) <= MaxHeadless
<1>1. Init => Few
  BY FS_EmptySet, CapsAreNaturals DEF Init
<1>2. SeatInv /\ SeatInv' /\ Few /\ [Next]_vars => Few'
  <2> SUFFICES ASSUME SeatInv, SeatInv', Few, [Next]_vars PROVE Few'
    OBVIOUS
  <2>1. IsFiniteSet(headless) /\ Cardinality(headless) \in Nat /\ MaxHeadless \in Nat
    BY AttemptsFinite, FS_Subset, FS_CardinalityType, CapsAreNaturals DEF SeatInv, TypeOK
  <2>2. ASSUME headless' \subseteq headless PROVE Few'
    <3>1. Cardinality(headless') \in Nat /\ Cardinality(headless') <= Cardinality(headless)
      BY <2>1, <2>2, FS_Subset, FS_CardinalityType
    <3> QED
      BY <2>1, <3>1
  <2>3. ASSUME NEW a \in Attempts, LoadSession(a) PROVE Few'
    <3>1. ~(Cardinality(headless) >= MaxHeadless) /\ headless' = headless \cup {a}
      BY <2>3 DEF LoadSession, HeadlessFull
    <3>2. Cardinality(headless') \in {Cardinality(headless), Cardinality(headless) + 1}
      BY <2>1, <3>1, FS_AddElement
    <3> QED
      BY <2>1, <3>1, <3>2
  <2>4. ASSUME NEW a \in Attempts,
               \/ OpenFlow(a) \/ LoadFlow(a) \/ HarnessAnswers(a)
               \/ OpenSession(a) \/ Age(a) \/ ChildExits(a) \/ ChildDies(a)
        PROVE  headless' \subseteq headless
    BY <2>4
       DEF OpenFlow, LoadFlow, HarnessAnswers, OpenSession, GateRefuses,
           ReserveRefused, Reserve, SpawnFails, Spawned, OpenUnwinds, UnwindDone,
           Opened, CreateFails, Unclaimed, UnclaimedDone, HeadlessRefused,
           HeadlessSpawned, HeadlessUnwinds, HeadlessClosed, HandshakeFails,
           PromoteRefused, Promote, HeadlessHandshakeFails, HeadlessReady,
           AdoptFails, Adopted, Age, ChildExits, ChildDies
  <2>5. ASSUME NEW c \in Conns, EndSession(c) \/ Overflow(c) \/ SocketClosed(c)
        PROVE  headless' \subseteq headless
    BY <2>5 DEF EndSession, Overflow, SocketClosed
  <2>6. CASE UNCHANGED vars
    BY <2>2, <2>6 DEF vars
  <2> HIDE DEF Few
  <2> QED
    BY <2>2, <2>3, <2>4, <2>5, <2>6 DEF Next
<1>3. SeatInv /\ Few => HeadlessBounded
  BY DEF SeatInv, SlotHeld, HeadlessBounded
<1> HIDE DEF Few
<1> QED
  BY <1>1, <1>2, <1>3, SeatInvariant, PTL DEF Spec
----------------------------------------------------------------------------
(* Refinement: the pool is the slot table *)

(* The keys whose reservation the sweep would drop.                        *)
Stale == {p \in Projects : active[p] = NoAttempt /\ provisional[p] \in aged}

LEMMA SweptIsWithout ==
  ASSUME SeatInv
  PROVE  /\ Table!Without(Stale) =
              [p \in Projects |-> IF active[p] # NoAttempt THEN active[p] ELSE Swept[p]]
         /\ Cardinality(Table!Held(Table!Without(Stale))) =
              Cardinality(Taken(active)) + Cardinality(Taken(Swept))
<1>1. Table!Without(Stale) =
        [p \in Projects |-> IF active[p] # NoAttempt THEN active[p] ELSE Swept[p]]
  BY DEF Table!Without, Stale, Holder, Swept, SeatInv, TypeOK
<1>2. Table!Held(Table!Without(Stale)) = Taken(active) \cup Taken(Swept)
  BY <1>1 DEF Table!Held, Taken
<1>3. Taken(active) \cap Taken(Swept) = {}
  BY DEF Taken, Swept, SeatInv, TypeOK, KeysDisjoint
<1>4. Cardinality(Taken(active) \cup Taken(Swept)) =
        Cardinality(Taken(active)) + Cardinality(Taken(Swept)) - Cardinality({})
  BY <1>3, TakenFinite, FS_Union
<1>5. Cardinality({}) = 0
  BY FS_EmptySet
<1>6. Cardinality(Taken(active)) \in Nat /\ Cardinality(Taken(Swept)) \in Nat
  BY TakenFinite
<1>7. Cardinality(Taken(active) \cup Taken(Swept)) =
        Cardinality(Taken(active)) + Cardinality(Taken(Swept))
  BY <1>4, <1>5, <1>6
<1> QED
  BY <1>1, <1>2, <1>7

(* A step of the table, or none.                                           *)
TableMove == [Table!Next]_<<Holder, aged>>

LEMMA TableStep == SeatInv /\ SeatInv' /\ [Next]_vars => TableMove
<1> SUFFICES ASSUME SeatInv, SeatInv', [Next]_vars PROVE TableMove
  OBVIOUS
<1>1. ASSUME UNCHANGED <<provisional, active, aged>> PROVE TableMove
  BY <1>1 DEF TableMove, Holder
<1>2. ASSUME NEW K \in SUBSET Projects, Holder' = Table!Without(K), UNCHANGED aged
      PROVE  TableMove
  BY <1>2 DEF TableMove, Table!Next, Table!Drop
<1>3. ASSUME NEW a \in Attempts, RemoveKey(a) PROVE TableMove
  <2>1. Holder' = Table!Without({project[a]})
    BY <1>3 DEF RemoveKey, Holder, Table!Without, SeatInv, TypeOK
  <2>2. project[a] \in Projects /\ UNCHANGED aged
    BY <1>3 DEF RemoveKey, SeatInv, TypeOK
  <2> QED
    BY <1>2, <2>1, <2>2
<1>4. ASSUME provisional' = Swept, UNCHANGED <<active, aged>> PROVE TableMove
  <2>1. Holder' = Table!Without(Stale)
    BY <1>4, SweptIsWithout DEF Holder
  <2> QED
    BY <1>2, <1>4, <2>1 DEF Stale
<1>5. ASSUME NEW a \in Attempts, ~KeyTaken(project[a]), ~CapReached, UNCHANGED aged,
             Holder' = [Table!Without(Stale) EXCEPT ![project[a]] = a]
      PROVE  TableMove
  <2>1. Cardinality(Table!Held(Table!Without(Stale))) < MaxSeats
    BY <1>5, SweptIsWithout, TakenFinite, CapsAreNaturals DEF CapReached
  <2>2. project[a] \in Projects
    BY DEF SeatInv, TypeOK
  <2>3. Table!Without(Stale)[project[a]] = NoAttempt
    BY <1>5, <2>2, SweptIsWithout DEF KeyTaken
  <2>4. \A p \in Stale : Holder[p] \in aged
    BY DEF Stale, Holder
  <2>5. Table!Acquire(project[a], a, Stale)
    BY <1>5, <2>1, <2>3, <2>4 DEF Table!Acquire, Table!Cardinality, Cardinality
  <2> QED
    BY <2>2, <2>5 DEF TableMove, Table!Next, Stale
<1>6. ASSUME NEW a \in Attempts, Reserve(a) PROVE TableMove
  <2>1. project[a] \in Projects /\ active[project[a]] = NoAttempt
    BY <1>6 DEF Reserve, KeyTaken, SeatInv, TypeOK
  <2>2. Holder' = [Table!Without(Stale) EXCEPT ![project[a]] = a]
    BY <1>6, <2>1, SweptIsWithout DEF Reserve, Holder, Swept
  <2> QED
    BY <1>5, <1>6, <2>2 DEF Reserve
<1>7. ASSUME NEW a \in Attempts, Promote(a) PROVE TableMove
  <2>1. active[project[a]] = NoAttempt /\ project[a] \in Projects /\ a # NoAttempt
    BY <1>7, NoAttemptIsNull DEF Promote, IsReservation, SeatInv, TypeOK, KeysDisjoint
  <2>2. Holder' = Holder
    BY <1>7, <2>1 DEF Promote, IsReservation, Holder, SeatInv, TypeOK
  <2> QED
    BY <1>7, <2>2 DEF TableMove, Promote
<1>8. ASSUME NEW a \in Attempts, Adopted(a) PROVE TableMove
  <2>1. CASE owner[a] \in closed
    BY <1>4, <1>8, <2>1 DEF Adopted
  <2>2. CASE owner[a] \notin closed
    <3>1. project[a] \in Projects /\ a # NoAttempt
      BY NoAttemptIsNull DEF SeatInv, TypeOK
    <3>2. Holder' = [Table!Without(Stale) EXCEPT ![project[a]] = a]
      BY <1>8, <2>2, <3>1, SweptIsWithout DEF Adopted, Holder, SeatInv, TypeOK
    <3> QED
      BY <1>5, <1>8, <3>2 DEF Adopted
  <2> QED
    BY <2>1, <2>2
<1>9. ASSUME NEW a \in Attempts, Age(a) PROVE TableMove
  BY <1>9 DEF TableMove, Age, Holder, Table!Next, Table!Expire
<1>10. ASSUME NEW a \in Attempts,
              SpawnFails(a) \/ OpenUnwinds(a) \/ PromoteRefused(a) \/ UnclaimedDone(a)
       PROVE  TableMove
  BY <1>3, <1>10 DEF SpawnFails, OpenUnwinds, PromoteRefused, UnclaimedDone
<1>11. ASSUME NEW c \in Conns, held[c] # NoAttempt, Release(c) PROVE TableMove
  BY <1>3, <1>11 DEF Release, SeatInv, TypeOK
<1>12. ASSUME NEW c \in Conns, EndSession(c) \/ Overflow(c) \/ SocketClosed(c) PROVE TableMove
  BY <1>1, <1>11, <1>12 DEF EndSession, Overflow, SocketClosed, poolVars
<1>13. ASSUME NEW a \in Attempts, CreateFails(a) PROVE TableMove
  BY <1>1, <1>11, <1>13, NoAttemptIsNull DEF CreateFails, poolVars, SeatInv, TypeOK
<1>14. ASSUME NEW a \in Attempts, ReserveRefused(a) \/ AdoptFails(a) PROVE TableMove
  BY <1>1, <1>4, <1>14 DEF ReserveRefused, AdoptFails
<1>15. ASSUME NEW a \in Attempts,
              \/ OpenSession(a) \/ LoadSession(a) \/ GateRefuses(a) \/ Spawned(a)
              \/ UnwindDone(a) \/ Opened(a) \/ Unclaimed(a) \/ HeadlessRefused(a)
              \/ HeadlessSpawned(a) \/ HeadlessUnwinds(a) \/ HeadlessClosed(a)
              \/ HandshakeFails(a) \/ HeadlessHandshakeFails(a) \/ HeadlessReady(a)
              \/ ChildExits(a) \/ ChildDies(a)
       PROVE  TableMove
  BY <1>1, <1>15
     DEF OpenSession, LoadSession, GateRefuses, Spawned, UnwindDone, Opened,
         Unclaimed, HeadlessRefused, HeadlessSpawned, HeadlessUnwinds,
         HeadlessClosed, HandshakeFails, HeadlessHandshakeFails, HeadlessReady,
         ChildExits, ChildDies, poolVars
<1>16. CASE UNCHANGED vars
  BY <1>1, <1>16 DEF vars
<1> QED
  BY <1>6, <1>7, <1>8, <1>9, <1>10, <1>12, <1>13, <1>14, <1>15, <1>16
     DEF Next, OpenFlow, LoadFlow, HarnessAnswers

(* The two maps of the pool, reservations and their expiry, promotion and  *)
(* every unwinding together implement the slot table.                      *)
THEOREM PoolImplementsSlotTable == Spec => ImplementsSlotTable
<1>1. Init => Table!Init
  BY DEF Init, Table!Init, Holder
<1> QED
  BY <1>1, TableStep, SeatInvariant, PTL
     DEF Spec, ImplementsSlotTable, Table!Spec, Table!tableVars, TableMove
=============================================================================
