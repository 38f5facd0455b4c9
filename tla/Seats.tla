------------------------------- MODULE Seats -------------------------------
(***************************************************************************)
(* The life of a harness seat: SeatPool (server/src/acp/seat-pool.ts), the *)
(* open paths of SeatRunner (seat-runner.ts) and the part of the session   *)
(* service (session-service.ts) that opens, loads, closes and reaps.       *)
(*                                                                         *)
(* Every open or load is an ATTEMPT.  An attempt is the identity of one    *)
(* Seat object and of one harness child; the pool's two maps are keyed by  *)
(* seatKeyId, which for the one harness and the one servable profile is    *)
(* the project.  An await in the code is a boundary between two actions,   *)
(* so whatever other connections do may happen there.                      *)
(***************************************************************************)
EXTENDS Naturals, FiniteSets

CONSTANTS Conns,        \* browser sockets
          Projects,     \* project ids, one seat key each
          Attempts,     \* opens and loads, each used once (the model's bound)
          NoAttempt,    \* null
          MaxSeats,     \* SeatPoolOptions.maxSeats
          MaxHeadless   \* MAX_INFLIGHT_HEADLESS

ASSUME ProjectsFinite == IsFiniteSet(Projects)
ASSUME AttemptsFinite == IsFiniteSet(Attempts)
ASSUME NoAttemptIsNull == NoAttempt \notin Attempts
ASSUME CapsAreNaturals == MaxSeats \in Nat /\ MaxHeadless \in Nat

VARIABLES
  phase,        \* where the attempt's async function is suspended
  owner,        \* the connection that issued the attempt
  project,      \* the project it was issued for
  child,        \* the harness process of the attempt
  provisional,  \* SeatPool.provisional: project -> attempt or null
  active,       \* SeatPool.seats: project -> attempt or null
  aged,         \* attempts whose reservation is older than provisionalTtlMs
  headless,     \* attempts holding a headlessInFlight slot, not yet released
  held,         \* ConnectionState.seat of each connection
  opening,      \* connections whose `opening` latch is set
  closed,       \* connections whose socket is gone
  displaced     \* history: attempts whose pool entry another attempt deleted

poolVars == <<provisional, active, aged, displaced>>
connVars == <<held, opening, closed>>
idVars   == <<owner, project>>
vars     == <<phase, owner, project, child, provisional, active, aged,
              headless, held, opening, closed, displaced>>

(* Suspension points of SeatRunner.open inside openSession. *)
OpenPhases == {"gate", "spawn", "handshake", "refused", "unwinding",
               "create", "unclaimed"}
(* Suspension points of openHeadless and adopt inside loadSession.         *)
LoadPhases == {"hgate", "hshake", "hrefused", "adopt", "hclosing"}
Phases == OpenPhases \cup LoadPhases \cup {"unused", "live", "released", "done"}

ChildStates == {"none", "alive", "closing", "gone"}

(* Phases in which the attempt's own function still holds the latch.       *)
Latched == (OpenPhases \cup LoadPhases) \ {"hclosing"}

TypeOK ==
  /\ phase \in [Attempts -> Phases]
  /\ owner \in [Attempts -> Conns]
  /\ project \in [Attempts -> Projects]
  /\ child \in [Attempts -> ChildStates]
  /\ provisional \in [Projects -> Attempts \cup {NoAttempt}]
  /\ active \in [Projects -> Attempts \cup {NoAttempt}]
  /\ aged \subseteq Attempts
  /\ headless \subseteq Attempts
  /\ held \in [Conns -> Attempts \cup {NoAttempt}]
  /\ opening \subseteq Conns
  /\ closed \subseteq Conns
  /\ displaced \subseteq Attempts

Init ==
  /\ phase = [a \in Attempts |-> "unused"]
  /\ owner \in [Attempts -> Conns]
  /\ project \in [Attempts -> Projects]
  /\ child = [a \in Attempts |-> "none"]
  /\ provisional = [p \in Projects |-> NoAttempt]
  /\ active = [p \in Projects |-> NoAttempt]
  /\ aged = {}
  /\ headless = {}
  /\ held = [c \in Conns |-> NoAttempt]
  /\ opening = {}
  /\ closed = {}
  /\ displaced = {}

----------------------------------------------------------------------------
(* SeatPool *)

(* Faulty variants, here and below, stand before what they would replace:  *)
(* a sweep with its comparison reversed ...                                *)
SweptReversed == [p \in Projects |->
                    IF provisional[p] \in aged THEN provisional[p] ELSE NoAttempt]

(* The provisional map once sweepProvisional has dropped what is too old.  *)
Swept == [p \in Projects |->
            IF provisional[p] \in aged THEN NoAttempt ELSE provisional[p]]

(* Entries of a map; provisional and active seats both count.              *)
Taken(map) == {p \in Projects : map[p] # NoAttempt}

(* ... a reserve() whose cap forgets the provisional map ...               *)
CapReachedActiveOnly  == Cardinality(Taken(active)) >= MaxSeats

(* reserve() refuses with SeatBusyError, then with SeatCapError.           *)
KeyTaken(p) == active[p] # NoAttempt \/ Swept[p] # NoAttempt
CapReached  == Cardinality(Taken(active)) + Cardinality(Taken(Swept)) >= MaxSeats

(* promote() takes only a live reservation of this very attempt.           *)
IsReservation(a) == provisional[project[a]] = a

(* ... and a remove() that leaves the active map alone.                    *)
RemoveKeyProvisionalOnly(a) ==
  /\ provisional' = [provisional EXCEPT ![project[a]] = NoAttempt]
  /\ UNCHANGED <<active, aged, displaced>>

(* remove() deletes by key id from both maps, whoever the entry belongs to *)
(* (and releaseProvisional() deletes by key id from the first).            *)
RemoveKey(a) ==
  LET p == project[a] IN
  /\ provisional' = [provisional EXCEPT ![p] = NoAttempt]
  /\ active' = [active EXCEPT ![p] = NoAttempt]
  /\ displaced' = displaced \cup ({provisional[p], active[p]} \ {a, NoAttempt})
  /\ UNCHANGED aged

(* close() on a child: a process that is already gone stays gone.          *)
Closing(s) == IF s = "alive" THEN "closing" ELSE s

Goto(a, ph)  == phase' = [phase EXCEPT ![a] = ph]
CloseChildForgotten(a) == UNCHANGED child
CloseChild(a) == child' = [child EXCEPT ![a] = Closing(@)]
Unlatch(a)   == opening' = opening \ {owner[a]}

----------------------------------------------------------------------------
(* releaseSeat: state cleared and key removed at once; the child dies on.  *)

ReleaseToUndefined(c) ==
  /\ held' = [held EXCEPT ![c] = "undefined"]
  /\ RemoveKey(held[c])
  /\ CloseChild(held[c])

Release(c) ==
  LET a == held[c] IN
  /\ held' = [held EXCEPT ![c] = NoAttempt]
  /\ RemoveKey(a)
  /\ CloseChild(a)

(* A client close, or the idle timer of the session, ends a reported       *)
(* session.                                                                *)
EndSession(c) ==
  /\ c \notin closed
  /\ held[c] # NoAttempt
  /\ phase[held[c]] = "live"
  /\ Release(c)
  /\ Goto(held[c], "released")
  /\ UNCHANGED <<idVars, headless, opening, closed>>

(* The outbound bound is hit: overflow() reaps the seat, and the socket's  *)
(* own close event comes later.                                            *)
Overflow(c) ==
  /\ c \notin closed
  /\ held[c] # NoAttempt
  /\ Release(c)
  /\ phase' = [phase EXCEPT ![held[c]] = IF @ = "create" THEN @ ELSE "released"]
  /\ UNCHANGED <<idVars, headless, opening, closed>>

(* closed(): releases the seat the connection holds now, if any.           *)
SocketClosed(c) ==
  /\ c \notin closed
  /\ closed' = closed \cup {c}
  /\ IF held[c] # NoAttempt
       THEN /\ Release(c)
            /\ phase' = [phase EXCEPT ![held[c]] =
                           IF @ = "create" THEN @ ELSE "released"]
       ELSE UNCHANGED <<held, poolVars, child, phase>>
  /\ UNCHANGED <<idVars, headless, opening>>

----------------------------------------------------------------------------
(* openSession and SeatRunner.open *)

LatchOnSeatOnly(a) ==
  /\ phase[a] = "unused"
  /\ owner[a] \notin closed
  /\ held[owner[a]] = NoAttempt
  /\ opening' = opening \cup {owner[a]}

(* The guard of openSession and loadSession, then the latch.               *)
Latch(a) ==
  LET c == owner[a] IN
  /\ phase[a] = "unused"
  /\ c \notin closed
  /\ held[c] = NoAttempt
  /\ c \notin opening
  /\ opening' = opening \cup {c}

OpenSession(a) ==
  /\ Latch(a)
  /\ Goto(a, "gate")
  /\ UNCHANGED <<idVars, child, poolVars, headless, held, closed>>

(* The policy gate refuses (disabled, profile, plugins, posture): fail().  *)
GateRefuses(a) ==
  /\ phase[a] = "gate"
  /\ Goto(a, "done")
  /\ Unlatch(a)
  /\ UNCHANGED <<idVars, child, poolVars, headless, held, closed>>

(* The gate passes and reserve() is called: it sweeps, then refuses ...    *)
ReserveRefused(a) ==
  /\ phase[a] = "gate"
  /\ KeyTaken(project[a]) \/ CapReached
  /\ provisional' = Swept
  /\ Goto(a, "done")
  /\ Unlatch(a)
  /\ UNCHANGED <<idVars, child, active, aged, displaced, headless, held, closed>>

(* ... or takes the key.                                                   *)
Reserve(a) ==
  /\ phase[a] = "gate"
  /\ ~KeyTaken(project[a])
  /\ ~CapReached
  /\ provisional' = [Swept EXCEPT ![project[a]] = a]
  /\ Goto(a, "spawn")
  /\ UNCHANGED <<idVars, child, active, aged, displaced, headless, connVars>>

(* ENOENT and the like: the catch of open() releases and rethrows.         *)
SpawnFails(a) ==
  /\ phase[a] = "spawn"
  /\ RemoveKey(a)
  /\ Goto(a, "done")
  /\ Unlatch(a)
  /\ UNCHANGED <<idVars, child, headless, held, closed>>

Spawned(a) ==
  /\ phase[a] = "spawn"
  /\ child' = [child EXCEPT ![a] = "alive"]
  /\ Goto(a, "handshake")
  /\ UNCHANGED <<idVars, poolVars, headless, connVars>>

(* Three handshake requests of SESSION_OPEN_DEADLINE_MS each add up to     *)
(* SEAT_PROVISIONAL_TTL_MS, so a reservation can age while it is in use.   *)
AgeWhenRefusedOnly(a) ==
  /\ phase[a] = "refused"
  /\ aged' = aged \cup {a}
  /\ UNCHANGED <<phase, idVars, child, provisional, active, displaced,
                 headless, connVars>>

Age(a) ==
  /\ phase[a] \in {"handshake", "refused"}
  /\ aged' = aged \cup {a}
  /\ UNCHANGED <<phase, idVars, child, provisional, active, displaced,
                 headless, connVars>>

(* AcpSeat.open fails: it closes the child itself before it rethrows.      *)
HandshakeFails(a) ==
  /\ phase[a] = "handshake"
  /\ CloseChild(a)
  /\ Goto(a, "refused")
  /\ UNCHANGED <<idVars, poolVars, headless, connVars>>

(* The catch of open() after a failed handshake: the child is gone, the    *)
(* reservation is released, fail() reports it.                             *)
OpenUnwinds(a) ==
  /\ phase[a] = "refused"
  /\ child[a] = "gone"
  /\ RemoveKey(a)
  /\ Goto(a, "done")
  /\ Unlatch(a)
  /\ UNCHANGED <<idVars, child, headless, held, closed>>

(* promote() throws because the reservation was swept: the catch removes   *)
(* the key first and closes the child after.                               *)
PromoteRefused(a) ==
  /\ phase[a] = "handshake"
  /\ ~IsReservation(a)
  /\ RemoveKey(a)
  /\ CloseChild(a)
  /\ Goto(a, "unwinding")
  /\ UNCHANGED <<idVars, headless, connVars>>

UnwindDone(a) ==
  /\ phase[a] = "unwinding"
  /\ child[a] = "gone"
  /\ Goto(a, "done")
  /\ Unlatch(a)
  /\ UNCHANGED <<idVars, child, poolVars, headless, held, closed>>

(* promote(), then openSession resumes: the connection takes the seat      *)
(* without looking at `closed`, and awaits recorder.create.                *)
Promote(a) ==
  LET p == project[a] IN
  /\ phase[a] = "handshake"
  /\ IsReservation(a)
  /\ provisional' = [provisional EXCEPT ![p] = NoAttempt]
  /\ active' = [active EXCEPT ![p] = a]
  /\ held' = [held EXCEPT ![owner[a]] = a]
  /\ Goto(a, "create")
  /\ UNCHANGED <<idVars, child, aged, displaced, headless, opening, closed>>

(* recorder.create resolved and the seat is still ours: the session opens. *)
Opened(a) ==
  /\ phase[a] = "create"
  /\ held[owner[a]] = a
  /\ Goto(a, "live")
  /\ Unlatch(a)
  /\ UNCHANGED <<idVars, child, poolVars, headless, held, closed>>

(* recorder.create threw: fail() reaps the seat if it is still held.       *)
CreateFails(a) ==
  /\ phase[a] = "create"
  /\ IF held[owner[a]] = a
       THEN Release(owner[a])
       ELSE UNCHANGED <<held, poolVars, child>>
  /\ Goto(a, "released")
  /\ Unlatch(a)
  /\ UNCHANGED <<idVars, headless, closed>>

(* recorder.create resolved after the seat was released: the record is     *)
(* dropped and the child closed ...                                        *)
Unclaimed(a) ==
  /\ phase[a] = "create"
  /\ held[owner[a]] # a
  /\ CloseChild(a)
  /\ Goto(a, "unclaimed")
  /\ UNCHANGED <<idVars, poolVars, headless, connVars>>

(* ... and, once the child is gone, the key is removed a second time.      *)
UnclaimedDone(a) ==
  /\ phase[a] = "unclaimed"
  /\ child[a] = "gone"
  /\ RemoveKey(a)
  /\ Goto(a, "done")
  /\ Unlatch(a)
  /\ UNCHANGED <<idVars, child, headless, held, closed>>

----------------------------------------------------------------------------
(* loadSession, openHeadless and promoteAdopted *)

HeadlessFullOffByOne == Cardinality(headless) > MaxHeadless
HeadlessFull == Cardinality(headless) >= MaxHeadless

(* The stored record and its project resolve; openHeadless takes a slot.   *)
LoadSession(a) ==
  /\ Latch(a)
  /\ ~HeadlessFull
  /\ headless' = headless \cup {a}
  /\ Goto(a, "hgate")
  /\ UNCHANGED <<idVars, child, poolVars, held, closed>>

(* The gate refuses, or the spawn fails: no child, the slot goes back.     *)
HeadlessRefused(a) ==
  /\ phase[a] = "hgate"
  /\ headless' = headless \ {a}
  /\ Goto(a, "done")
  /\ Unlatch(a)
  /\ UNCHANGED <<idVars, child, poolVars, held, closed>>

HeadlessSpawned(a) ==
  /\ phase[a] = "hgate"
  /\ child' = [child EXCEPT ![a] = "alive"]
  /\ Goto(a, "hshake")
  /\ UNCHANGED <<idVars, poolVars, headless, connVars>>

HeadlessHandshakeFails(a) ==
  /\ phase[a] = "hshake"
  /\ CloseChild(a)
  /\ Goto(a, "hrefused")
  /\ UNCHANGED <<idVars, poolVars, headless, connVars>>

(* The slot is held until the child of the failed handshake is gone.       *)
HeadlessUnwinds(a) ==
  /\ phase[a] = "hrefused"
  /\ child[a] = "gone"
  /\ headless' = headless \ {a}
  /\ Goto(a, "done")
  /\ Unlatch(a)
  /\ UNCHANGED <<idVars, child, poolVars, held, closed>>

HeadlessReady(a) ==
  /\ phase[a] = "hshake"
  /\ Goto(a, "adopt")
  /\ UNCHANGED <<idVars, child, poolVars, headless, connVars>>

(* session/resume fails, or promoteAdopted finds the key or the cap taken  *)
(* (its reserve() has swept by then).  The finally block drops the latch   *)
(* before it awaits the child.                                             *)
AdoptFails(a) ==
  /\ phase[a] = "adopt"
  /\ \/ UNCHANGED provisional
     \/ /\ KeyTaken(project[a]) \/ CapReached
        /\ provisional' = Swept
  /\ CloseChild(a)
  /\ Goto(a, "hclosing")
  /\ Unlatch(a)
  /\ UNCHANGED <<idVars, active, aged, displaced, headless, held, closed>>

HeadlessClosed(a) ==
  /\ phase[a] = "hclosing"
  /\ child[a] = "gone"
  /\ headless' = headless \ {a}
  /\ Goto(a, "done")
  /\ UNCHANGED <<idVars, child, poolVars, connVars>>

(* promoteAdopted reserves and promotes in one go and hands the slot over; *)
(* a socket that closed meanwhile has its seat released here.              *)
Adopted(a) ==
  LET p == project[a]
      c == owner[a] IN
  /\ phase[a] = "adopt"
  /\ ~KeyTaken(p)
  /\ ~CapReached
  /\ provisional' = Swept
  /\ headless' = headless \ {a}
  /\ Unlatch(a)
  /\ IF c \in closed
       THEN /\ CloseChild(a)
            /\ Goto(a, "released")
            /\ UNCHANGED <<held, active>>
       ELSE /\ active' = [active EXCEPT ![p] = a]
            /\ held' = [held EXCEPT ![c] = a]
            /\ Goto(a, "live")
            /\ UNCHANGED child
  /\ UNCHANGED <<idVars, aged, displaced, closed>>

----------------------------------------------------------------------------
(* The harness process *)

(* spawn.ts close(): EOF, SIGTERM, SIGKILL; the process ends.              *)
ChildExits(a) ==
  /\ child[a] = "closing"
  /\ child' = [child EXCEPT ![a] = "gone"]
  /\ UNCHANGED <<phase, idVars, poolVars, headless, connVars>>

(* The harness dies on its own.                                            *)
ChildDies(a) ==
  /\ child[a] = "alive"
  /\ child' = [child EXCEPT ![a] = "gone"]
  /\ UNCHANGED <<phase, idVars, poolVars, headless, connVars>>

----------------------------------------------------------------------------

(* What a suspended function does once the harness, the file system or the *)
(* dying child lets it go on.                                              *)
OpenFlow(a) ==
  \/ GateRefuses(a) \/ ReserveRefused(a) \/ Reserve(a)
  \/ SpawnFails(a) \/ Spawned(a)
  \/ OpenUnwinds(a) \/ UnwindDone(a)
  \/ Opened(a) \/ CreateFails(a) \/ Unclaimed(a) \/ UnclaimedDone(a)

LoadFlow(a) ==
  \/ HeadlessRefused(a) \/ HeadlessSpawned(a)
  \/ HeadlessUnwinds(a) \/ HeadlessClosed(a)

(* The harness answers, or refuses, the handshake or the resume.           *)
HarnessAnswers(a) ==
  \/ HandshakeFails(a) \/ PromoteRefused(a) \/ Promote(a)
  \/ HeadlessHandshakeFails(a) \/ HeadlessReady(a)
  \/ AdoptFails(a) \/ Adopted(a)

Next ==
  \/ \E a \in Attempts : \/ OpenSession(a) \/ LoadSession(a)
                         \/ OpenFlow(a) \/ LoadFlow(a) \/ HarnessAnswers(a)
                         \/ Age(a) \/ ChildExits(a) \/ ChildDies(a)
  \/ \E c \in Conns : EndSession(c) \/ Overflow(c) \/ SocketClosed(c)

Spec == Init /\ [][Next]_vars

(* A suspended function is resumed, a child told to close is reaped (the   *)
(* escalation ends in SIGKILL), and time passes.  Nothing is promised of   *)
(* the harness: it may never answer a handshake.  Nor of the user.         *)
Fairness == \A a \in Attempts :
  WF_vars(OpenFlow(a)) /\ WF_vars(LoadFlow(a)) /\ WF_vars(ChildExits(a))
    /\ WF_vars(Age(a))

FairSpec == Spec /\ Fairness

----------------------------------------------------------------------------
(* Safety *)

(* Suspension points at which an open may own a reservation.               *)
Reserving == {"spawn", "handshake", "refused"}

(* A cap slot is never leaked: a reservation belongs to an open that is    *)
(* still running, and an active entry to the connection that opened it.    *)
(* (SeatRunner: "a cap slot is never leaked by a failed open".)            *)
NoGhostEntries ==
  \A p \in Projects :
    /\ provisional[p] # NoAttempt =>
         /\ project[provisional[p]] = p
         /\ phase[provisional[p]] \in Reserving
    /\ active[p] # NoAttempt =>
         /\ project[active[p]] = p
         /\ held[owner[active[p]]] = active[p]

(* The two maps together never exceed maxSeats, and no key is in both:     *)
(* reserve() counts before anything is spawned, promote() moves an entry.  *)
PoolWithinCap ==
  /\ Taken(active) \cap Taken(provisional) = {}
  /\ Cardinality(Taken(active)) + Cardinality(Taken(provisional)) <= MaxSeats

(* A seat a connection holds is the pool's entry of its key, so it is      *)
(* counted, unless another attempt deleted that entry.                     *)
HeldIsCounted ==
  \A c \in Conns : held[c] # NoAttempt =>
    \/ active[project[held[c]]] = held[c]
    \/ held[c] \in displaced

(* Every harness process that nobody has told to stop has somebody who     *)
(* will: the async function that spawned it, or the connection holding it. *)
NoOrphanChild ==
  \A a \in Attempts : child[a] = "alive" =>
    \/ phase[a] \in {"handshake", "hshake", "adopt"}
    \/ held[owner[a]] = a

(* A read slot is held as long as its child is up and not a pooled seat:   *)
(* the read path never has more than MAX_INFLIGHT_HEADLESS processes.      *)
HeadlessBounded ==
  /\ Cardinality(headless) <= MaxHeadless
  /\ \A a \in Attempts :
       /\ child[a] \in {"alive", "closing"}
       /\ phase[a] \in LoadPhases
       => a \in headless

(* An entry is deleted by somebody else only on behalf of an attempt whose *)
(* reservation had expired, whose seat was taken back while the transcript *)
(* was created, or which had lost its own entry that way before.           *)
DeletionBlamed ==
  \A b \in displaced' \ displaced :
    \E a \in Attempts \ {b} :
      /\ project[a] = project[b]
      /\ a \in aged \/ a \in displaced \/ phase[a] = "unclaimed"

DisplacedOnlyByStale == [][DeletionBlamed]_vars

(* One connection, one function: a connection that is opening or loading   *)
(* starts nothing else, holds the latch from the first await to the last,  *)
(* and holds no seat but the one it is getting.                            *)
LatchedOnce ==
  \A a \in Attempts : phase[a] \in Latched =>
    /\ owner[a] \in opening
    /\ held[owner[a]] \in {NoAttempt, a}
    /\ \A b \in Attempts :
         phase[b] \in Latched /\ owner[b] = owner[a] => b = a

(* A seat is given up before another replaces it.                          *)
SeatKept ==
  \A c \in Conns : held[c] # NoAttempt => held'[c] \in {held[c], NoAttempt}

SeatNeverReplaced == [][SeatKept]_vars

----------------------------------------------------------------------------
(* The pool implements the table of SlotTable: a key is held by the active *)
(* seat, or else by the reservation; an aged reservation may be swept.     *)

Holder == [p \in Projects |->
             IF active[p] # NoAttempt THEN active[p] ELSE provisional[p]]

Table == INSTANCE SlotTable WITH
  Keys <- Projects, Holders <- Attempts, None <- NoAttempt, Max <- MaxSeats,
  holder <- Holder, stale <- aged

(* The specification of SlotTable as a property: promote() is invisible to *)
(* the table, and every other step takes at most one key below the cap.    *)
ImplementsSlotTable == Table!Spec

----------------------------------------------------------------------------
(* What the repository says and the code does not keep *)

(* session-service.ts: a tab that closes must not leave the seat or the    *)
(* agent running.  Once no open is in flight, a closed socket has no seat. *)
NoSeatBehindClosedSocket ==
  \A c \in closed : c \notin opening => held[c] = NoAttempt

(* seat-pool.ts: one active session per seat (one key, one harness).       *)
OneSessionPerKey ==
  \A c, d \in Conns :
    /\ c # d
    /\ held[c] # NoAttempt
    /\ held[d] # NoAttempt
    => project[held[c]] # project[held[d]]

----------------------------------------------------------------------------
(* Liveness *)

(* A failed, abandoned or released attempt gives everything back: its      *)
(* function ends, its child is gone, its read slot is free.                *)
FailureIsCleanedUp ==
  \A a \in Attempts :
    phase[a] \in {"refused", "unwinding", "unclaimed", "hrefused", "hclosing", "released"}
      ~> phase[a] \in {"done", "released"} /\ child[a] = "gone" /\ a \notin headless

(* A harness that never answers cannot keep a key for ever: its            *)
(* reservation is used, given back, or expires.                            *)
ReservationExpires ==
  \A a \in Attempts, p \in Projects :
    provisional[p] = a ~> (a \in aged \/ provisional[p] # a)
=============================================================================
