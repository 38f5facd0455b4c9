--------------------------- MODULE SessionTurns ---------------------------
(***************************************************************************)
(* The turns of one browser connection (server/src/acp/session-service.ts):*)
(* session.prompt with and without attachments, session.cancel,            *)
(* session.configure, session.close, the idle timer, overflow() and        *)
(* closed(), and what each of them puts on the wire and in the stored log. *)
(*                                                                         *)
(* Opening and loading a session end here in one action, Open; Seats is    *)
(* the module about how they get a seat.  The seat is used through what    *)
(* SeatContract says of it: one turn at a time, each ended once, chunks    *)
(* only for the turn that is running.  Frames that reach the socket        *)
(* together are handled before the promises the first of them leaves.      *)
(***************************************************************************)
EXTENDS Naturals, Sequences, FiniteSets

CONSTANTS Sessions,   \* stored sessions, each may be opened again
          NoSession,  \* null
          Turns,      \* turn ids, each prompted once
          NoTurn,     \* null
          Attaching,  \* the turns whose prompt carries attachments
          MaxOpens,   \* bound on the seats opened
          MaxChunks   \* bound on the chunks streamed

ASSUME NoSessionIsNull == NoSession \notin Sessions
ASSUME NoTurnIsNull == NoTurn \notin Turns
ASSUME AttachingTurns == Attaching \subseteq Turns
ASSUME BoundsAreNatural == MaxOpens \in Nat /\ MaxChunks \in Nat

VARIABLES
  session,     \* ConnectionState.sessionId, with storeId, seat and acp
  seat,        \* which of the seats opened so far it is, 0 for none
  opens,       \* seats opened so far
  turn,        \* ConnectionState.turn.id, or null
  turnClosed,  \* ConnectionState.turn.closed
  stage,       \* how far runTurn is for each turn
  captured,    \* the seat runTurn captured for each turn
  active,      \* AcpSeat.activeTurn of the connection's seat
  idle,        \* the seat's idle timer is armed
  socket,      \* the socket's readyState
  chunks,      \* chunks streamed so far
  wire,        \* the events the browser got
  log          \* the events recorded for each stored session

connVars == <<session, seat, opens>>
turnVars == <<turn, turnClosed, stage, captured, active>>
vars     == <<connVars, turnVars, idle, socket, chunks, wire, log>>

TurnEvents == [type : {"turn.started", "turn.delta", "turn.completed"}, of : Turns]
SessionEvents == [type : {"session.opened", "session.closed", "seat.reaped"}, of : Sessions]
Events == TurnEvents \cup SessionEvents

Started(t)   == [type |-> "turn.started", of |-> t]
Chunk(t)     == [type |-> "turn.delta", of |-> t]
Completed(t) == [type |-> "turn.completed", of |-> t]
Opened(s)    == [type |-> "session.opened", of |-> s]
Closed(s)    == [type |-> "session.closed", of |-> s]
Reaped(s)    == [type |-> "seat.reaped", of |-> s]

Stages == {"unsent", "reading", "running", "settled", "over", "refused"}

TypeOK ==
  /\ session \in Sessions \cup {NoSession}
  /\ seat \in 0..opens
  /\ opens \in 0..MaxOpens
  /\ turn \in Turns \cup {NoTurn}
  /\ turnClosed \in BOOLEAN
  /\ stage \in [Turns -> Stages]
  /\ captured \in [Turns -> 0..opens]
  /\ active \in Turns \cup {NoTurn}
  /\ idle \in BOOLEAN
  /\ socket \in {"open", "closing", "closed"}
  /\ chunks \in 0..MaxChunks
  /\ wire \in Seq(Events)
  /\ log \in [Sessions -> Seq(Events)]

Init ==
  /\ session = NoSession
  /\ seat = 0
  /\ opens = 0
  /\ turn = NoTurn
  /\ turnClosed = TRUE
  /\ stage = [t \in Turns |-> "unsent"]
  /\ captured = [t \in Turns |-> 0]
  /\ active = NoTurn
  /\ idle = FALSE
  /\ socket = "open"
  /\ chunks = 0
  /\ wire = <<>>
  /\ log = [s \in Sessions |-> <<>>]

----------------------------------------------------------------------------
(* Recording and sending *)

TurnLive == turn # NoTurn /\ ~turnClosed

Sent(evs) == IF socket = "open" THEN wire \o evs ELSE wire

Recorded(evs) ==
  IF session # NoSession THEN [log EXCEPT ![session] = @ \o evs] ELSE log

(* emit: recorded first, and whether or not it can be delivered.           *)
Say(evs) == wire' = Sent(evs) /\ log' = Recorded(evs)

(* The seat's cancel(): the prompt of its active turn is settled.          *)
Settled(t) == [stage EXCEPT ![t] = IF @ = "running" THEN "settled" ELSE @]
CancelSeat == stage' = IF active = NoTurn THEN stage ELSE Settled(active)

(* Faulty variants, here and below, stand before what they would replace:  *)
(* a turn finished whichever is open.                                      *)
FinishesUnchecked(t) == TRUE

(* finishTurn does nothing for a turn that is not the open one.            *)
Finishes(t) == turn = t /\ ~turnClosed

FinishTurnBlindly(t) ==
  /\ turnClosed' = TRUE
  /\ Say(<<Completed(t)>>)
  /\ UNCHANGED idle

FinishTurn(t) ==
  IF Finishes(t)
    THEN /\ turnClosed' = TRUE
         /\ Say(IF session # NoSession THEN <<Completed(t)>> ELSE <<>>)
         /\ idle' = (idle \/ session # NoSession)
    ELSE UNCHANGED <<turnClosed, idle, wire, log>>

EndingUnchecked(reapedAlready) ==
  <<Completed(turn)>> \o (IF reapedAlready THEN <<>> ELSE <<Reaped(session)>>)

EndingForgotten(reapedAlready) == <<>>

(* What releaseSeat records when a turn is open: the log gets an end.      *)
Ending(reapedAlready) ==
  IF ~TurnLive THEN <<>>
  ELSE IF reapedAlready THEN <<Completed(turn)>>
  ELSE <<Completed(turn), Reaped(session)>>

(* releaseSeat, after the events its caller emits.                         *)
ReleaseSeat(evs, reapedAlready) ==
  /\ session # NoSession
  /\ wire' = Sent(evs)
  /\ log' = Recorded(evs \o Ending(reapedAlready))
  /\ CancelSeat
  /\ session' = NoSession
  /\ seat' = 0
  /\ turn' = NoTurn
  /\ turnClosed' = TRUE
  /\ active' = NoTurn
  /\ idle' = FALSE
  /\ UNCHANGED <<opens, captured, chunks>>

----------------------------------------------------------------------------
(* session.open, session.load *)

(* A timer, a closed socket or an open that spawns a harness comes when no *)
(* promise is left to run; the store's reads are such promises too.        *)
LoopTurns == \A t \in Turns : stage[t] \notin {"settled", "reading"}

Open(s) ==
  /\ session = NoSession
  /\ LoopTurns
  /\ socket = "open"
  /\ opens < MaxOpens
  /\ session' = s
  /\ opens' = opens + 1
  /\ seat' = opens + 1
  /\ active' = NoTurn
  /\ wire' = Sent(<<Opened(s)>>)
  /\ log' = [log EXCEPT ![s] = Append(@, Opened(s))]
  /\ UNCHANGED <<turn, turnClosed, stage, captured, idle, socket, chunks>>

----------------------------------------------------------------------------
(* session.prompt *)

BusyUnchecked == FALSE

(* A turn is open, or the seat has not left the previous one.              *)
Busy == TurnLive \/ active # NoTurn

Refused(t) ==
  /\ stage[t] = "unsent"
  /\ socket # "closed"
  /\ session = NoSession \/ Busy
  /\ stage' = [stage EXCEPT ![t] = "refused"]
  /\ UNCHANGED <<connVars, turn, turnClosed, captured, active, idle, socket,
                 chunks, wire, log>>

StartTurnKeepingTimer(t, from) ==
  /\ turn' = t
  /\ turnClosed' = FALSE
  /\ Say(<<Started(t)>>)
  /\ \/ /\ seat = from /\ seat # 0 /\ active = NoTurn
        /\ active' = t
        /\ stage' = [stage EXCEPT ![t] = "running"]
     \/ /\ active' = active
        /\ stage' = [stage EXCEPT ![t] = "settled"]
  /\ UNCHANGED <<connVars, idle, socket, chunks>>

(* turn.started and seat.prompt, which throws at once on a seat that is    *)
(* closed, already running a turn, or poisoned.                            *)
StartTurn(t, from) ==
  /\ turn' = t
  /\ turnClosed' = FALSE
  /\ idle' = FALSE
  /\ Say(<<Started(t)>>)
  /\ \/ /\ seat = from /\ seat # 0 /\ active = NoTurn
        /\ active' = t
        /\ stage' = [stage EXCEPT ![t] = "running"]
     \/ /\ active' = active
        /\ stage' = [stage EXCEPT ![t] = "settled"]
  /\ UNCHANGED <<connVars, socket, chunks>>

Accepted(t) == stage[t] = "unsent" /\ socket # "closed" /\ session # NoSession /\ ~Busy

PromptText(t) ==
  /\ t \notin Attaching
  /\ Accepted(t)
  /\ captured' = [captured EXCEPT ![t] = seat]
  /\ StartTurn(t, seat)

(* The seat is captured, and resolveAttachments awaits the store.          *)
PromptAttaching(t) ==
  /\ t \in Attaching
  /\ Accepted(t)
  /\ captured' = [captured EXCEPT ![t] = seat]
  /\ stage' = [stage EXCEPT ![t] = "reading"]
  /\ UNCHANGED <<connVars, turn, turnClosed, active, idle, socket, chunks, wire, log>>

(* Missing, over budget or more than the harness takes: nothing started.   *)
AttachmentsRefused(t) ==
  /\ stage[t] = "reading"
  /\ stage' = [stage EXCEPT ![t] = "refused"]
  /\ UNCHANGED <<connVars, turn, turnClosed, captured, active, idle, socket,
                 chunks, wire, log>>

(* The turn starts with no second look at the connection.                  *)
AttachmentsRead(t) ==
  /\ stage[t] = "reading"
  /\ StartTurn(t, captured[t])
  /\ UNCHANGED captured

PromptReturnsUnfinished(t) ==
  /\ stage[t] = "settled"
  /\ stage' = [stage EXCEPT ![t] = "over"]
  /\ active' = IF active = t THEN NoTurn ELSE active
  /\ UNCHANGED <<connVars, turn, turnClosed, captured, idle, socket, chunks, wire, log>>

(* seat.prompt has returned or thrown: the seat is free, and the turn is   *)
(* finished unless a cancel or a close has done so.                        *)
PromptReturns(t) ==
  /\ stage[t] = "settled"
  /\ stage' = [stage EXCEPT ![t] = "over"]
  /\ active' = IF active = t THEN NoTurn ELSE active
  /\ FinishTurn(t)
  /\ UNCHANGED <<connVars, turn, captured, socket, chunks>>

----------------------------------------------------------------------------
(* The seat: it ends its turn, or forwards a chunk of it *)

SeatEnds(t) ==
  /\ stage[t] = "running"
  /\ stage' = [stage EXCEPT ![t] = "settled"]
  /\ UNCHANGED <<connVars, turn, turnClosed, captured, active, idle, socket,
                 chunks, wire, log>>

(* A chunk that cannot be delivered is recorded, and cancels the turn.     *)
SeatStreams(t) ==
  /\ stage[t] = "running"
  /\ active = t
  /\ Finishes(t)
  /\ session # NoSession
  /\ chunks < MaxChunks
  /\ chunks' = chunks + 1
  /\ Say(<<Chunk(t)>>)
  /\ IF socket = "open" THEN UNCHANGED stage ELSE CancelSeat
  /\ UNCHANGED <<connVars, turn, turnClosed, captured, active, idle, socket>>

----------------------------------------------------------------------------
(* session.cancel, session.configure, the idle timer, the ends *)

Cancel ==
  /\ session # NoSession
  /\ socket # "closed"
  /\ TurnLive
  /\ CancelSeat
  /\ FinishTurn(turn)
  /\ UNCHANGED <<connVars, turn, captured, active, socket, chunks>>

(* applyConfig clears the timer even when it then refuses.                 *)
Configure ==
  /\ session # NoSession
  /\ socket # "closed"
  /\ idle' = FALSE
  /\ UNCHANGED <<connVars, turnVars, socket, chunks, wire, log>>

IdleFires ==
  /\ idle
  /\ LoopTurns
  /\ IF session = NoSession \/ TurnLive
       THEN /\ idle' = FALSE
            /\ UNCHANGED <<connVars, turnVars, chunks, wire, log>>
       ELSE ReleaseSeat(<<Closed(session)>>, TRUE)
  /\ UNCHANGED socket

CloseUnannounced ==
  /\ socket # "closed"
  /\ ReleaseSeat(<<>>, TRUE)
  /\ UNCHANGED socket

CloseSession ==
  /\ socket # "closed"
  /\ ReleaseSeat(<<Closed(session), Reaped(session)>>, TRUE)
  /\ UNCHANGED socket

(* Either side starts the closing handshake; frames already sent still     *)
(* arrive, nothing more is delivered.                                      *)
SocketCloses ==
  /\ socket = "open"
  /\ socket' = "closing"
  /\ UNCHANGED <<connVars, turnVars, idle, chunks, wire, log>>

Overflow ==
  /\ socket = "open"
  /\ socket' = "closing"
  /\ ReleaseSeat(<<>>, FALSE)

SocketClosed ==
  /\ socket # "closed"
  /\ LoopTurns
  /\ socket' = "closed"
  /\ IF session # NoSession
       THEN ReleaseSeat(<<>>, FALSE)
       ELSE UNCHANGED <<connVars, turnVars, idle, chunks, wire, log>>

----------------------------------------------------------------------------

Runs(t) == PromptReturns(t) \/ AttachmentsRead(t) \/ AttachmentsRefused(t)

Next ==
  \/ \E s \in Sessions : Open(s)
  \/ \E t \in Turns : \/ Refused(t) \/ PromptText(t) \/ PromptAttaching(t)
                      \/ Runs(t) \/ SeatEnds(t) \/ SeatStreams(t)
  \/ Cancel \/ Configure \/ IdleFires \/ CloseSession
  \/ SocketCloses \/ Overflow \/ SocketClosed

Spec == Init /\ [][Next]_vars

(* Promises settle, the timer fires, and a seat ends every turn it took.   *)
Fairness ==
  /\ \A t \in Turns : WF_vars(Runs(t)) /\ WF_vars(SeatEnds(t))
  /\ WF_vars(IdleFires)

FairSpec == Spec /\ Fairness

----------------------------------------------------------------------------
(* Safety *)

Occurs(e, seq) == \E i \in DOMAIN seq : seq[i] = e

(* The turn event at i is the last one before j.                           *)
Precedes(seq, i, j) ==
  /\ i < j
  /\ seq[i] \in TurnEvents
  /\ \A k \in (i + 1)..(j - 1) : seq[k] \notin TurnEvents

(* In a stored log no turn has two ends, and none ends that did not start. *)
OneTerminalEvent ==
  \A s \in Sessions : \A i \in DOMAIN log[s] :
    log[s][i].type = "turn.completed" =>
      /\ \E j \in 1..(i - 1) : log[s][j] = Started(log[s][i].of)
      /\ \A j \in 1..(i - 1) : log[s][j] # log[s][i]

(* A stored log is made of whole turns: started, its chunks, completed,    *)
(* one turn after the other.                                               *)
TurnsDoNotOverlap ==
  \A s \in Sessions : LET seq == log[s] IN \A j \in DOMAIN seq :
    seq[j] \in TurnEvents =>
      IF seq[j].type = "turn.started"
        THEN \A i \in 1..(j - 1) :
               Precedes(seq, i, j) => seq[i].type = "turn.completed"
        ELSE \E i \in 1..(j - 1) :
               /\ Precedes(seq, i, j)
               /\ seq[i] \in {Started(seq[j].of), Chunk(seq[j].of)}

(* A viewer whose socket is open learns of every end: of the turn, or of   *)
(* the session it belonged to.                                             *)
ViewerSeesTheEnd ==
  socket = "open" =>
    \A i \in DOMAIN wire :
      wire[i].type = "turn.started" /\ ~(TurnLive /\ turn = wire[i].of) =>
        \E j \in DOMAIN wire :
          j > i /\ wire[j].type \in {"turn.completed", "session.closed"}

(* What follows holds until a prompt with attachments starts its turn      *)
(* after the await; TurnsOverlap shows what one can do.                    *)
TextOnly == \A t \in Attaching : stage[t] \in {"unsent", "reading", "refused"}

(* One turn after the other in every stored log.                           *)
TextTurnsDoNotOverlap == TextOnly => TurnsDoNotOverlap

(* However a turn ends, the stored log has its end: a reloaded session     *)
(* shows no card spinning for ever.                                        *)
EveryStartEnds ==
  TextOnly => \A s \in Sessions, t \in Turns :
    Occurs(Started(t), log[s]) /\ ~(TurnLive /\ turn = t) => Occurs(Completed(t), log[s])

(* The viewer is told how every turn ended.                                *)
ViewerSeesTextEnd == TextOnly => ViewerSeesTheEnd

(* After session.closed the viewer hears of no turn until another open.    *)
SilentAfterClosed ==
  TextOnly => \A i \in 2..Len(wire) :
    wire[i] \in TurnEvents => wire[i - 1].type \notin {"session.closed", "seat.reaped"}

(* The idle timer is never armed beside a running turn, so an idle close   *)
(* takes no answer away.                                                   *)
IdleIsQuiet == TextOnly /\ idle => \A t \in Turns : stage[t] # "running"

----------------------------------------------------------------------------
(* Liveness *)

(* An open turn is closed: by its seat, a cancel or the end of the session.*)
EveryTurnCloses == TurnLive ~> ~TurnLive

(* A session left alone does not hold its harness for ever.                *)
AbandonedSessionEnds ==
  session # NoSession ~>
    (session = NoSession \/ TurnLive \/ \E t \in Turns : stage[t] = "reading")
=============================================================================
