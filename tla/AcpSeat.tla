------------------------------ MODULE AcpSeat ------------------------------
(***************************************************************************)
(* The turn engine of one live seat (server/src/acp/acp-seat.ts), after    *)
(* its handshake: prompt(), the one update pump, the held stop reason and  *)
(* its quiet timer, cancel(), the turn timeout and its drain bound, the    *)
(* poisoning of the seat, close().  The harness and the ACP SDK are the    *)
(* environment: they answer each prompt at most once, in any order with    *)
(* the updates they stream, and may fall silent or die at any time.        *)
(*                                                                         *)
(* The code holds a stop reason without the turn it answers; the model     *)
(* holds that turn, so that properties can tell whose answer it was.       *)
(***************************************************************************)
EXTENDS Naturals, Sequences

CONSTANTS Turns,      \* turn ids, each prompted once
          NoTurn,     \* null
          MaxUpdates  \* bound on the updates the harness sends

ASSUME NoTurnIsNull == NoTurn \notin Turns
ASSUME MaxUpdatesIsNatural == MaxUpdates \in Nat

VARIABLES
  activeTurn,  \* AcpSeat.activeTurn
  status,      \* how far each turn is; "running" until settle or fail
  response,    \* the session/prompt request of each turn
  aborted,     \* turns whose AbortController was aborted
  draining,    \* turns whose drain timer is armed
  grace,       \* graceUntilMs: null, in the future, in the past
  pending,     \* pendingStopReason: the turn whose answer is held, or null
  quiet,       \* quietTimer is armed
  queue,       \* the session's update queue
  sent,        \* updates sent so far
  pump,        \* pumpRunning
  broken,      \* the stream to the harness is dead
  poisoned,    \* poisonReason is set
  closed,      \* AcpSeat.closed
  attributed,  \* history: <<turn it was forwarded under, turn it was for>>
  lost,        \* history: turns with a chunk sent before their end, dropped
  decidedBy    \* history: whose answer completed each turn

turnVars == <<activeTurn, status, response, aborted, draining, decidedBy>>
endVars  == <<grace, pending, quiet>>
pumpVars == <<queue, sent, pump, broken, attributed, lost>>
seatVars == <<poisoned, closed>>
vars     == <<turnVars, endVars, pumpVars, seatVars>>

Ended == {"completed", "cancelled", "failed", "refused"}

Updates == [of : Turns, early : BOOLEAN]

TypeOK ==
  /\ activeTurn \in Turns \cup {NoTurn}
  /\ status \in [Turns -> {"unsent", "running"} \cup Ended]
  /\ response \in [Turns -> {"none", "owed", "given"}]
  /\ aborted \subseteq Turns
  /\ draining \subseteq Turns
  /\ grace \in {"none", "open", "over"}
  /\ pending \in Turns \cup {NoTurn}
  /\ quiet \in BOOLEAN
  /\ queue \in Seq(Updates)
  /\ sent \in 0..MaxUpdates
  /\ pump \in BOOLEAN
  /\ broken \in BOOLEAN
  /\ poisoned \in BOOLEAN
  /\ closed \in BOOLEAN
  /\ attributed \subseteq Turns \X Turns
  /\ lost \subseteq Turns
  /\ decidedBy \in [Turns -> Turns \cup {NoTurn}]

Init ==
  /\ activeTurn = NoTurn
  /\ status = [t \in Turns |-> "unsent"]
  /\ response = [t \in Turns |-> "none"]
  /\ aborted = {}
  /\ draining = {}
  /\ grace = "none"
  /\ pending = NoTurn
  /\ quiet = FALSE
  /\ queue = <<>>
  /\ sent = 0
  /\ pump = FALSE
  /\ broken = FALSE
  /\ poisoned = FALSE
  /\ closed = FALSE
  /\ attributed = {}
  /\ lost = {}
  /\ decidedBy = [t \in Turns |-> NoTurn]

----------------------------------------------------------------------------
(* Settling *)

(* Faulty variants, here and below, stand before what they would replace:  *)
(* a settle that passes a raw reason through.                              *)
SettleRaw(t, how) ==
  status' = [status EXCEPT ![t] = IF @ = "running" THEN "end_turn" ELSE @]

(* settle and fail are once-only: the first one decides.                   *)
Settle(t, how) ==
  status' = [status EXCEPT ![t] = IF @ = "running" THEN how ELSE @]

Live == activeTurn # NoTurn /\ status[activeTurn] = "running"

(* The finally block of prompt() has not run yet.                          *)
Unwinding == activeTurn # NoTurn /\ status[activeTurn] # "running"

(* Timers fire between macrotasks: by then the pump has drained what the   *)
(* stream had buffered, and a settled prompt() has returned.               *)
Drained == ~Unwinding /\ (pump => queue = <<>>)

(* The finally block: no end is left behind, the seat is free.             *)
FinallyKeepingPending ==
  /\ Unwinding
  /\ activeTurn' = NoTurn
  /\ draining' = draining \ {activeTurn}
  /\ quiet' = FALSE
  /\ UNCHANGED <<status, response, aborted, decidedBy, grace, pending, pumpVars, seatVars>>

Finally ==
  /\ Unwinding
  /\ activeTurn' = NoTurn
  /\ draining' = draining \ {activeTurn}
  /\ quiet' = FALSE
  /\ pending' = NoTurn
  /\ UNCHANGED <<status, response, aborted, decidedBy, grace, pumpVars, seatVars>>

----------------------------------------------------------------------------
(* prompt() *)

MayPromptBusy == ~closed /\ ~poisoned

(* closed, poisoned and "already running" are refused, in this order.      *)
MayPrompt == ~closed /\ ~poisoned /\ activeTurn = NoTurn

Prompt(t) ==
  /\ status[t] = "unsent"
  /\ MayPrompt
  /\ activeTurn' = t
  /\ status' = [status EXCEPT ![t] = "running"]
  /\ response' = [response EXCEPT ![t] = "owed"]
  /\ pump' = TRUE
  /\ UNCHANGED <<aborted, draining, decidedBy, endVars, queue, sent, broken,
                 attributed, lost, seatVars>>

PromptRefused(t) ==
  /\ status[t] = "unsent"
  /\ ~MayPrompt
  /\ status' = [status EXCEPT ![t] = "refused"]
  /\ UNCHANGED <<activeTurn, response, aborted, draining, decidedBy, endVars,
                 pumpVars, seatVars>>

(* The response: the reason is held and the quiet timer armed, whichever   *)
(* turn is active by now.                                                  *)
AnswerSettlesAtOnce(t) ==
  /\ response[t] = "owed"
  /\ ~broken
  /\ response' = [response EXCEPT ![t] = "given"]
  /\ Settle(t, "completed")
  /\ UNCHANGED <<activeTurn, aborted, draining, decidedBy, endVars, pumpVars, seatVars>>

Answer(t) ==
  /\ response[t] = "owed"
  /\ ~broken
  /\ response' = [response EXCEPT ![t] = "given"]
  /\ pending' = t
  /\ quiet' = TRUE
  /\ UNCHANGED <<activeTurn, status, aborted, draining, decidedBy, grace,
                 pumpVars, seatVars>>

(* The request is rejected: by the harness, or because the stream died.    *)
AnswerError(t) ==
  /\ response[t] = "owed"
  /\ response' = [response EXCEPT ![t] = "given"]
  /\ \/ Settle(t, "cancelled")                        \* code -32800
     \/ Settle(t, IF t \in aborted THEN "cancelled" ELSE "failed")
  /\ UNCHANGED <<activeTurn, aborted, draining, decidedBy, endVars, pumpVars, seatVars>>

(* settleIfQuiet                                                           *)
QuietFires ==
  /\ quiet
  /\ Drained
  /\ quiet' = FALSE
  /\ pending' = NoTurn
  /\ IF pending # NoTurn /\ Live
       THEN /\ Settle(activeTurn, "completed")
            /\ decidedBy' = [decidedBy EXCEPT ![activeTurn] = pending]
       ELSE UNCHANGED <<status, decidedBy>>
  /\ UNCHANGED <<activeTurn, response, aborted, draining, grace, pumpVars, seatVars>>

----------------------------------------------------------------------------
(* cancel(), the turn timeout, the drain bound, close() *)

Cancelled ==
  /\ grace' = "open"
  /\ aborted' = aborted \cup {activeTurn}
  /\ Settle(activeTurn, "cancelled")

Cancel ==
  /\ Live
  /\ Cancelled
  /\ UNCHANGED <<activeTurn, response, draining, decidedBy, pending, quiet,
                 pumpVars, seatVars>>

TurnTimeoutUnbounded ==
  /\ Live
  /\ Drained
  /\ activeTurn \notin aborted
  /\ aborted' = aborted \cup {activeTurn}
  /\ UNCHANGED <<activeTurn, status, response, draining, decidedBy, endVars,
                 pumpVars, seatVars>>

(* The abort only notifies the harness and arms the drain bound.           *)
TurnTimeout ==
  /\ Live
  /\ Drained
  /\ activeTurn \notin aborted
  /\ aborted' = aborted \cup {activeTurn}
  /\ draining' = draining \cup {activeTurn}
  /\ UNCHANGED <<activeTurn, status, response, decidedBy, endVars, pumpVars, seatVars>>

DrainFires(t) ==
  /\ t \in draining
  /\ Drained
  /\ draining' = draining \ {t}
  /\ Settle(t, "cancelled")
  /\ poisoned' = (poisoned \/ status[t] = "running")
  /\ UNCHANGED <<activeTurn, response, aborted, decidedBy, endVars, pumpVars, closed>>

GraceElapses ==
  /\ grace = "open"
  /\ grace' = "over"
  /\ UNCHANGED <<turnVars, pending, quiet, pumpVars, seatVars>>

CloseWithoutCancel ==
  /\ ~closed
  /\ closed' = TRUE
  /\ UNCHANGED <<turnVars, endVars, pumpVars, poisoned>>

Close ==
  /\ ~closed
  /\ closed' = TRUE
  /\ IF Live THEN Cancelled ELSE UNCHANGED <<grace, aborted, status>>
  /\ UNCHANGED <<activeTurn, response, draining, decidedBy, pending, quiet,
                 pumpVars, poisoned>>

----------------------------------------------------------------------------
(* The pump *)

(* A read under way when close() begins still delivers its message; the    *)
(* model does not count such reads until the pump has stopped.             *)
Reading == pump /\ queue # <<>>

(* An update for the live turn is forwarded under its id; deferSettle has  *)
(* pushed a held end back, and leaves its timer armed.                     *)
PumpForwards ==
  /\ Reading
  /\ Live
  /\ queue' = Tail(queue)
  /\ attributed' = attributed \cup {<<activeTurn, Head(queue).of>>}
  /\ quiet' = (quiet \/ pending # NoTurn)
  /\ UNCHANGED <<turnVars, grace, pending, sent, pump, broken, lost, seatVars>>

(* onEvent throws: the turn fails, the pump goes on.                       *)
PumpForwardThrows ==
  /\ Reading
  /\ Live
  /\ queue' = Tail(queue)
  /\ Settle(activeTurn, "failed")
  /\ quiet' = (quiet \/ pending # NoTurn)
  /\ UNCHANGED <<activeTurn, response, aborted, draining, decidedBy, grace,
                 pending, sent, pump, broken, attributed, lost, seatVars>>

PoisonsAlways == grace # "open"
Poisons == grace = "over"

(* A straggler is dropped; past the grace window it poisons the seat.      *)
PumpDrops ==
  /\ Reading
  /\ ~Live
  /\ queue' = Tail(queue)
  /\ lost' = IF Head(queue).early THEN lost \cup {Head(queue).of} ELSE lost
  /\ poisoned' = (poisoned \/ Poisons)
  /\ grace' = IF Poisons THEN "none" ELSE grace
  /\ UNCHANGED <<turnVars, pending, quiet, sent, pump, broken, attributed, closed>>

(* nextUpdate rejects: the live turn fails and the pump ends.              *)
PumpBreaks ==
  /\ pump
  /\ ~closed
  /\ broken
  /\ pump' = FALSE
  /\ IF activeTurn # NoTurn THEN Settle(activeTurn, "failed") ELSE UNCHANGED status
  /\ UNCHANGED <<activeTurn, response, aborted, draining, decidedBy, endVars,
                 queue, sent, broken, attributed, lost, seatVars>>

(* The closing signal wins the race against nextUpdate.                    *)
PumpStops ==
  /\ pump
  /\ closed
  /\ pump' = FALSE
  /\ UNCHANGED <<turnVars, endVars, queue, sent, broken, attributed, lost, seatVars>>

----------------------------------------------------------------------------
(* The harness *)

(* An update for a turn it was prompted with: before its answer, after it, *)
(* or although the turn was cancelled.                                     *)
HarnessStreams(t) ==
  /\ response[t] # "none"
  /\ ~broken
  /\ sent < MaxUpdates
  /\ sent' = sent + 1
  /\ queue' = Append(queue, [of |-> t, early |-> status[t] = "running"])
  /\ UNCHANGED <<turnVars, endVars, pump, broken, attributed, lost, seatVars>>

HarnessDies ==
  /\ ~broken
  /\ broken' = TRUE
  /\ UNCHANGED <<turnVars, endVars, queue, sent, pump, attributed, lost, seatVars>>

----------------------------------------------------------------------------

Pump == PumpForwards \/ PumpForwardThrows \/ PumpDrops \/ PumpBreaks \/ PumpStops

Next ==
  \/ \E t \in Turns : \/ Prompt(t) \/ PromptRefused(t)
                      \/ Answer(t) \/ AnswerError(t)
                      \/ DrainFires(t) \/ HarnessStreams(t)
  \/ Finally \/ QuietFires \/ Cancel \/ TurnTimeout \/ GraceElapses \/ Close
  \/ Pump \/ HarnessDies

Spec == Init /\ [][Next]_vars

(* Microtasks run and timers fire.  The harness promises nothing.          *)
Fairness ==
  /\ WF_vars(Pump)
  /\ WF_vars(Finally)
  /\ WF_vars(QuietFires)
  /\ WF_vars(TurnTimeout)
  /\ \A t \in Turns : WF_vars(DrainFires(t))

FairSpec == Spec /\ Fairness

----------------------------------------------------------------------------
(* Safety *)

(* A held end always has a timer behind it: an answered turn cannot be     *)
(* forgotten until the half-hour timeout, and no end is held when no timer *)
(* would release it ("must not leave a pending end behind").               *)
PendingHasTimer == pending # NoTurn <=> quiet

(* A turn that ended with its answer has all its chunks: what the harness  *)
(* sent before the end was forwarded, not dropped.                         *)
NothingLostAtNormalEnd == \A t \in lost : status[t] # "completed"

(* The seat is declared unusable only after something was aborted: a chunk *)
(* that trails an ordinary completion is noise, not a verdict.             *)
PoisonNeedsAbort == poisoned => aborted # {}

(* A turn that has not ended is the seat's active one, so two turns never  *)
(* run side by side and no running turn is forgotten by its seat.          *)
OneTurnAtATime ==
  \A t \in Turns : status[t] = "running" => activeTurn = t

(* A seat that is closed, or whose stream can no longer be trusted to      *)
(* belong to any turn, starts none.                                        *)
StartRefused ==
  poisoned \/ closed =>
    \A t \in Turns : status[t] = "unsent" => status'[t] \in {"unsent", "refused"}
NoStartWhenUnusable == [][StartRefused]_vars

(* close() settles the live turn before it stops the pump, so nothing is   *)
(* forwarded for a seat that has been disposed of.                         *)
NothingForwarded == closed => attributed' = attributed
SilentOnceClosed == [][NothingForwarded]_vars

(* A turn ends once.                                                       *)
EndKept == \A t \in Turns : status[t] \in Ended => status'[t] = status[t]
EndIsFinal == [][EndKept]_vars

----------------------------------------------------------------------------
(* The contract *)

Running   == IF Live THEN activeTurn ELSE NoTurn
Over      == {t \in Turns : status[t] \in Ended}
Delivered == {pair[1] : pair \in attributed}
Usable    == ~closed /\ ~poisoned

Contract == INSTANCE SeatContract WITH
  running <- Running, ended <- Over, delivered <- Delivered, usable <- Usable

(* The engine keeps what SessionTurns relies on: one turn at a time, each  *)
(* ended once, chunks for the running turn only.                           *)
ImplementsSeatContract == Contract!Spec

----------------------------------------------------------------------------
(* What the repository says and the code does not keep *)

(* A turn is completed by the answer to its own prompt.                    *)
CompletedByOwnAnswer ==
  \A t \in Turns : status[t] = "completed" => decidedBy[t] = t

(* A notification left over from a previous turn is not attributed to the  *)
(* current one.                                                            *)
UpdatesReachTheirTurn == \A pair \in attributed : pair[1] = pair[2]

(* A legal chunk after a normal completion does not poison the seat.       *)
LegalStragglerIsHarmless ==
  [][(~poisoned /\ poisoned' /\ queue' # queue) => Head(queue).of \in aborted]_vars

----------------------------------------------------------------------------
(* Liveness *)

(* Whatever the harness does, a turn ends and the seat is free again.      *)
EveryTurnEnds ==
  \A t \in Turns : status[t] = "running" ~> status[t] \in Ended /\ activeTurn # t
=============================================================================
