------------------------------ MODULE Shutdown ------------------------------
(***************************************************************************)
(* How the server stops (terminate and shutdown in server/src/index.ts and *)
(* app.ts) while browsers still open, load and close sessions: the         *)
(* gateway's close() and settle() (ws/gateway.ts), the registry of harness *)
(* children (acp/seat-registry.ts) and the escalation inside a child's     *)
(* close() (acp/spawn.ts).                                                 *)
(*                                                                         *)
(* An ATTEMPT is one session.open or session.load, and the child it        *)
(* spawns.  Of the paths that Seats has in full, only what they do to the  *)
(* child, the registry and the connection is kept: a policy gate, a pool   *)
(* or a handshake that refuses is one refusal.                             *)
(***************************************************************************)

CONSTANTS Conns,      \* browser sockets
          Attempts,   \* opens and loads, each used once (the model's bound)
          NoAttempt   \* null

ASSUME NoAttemptIsNull == NoAttempt \notin Attempts

VARIABLES
  owner,      \* the connection that issues the attempt
  loads,      \* the attempts that are loads, the others are opens
  phase,      \* where the attempt's async functions are suspended
  child,      \* its harness: up until `exited` resolves
  stage,      \* how far the child's close() has come
  socket,     \* the websocket of each connection
  handlers,   \* handlersBySocket of the gateway
  tracked,    \* SeatRegistry.seats
  step,       \* where terminate() is suspended
  toReap,     \* children closeAll() has still to close
  reaping,    \* the child closeAll() awaits, or null
  survivors,  \* children closeAll() gave up
  exit,       \* what the process exited with
  known,      \* history: the registry when the signal arrived
  listed      \* history: the registry when closeAll() copied it

attemptVars == <<owner, loads>>
childVars   == <<child, stage, tracked>>
connVars    == <<socket, handlers>>
reapVars    == <<toReap, reaping, survivors, listed>>
stopVars    == <<step, reapVars, exit, known>>
vars        == <<attemptVars, phase, childVars, connVars, stopVars>>

Phases == {"unused", "gate", "handshake", "refused", "adopt", "held",
           "stopping", "closing", "done"}
Stages == {"idle", "eof", "term", "kill", "reaped", "lost"}
Steps  == {"serving", "closing", "settling", "reaping", "listener", "exited"}

TypeOK ==
  /\ owner \in [Attempts -> Conns]
  /\ loads \subseteq Attempts
  /\ phase \in [Attempts -> Phases]
  /\ child \in [Attempts -> {"none", "up", "gone"}]
  /\ stage \in [Attempts -> Stages]
  /\ socket \in [Conns -> {"none", "open", "closing", "closed"}]
  /\ handlers \subseteq Conns
  /\ tracked \subseteq {a \in Attempts : child[a] = "up"}
  /\ step \in Steps
  /\ toReap \subseteq listed
  /\ reaping \in listed \cup {NoAttempt}
  /\ survivors \subseteq listed
  /\ exit \in {"no", "clean", "failed"}
  /\ known \subseteq Attempts
  /\ listed \subseteq Attempts

Init ==
  /\ owner \in [Attempts -> Conns]
  /\ loads \in SUBSET Attempts
  /\ phase = [a \in Attempts |-> "unused"]
  /\ child = [a \in Attempts |-> "none"]
  /\ stage = [a \in Attempts |-> "idle"]
  /\ socket = [c \in Conns |-> "none"]
  /\ handlers = {}
  /\ tracked = {}
  /\ step = "serving"
  /\ toReap = {} /\ reaping = NoAttempt /\ survivors = {}
  /\ exit = "no"
  /\ known = {} /\ listed = {}

Running == exit = "no"
Goto(a, ph) == phase' = [phase EXCEPT ![a] = ph]

----------------------------------------------------------------------------
(* spawnAcpChild's close() *)

(* The first call ends stdin and starts to wait, every later one gets the  *)
(* promise of the first.                                                   *)
Close(a) == stage' = [stage EXCEPT ![a] = IF @ = "idle" THEN "eof" ELSE @]

Ended(a) == stage[a] \in {"reaped", "lost"}

(* Faulty variants, here and below, stand before what they would replace:  *)
(* an escalation that waits for SIGKILL to work.                           *)
EscalatedForEver(s) ==
  CASE s = "eof" -> "term" [] s = "term" -> "kill" [] OTHER -> s

(* EOF, SIGTERM and SIGKILL each get their time; then close() gives up.    *)
Escalated(s) ==
  CASE s = "eof" -> "term" [] s = "term" -> "kill" [] s = "kill" -> "lost"
    [] OTHER -> s

WaitEnds(a) ==
  /\ Running
  /\ stage[a] \in {"eof", "term", "kill"}
  /\ stage' = [stage EXCEPT ![a] = IF child[a] = "gone" THEN "reaped" ELSE Escalated(@)]
  /\ UNCHANGED <<attemptVars, phase, child, tracked, connVars, stopVars>>

ForgottenNot(a) == UNCHANGED tracked

(* register() and unregister(): a pid is dropped when its child exits.     *)
Registered(a) == tracked' = IF child[a] = "up" THEN tracked \cup {a} ELSE tracked
Forgotten(a)  == tracked' = tracked \ {a}

(* A harness leaves when it likes, at EOF, at a signal, or never: one      *)
(* whose pipes a stranger to its process group still holds.                *)
HarnessExits(a) ==
  /\ child[a] = "up"
  /\ child' = [child EXCEPT ![a] = "gone"]
  /\ Forgotten(a)
  /\ UNCHANGED <<attemptVars, phase, stage, connVars, stopVars>>

----------------------------------------------------------------------------
(* Sessions *)

(* The seat or the latch of the connection is taken.                       *)
Busy(c) == \E a \in Attempts :
  owner[a] = c /\ phase[a] \in {"gate", "handshake", "refused", "adopt", "held"}

(* A socket that has sent its close frame still delivers commands.         *)
Heard(c) == socket[c] \in {"open", "closing"}

Start(a) ==
  /\ Running
  /\ phase[a] = "unused"
  /\ Heard(owner[a])
  /\ ~Busy(owner[a])
  /\ Goto(a, "gate")
  /\ UNCHANGED <<attemptVars, childVars, connVars, stopVars>>

(* The gate, the reservation or the spawn fails: no child.                 *)
GateFails(a) ==
  /\ Running
  /\ phase[a] = "gate"
  /\ Goto(a, "done")
  /\ UNCHANGED <<attemptVars, childVars, connVars, stopVars>>

Spawned(a) ==
  /\ Running
  /\ phase[a] = "gate"
  /\ Goto(a, "handshake")
  /\ child' = [child EXCEPT ![a] = "up"]
  /\ UNCHANGED <<attemptVars, stage, tracked, connVars, stopVars>>

(* The handshake or the promotion fails: the runner awaits the child's     *)
(* close(), and the registry has never heard of it.                        *)
HandshakeFails(a) ==
  /\ Running
  /\ phase[a] = "handshake"
  /\ Goto(a, "refused")
  /\ Close(a)
  /\ UNCHANGED <<attemptVars, child, tracked, connVars, stopVars>>

(* trackSeat is called only now.  An open takes its seat whether or not    *)
(* its socket is still there; a load goes on to adopt its session.         *)
HandshakeDone(a) ==
  /\ Running
  /\ phase[a] = "handshake"
  /\ Goto(a, IF a \in loads THEN "adopt" ELSE "held")
  /\ Registered(a)
  /\ UNCHANGED <<attemptVars, child, stage, connVars, stopVars>>

(* A load does look at its socket before it keeps the seat.                *)
Adopted(a) ==
  /\ Running
  /\ phase[a] = "adopt"
  /\ Goto(a, IF socket[owner[a]] = "closed" THEN "stopping" ELSE "held")
  /\ UNCHANGED <<attemptVars, childVars, connVars, stopVars>>

AdoptFails(a) ==
  /\ Running
  /\ phase[a] = "adopt"
  /\ Goto(a, "stopping")
  /\ UNCHANGED <<attemptVars, childVars, connVars, stopVars>>

(* session.close, the idle timer or an overflow: releaseSeat.              *)
EndSession(a) ==
  /\ Running
  /\ phase[a] = "held"
  /\ Heard(owner[a])
  /\ Goto(a, "stopping")
  /\ UNCHANGED <<attemptVars, childVars, connVars, stopVars>>

(* AcpSeat.close has waited for its pump and closes the child.             *)
PumpStopped(a) ==
  /\ Running
  /\ phase[a] = "stopping"
  /\ Goto(a, "closing")
  /\ Close(a)
  /\ UNCHANGED <<attemptVars, child, tracked, connVars, stopVars>>

(* The child's close() returned, reaped or not: the child is untracked.    *)
CloseReturns(a) ==
  /\ Running
  /\ phase[a] \in {"refused", "closing"}
  /\ Ended(a)
  /\ Goto(a, "done")
  /\ Forgotten(a)
  /\ UNCHANGED <<attemptVars, child, stage, connVars, stopVars>>

----------------------------------------------------------------------------
(* The gateway *)

(* Once wss.close() was called the websocket server refuses every upgrade. *)
Upgrade(c) ==
  /\ step = "serving"
  /\ socket[c] = "none"
  /\ socket' = [socket EXCEPT ![c] = "open"]
  /\ handlers' = handlers \cup {c}
  /\ UNCHANGED <<attemptVars, phase, childVars, stopVars>>

(* The close event of a socket, whoever closed it: closed() releases the   *)
(* seat the connection holds now, if any.                                  *)
SocketClosed(c) ==
  /\ Running
  /\ Heard(c)
  /\ socket' = [socket EXCEPT ![c] = "closed"]
  /\ handlers' = handlers \ {c}
  /\ phase' = [a \in Attempts |->
                 IF owner[a] = c /\ phase[a] = "held" THEN "stopping" ELSE phase[a]]
  /\ UNCHANGED <<attemptVars, childVars, stopVars>>

(* The grace timer of close() terminates the clients that do not answer.   *)
Terminated(c) == step = "closing" /\ SocketClosed(c)

(* waitForIdle(): the connection's releases and adopts have finished.      *)
IsIdle(c) == \A a \in Attempts :
  owner[a] = c => phase[a] \notin {"adopt", "stopping", "closing"}

----------------------------------------------------------------------------
(* terminate() *)

(* The first signal: every socket is sent a close frame.                   *)
Signal ==
  /\ step = "serving"
  /\ step' = "closing"
  /\ socket' = [c \in Conns |-> IF socket[c] = "open" THEN "closing" ELSE socket[c]]
  /\ known' = tracked
  /\ UNCHANGED <<attemptVars, phase, childVars, handlers, reapVars, exit>>

(* The second one does not wait for anything.                              *)
SecondSignal ==
  /\ Running
  /\ step # "serving"
  /\ step' = "exited"
  /\ exit' = "failed"
  /\ UNCHANGED <<attemptVars, phase, childVars, connVars, reapVars, known>>

AllClosedUnchecked == TRUE
AllClosed == \A c \in Conns : ~Heard(c)

(* gateway.close() returns once wss has no client left, and clears the     *)
(* map of handlers.                                                        *)
GatewayClosed ==
  /\ step = "closing"
  /\ AllClosed
  /\ step' = "settling"
  /\ handlers' = {}
  /\ UNCHANGED <<attemptVars, phase, childVars, socket, reapVars, exit, known>>

(* gateway.settle() waits for the handlers in that map; then closeAll()    *)
(* copies and clears the registry.                                         *)
Settled ==
  /\ step = "settling"
  /\ \A c \in handlers : IsIdle(c)
  /\ step' = "reaping"
  /\ listed' = tracked
  /\ toReap' = tracked
  /\ tracked' = {}
  /\ UNCHANGED <<attemptVars, phase, child, stage, connVars, reaping, survivors, exit, known>>

(* closeAll() closes one child after the other ...                         *)
ReapNext(a) ==
  /\ step = "reaping"
  /\ reaping = NoAttempt
  /\ a \in toReap
  /\ reaping' = a
  /\ toReap' = toReap \ {a}
  /\ Close(a)
  /\ UNCHANGED <<attemptVars, phase, child, tracked, connVars, step, survivors,
                 listed, exit, known>>

SurvivedUnreported(a) == UNCHANGED survivors

(* ... and reports those that outlived every signal.                       *)
Survived(a) == survivors' = IF stage[a] = "lost" THEN survivors \cup {a} ELSE survivors

Reaped ==
  /\ step = "reaping"
  /\ reaping # NoAttempt
  /\ Ended(reaping)
  /\ Survived(reaping)
  /\ reaping' = NoAttempt
  /\ UNCHANGED <<attemptVars, phase, childVars, connVars, step, toReap, listed, exit, known>>

ReapingDone ==
  /\ step = "reaping"
  /\ toReap = {} /\ reaping = NoAttempt
  /\ step' = "listener"
  /\ UNCHANGED <<attemptVars, phase, childVars, connVars, reapVars, exit, known>>

(* server.close() came back, or its hard deadline passed; the store is     *)
(* closed and the process exits, with 0 only if nothing is left to report. *)
Exit ==
  /\ step = "listener"
  /\ step' = "exited"
  /\ exit' \in IF survivors = {} THEN {"clean", "failed"} ELSE {"failed"}
  /\ UNCHANGED <<attemptVars, phase, childVars, connVars, reapVars, known>>

Terminate == GatewayClosed \/ Settled \/ Reaped \/ ReapingDone \/ Exit

----------------------------------------------------------------------------

Next ==
  \/ \E a \in Attempts :
       \/ Start(a) \/ GateFails(a) \/ Spawned(a)
       \/ HandshakeFails(a) \/ HandshakeDone(a) \/ Adopted(a) \/ AdoptFails(a)
       \/ EndSession(a) \/ PumpStopped(a) \/ CloseReturns(a)
       \/ WaitEnds(a) \/ HarnessExits(a) \/ ReapNext(a)
  \/ \E c \in Conns : Upgrade(c) \/ SocketClosed(c)
  \/ Signal \/ SecondSignal
  \/ GatewayClosed \/ Settled \/ Reaped \/ ReapingDone \/ Exit

Spec == Init /\ [][Next]_vars

(* terminate() goes on when what it awaits is there, and its timers fire.  *)
(* No browser answers its close frame and no harness exits unless it likes.*)
Fairness ==
  /\ WF_vars(Terminate)
  /\ \A c \in Conns : WF_vars(Terminated(c))
  /\ \A a \in Attempts : WF_vars(WaitEnds(a)) /\ WF_vars(ReapNext(a))

FairSpec == Spec /\ Fairness

----------------------------------------------------------------------------
(* Safety *)

(* closeAll(): "a partial teardown is reportable rather than silent".      *)
ListedAreReaped == \A a \in listed : child[a] = "gone"

(* A child that was tracked when the signal arrived is gone, or a close()  *)
(* of its own session tried EOF, SIGTERM and SIGKILL in vain.              *)
KnownAreClosed == \A a \in known : child[a] = "gone" \/ stage[a] = "lost"

(* The exit code is honest about every child the registry was told of.     *)
CleanExitIsHonest == exit = "clean" => ListedAreReaped /\ KnownAreClosed

(* Once the gateway is closed no session is opened or loaded, so the work  *)
(* closeAll() can miss is bounded by what was in flight ("no new socket    *)
(* can start work").                                                       *)
StartsNothing ==
  step \notin {"serving", "closing"} =>
    \A a \in Attempts : phase[a] = "unused" => phase'[a] = "unused"

NothingStartsAfterClose == [][StartsNothing]_vars

----------------------------------------------------------------------------
(* What the repository says and the code does not keep *)

(* gateway.ts: without settle(), a shutdown that lands in a read "exits    *)
(* clean with the process still running".  With it no harness is left.     *)
NoHarnessLeftBehind == exit = "clean" => \A a \in Attempts : child[a] # "up"

----------------------------------------------------------------------------
(* Liveness *)

(* A signal ends the process, whatever browsers and harnesses do.          *)
EveryShutdownEnds == step = "closing" ~> step = "exited"
=============================================================================
