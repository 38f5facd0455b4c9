------------------------------ MODULE Browser ------------------------------
(***************************************************************************)
(* One browser tab and its server: the socket hook                         *)
(* (apps/web/src/hooks/useK5Socket.ts) with its reconnects, the queueing   *)
(* and the handovers of App.tsx, and a connection of the server as the tab *)
(* sees it, with the logs it leaves behind (SessionTurns has the server's  *)
(* side in full, ViewState the reducer).                                   *)
(*                                                                         *)
(* React renders, and runs its effects, between two events of the tab.  A  *)
(* submission, its turn and the command that prompts it share a name.  The *)
(* server sees the end of a socket before it accepts the next one.         *)
(***************************************************************************)
EXTENDS ViewState, FiniteSets

CONSTANTS Attaching,   \* the submissions that carry files
          MaxUpsets    \* bound on clicks that are not a Send, idle closes and lost sockets

ASSUME AttachingTurns == Attaching \subseteq Turns
ASSUME BoundsAreNatural == {MaxUpsets, MaxChunks, MaxViewEntries} \subseteq Nat

VARIABLES
  view,     \* K5ViewState
  pending,  \* the coalescer's events
  sub,      \* what became of each submission
  link,     \* the socket and its retry
  wire,     \* frames on their way to the tab
  cmds,     \* commands on their way to the server
  reads,    \* transcript reads in flight
  srv,      \* the connection's session and its running turn
  log,      \* what is stored of each session
  upsets,   \* clicks, idle closes and lost sockets so far
  prompted  \* history: how often each submission was sent

uiVars  == <<view, pending, sub>>
netVars == <<link, wire, cmds>>
srvVars == <<srv, log>>
vars    == <<uiVars, netVars, reads, srvVars, upsets, prompted>>

NoConnection == [of |-> NoSession, turn |-> NoTurn]

(* A read of a session's transcript: what is sure to be in it, and whether *)
(* the reconnect waits for it.                                             *)
Read(s, gate) == [of |-> s, from |-> Len(log[s]), gate |-> gate]

TypeOK ==
  /\ view \in Views
  /\ \A i \in DOMAIN pending : pending[i].type \in {"turn.delta", "tool.updated"}
  /\ sub \in [Turns -> {"draft", "queued", "uploading", "flushing", "given", "back", "dropped"}]
  /\ link \in {"connecting", "open", "closing", "down", "rehydrating"}
  /\ reads \subseteq [of : Sessions, from : Nat, gate : BOOLEAN]
  /\ srv \in [of : Sessions \cup {NoSession}, turn : Turns \cup {NoTurn}]
  /\ srv.of = NoSession => srv.turn = NoTurn
  /\ upsets \in 0..MaxUpsets
  /\ prompted \in [Turns -> Nat]

Init ==
  /\ view = InitialView
  /\ pending = <<>>
  /\ sub = [t \in Turns |-> "draft"]
  /\ link = "connecting"
  /\ wire = <<>> /\ cmds = <<>>
  /\ reads = {}
  /\ srv = NoConnection
  /\ log = [s \in Sessions |-> <<>>]
  /\ upsets = 0
  /\ prompted = [t \in Turns |-> 0]

----------------------------------------------------------------------------
(* The commands of the hook *)

(* A command that never left fails what is shown as running.               *)
RejectLocal(v) == [v EXCEPT !.status = StatusOr(v, "error")]

(* send(): v is the view the caller has already changed.                   *)
Send(v, cmd) ==
  IF link = "open"
    THEN view' = v /\ cmds' = Append(cmds, cmd)
    ELSE view' = RejectLocal(v) /\ UNCHANGED cmds

OpenSession == Send([view EXCEPT !.session = "opening"], Event("session.open", NoSession, 0))

(* prompt(): begun only when it can be sent.                               *)
Prompt(t) ==
  IF view.conn # "open" \/ (view.of # NoSession /\ link # "open")
    THEN view' = RejectLocal(view) /\ UNCHANGED <<cmds, prompted>>
  ELSE IF view.of = NoSession
    THEN view' = [view EXCEPT !.status = "error"] /\ UNCHANGED <<cmds, prompted>>
  ELSE /\ Send(BeginTurn(view, t), Event("session.prompt", view.of, t))
       /\ prompted' = [prompted EXCEPT ![t] = @ + 1]

Upset == upsets < MaxUpsets /\ upsets' = upsets + 1

Cancel ==
  /\ Upset
  /\ view.of # NoSession /\ IsLive(view)
  /\ Send(RequestCancel(view), Event("session.cancel", view.of, 0))
  /\ UNCHANGED <<pending, sub, link, wire, reads, srvVars, prompted>>

(* handleSelectSession: not for the task on screen.  A row is listed when  *)
(* a turn of it has ended.                                                 *)
LoadSession(s) ==
  /\ Upset
  /\ \E t \in Turns : StopOf(log[s], t) # "none"
  /\ s # view.of
  /\ Send(view, Event("session.load", s, 0))
  /\ UNCHANGED <<pending, sub, link, wire, reads, srvVars, prompted>>

(* handleNewTask: the queued submission is forgotten, and a new Composer   *)
(* does not wait for the uploads of the old one.                           *)
NewTask ==
  /\ Upset
  /\ sub' = [t \in Turns |-> CASE sub[t] = "queued" -> "dropped"
                               [] sub[t] = "uploading" -> "flushing"
                               [] OTHER -> sub[t]]
  /\ pending' = <<>>
  /\ view' = ResetSession(view)
  /\ cmds' = IF view.of # NoSession /\ link = "open"
               THEN Append(cmds, Event("session.close", view.of, 0)) ELSE cmds
  /\ UNCHANGED <<link, wire, reads, srvVars, prompted>>

----------------------------------------------------------------------------
(* Submissions *)

(* deliver(): the files first, then the prompt.                            *)
Deliver(t, stage) ==
  IF t \in Attaching
    THEN sub' = [sub EXCEPT ![t] = stage] /\ UNCHANGED <<view, cmds, prompted>>
    ELSE sub' = [sub EXCEPT ![t] = "given"] /\ Prompt(t)

CanSubmit(t) ==
  /\ sub[t] = "draft"
  /\ \A u \in Turns : sub[u] \notin {"queued", "uploading"}
  /\ ~IsLive(view)

(* handleSend: the first prompt opens the session and waits for it.        *)
SubmitQueued(t) ==
  /\ CanSubmit(t)
  /\ view.of = NoSession /\ view.session # "failed"
  /\ sub' = [sub EXCEPT ![t] = "queued"]
  /\ OpenSession
  /\ UNCHANGED <<pending, link, wire, reads, srvVars, upsets, prompted>>

SubmitNow(t) ==
  /\ CanSubmit(t)
  /\ view.of # NoSession
  /\ Deliver(t, "uploading")
  /\ UNCHANGED <<pending, link, wire, reads, srvVars, upsets>>

(* Faulty variants, here and below, stand before what they would replace:  *)
(* the queued submission is cleared only when it has been delivered.       *)
FlushedLate(t) == Prompt(t) /\ UNCHANGED sub

Flushed(t) == Deliver(t, "flushing")

(* The effect that sends the queued submission once there is a session.    *)
FlushQueued(t) ==
  /\ sub[t] = "queued"
  /\ view.of # NoSession
  /\ Flushed(t)
  /\ UNCHANGED <<pending, link, wire, reads, srvVars, upsets>>

(* The effect of a failed session: the queued submission goes back.        *)
HandBack(t) ==
  /\ sub[t] = "queued"
  /\ view.session = "failed"
  /\ sub' = [sub EXCEPT ![t] = "back"]
  /\ UNCHANGED <<view, pending, netVars, reads, srvVars, upsets, prompted>>

Uploaded(t) ==
  /\ sub[t] \in {"uploading", "flushing"}
  /\ \/ sub' = [sub EXCEPT ![t] = "given"] /\ Prompt(t)
     \/ sub' = [sub EXCEPT ![t] = "back"] /\ UNCHANGED <<view, cmds, prompted>>
  /\ UNCHANGED <<pending, link, wire, reads, srvVars, upsets>>

----------------------------------------------------------------------------
(* Frames *)

Coalesced(e) == e.type \in {"turn.delta", "tool.updated"}

(* onmessage: deltas and tools wait for a frame, anything else flushes     *)
(* them first; session.loaded starts a read.                               *)
Receive ==
  /\ link \in {"open", "closing"}
  /\ wire # <<>>
  /\ wire' = Tail(wire)
  /\ LET e == Head(wire)
     IN IF Coalesced(e)
          THEN pending' = Append(pending, e) /\ UNCHANGED <<view, reads>>
          ELSE /\ view' = Applied(AppliedAll(view, pending), e)
               /\ pending' = <<>>
               /\ reads' = IF e.type = "session.loaded"
                             THEN reads \cup {Read(e.of, FALSE)} ELSE reads
  /\ UNCHANGED <<sub, link, cmds, srvVars, upsets, prompted>>

AnimationFrame ==
  /\ pending # <<>>
  /\ view' = AppliedAll(view, pending)
  /\ pending' = <<>>
  /\ UNCHANGED <<sub, netVars, reads, srvVars, upsets, prompted>>

----------------------------------------------------------------------------
(* The socket *)

SocketOpens ==
  /\ link = "connecting"
  /\ srv = NoConnection
  /\ link' = "open"
  /\ view' = [view EXCEPT !.conn = "open"]
  /\ UNCHANGED <<pending, sub, wire, cmds, reads, srvVars, upsets, prompted>>

(* Frames that have arrived are still handled; what is on its way to the   *)
(* server is lost.                                                         *)
SocketDrops ==
  /\ link \in {"connecting", "open"}
  /\ Upset
  /\ link' = "closing"
  /\ cmds' = <<>>
  /\ UNCHANGED <<uiVars, wire, reads, srvVars, prompted>>

ClosedKeepingDots == [ConnectionClosed(view) EXCEPT !.status = view.status]

ClosedView == ConnectionClosed(AppliedAll(view, pending))

(* onclose, at any time: the frames not handled yet are lost.              *)
OnClose ==
  /\ link = "closing"
  /\ link' = "down"
  /\ wire' = <<>>
  /\ view' = ClosedView
  /\ pending' = <<>>
  /\ UNCHANGED <<sub, cmds, reads, srvVars, upsets, prompted>>

(* runRetry, after the backoff: the record is read before the socket.      *)
Retry ==
  /\ link = "down"
  /\ IF view.of # NoSession
       THEN link' = "rehydrating" /\ reads' = reads \cup {Read(view.of, TRUE)}
       ELSE link' = "connecting" /\ UNCHANGED reads
  /\ UNCHANGED <<uiVars, wire, cmds, srvVars, upsets, prompted>>

Connected(r) == link' = IF r.gate THEN "connecting" ELSE link

AdoptedAnyway(s, transcript) == HydrateTranscript(view, transcript)

(* Only the task on screen may be replaced by its transcript.              *)
Adopted(s, transcript) ==
  IF view.of = s THEN HydrateTranscript(view, transcript) ELSE view

(* rehydrate: the read answers with the log as it was at some time since.  *)
ReadLands(r) ==
  /\ reads' = reads \ {r}
  /\ Connected(r)
  /\ \E upto \in r.from..Len(log[r.of]) : view' = Adopted(r.of, SubSeq(log[r.of], 1, upto))
  /\ UNCHANGED <<pending, sub, wire, cmds, srvVars, upsets, prompted>>

ReadFails(r) ==
  /\ reads' = reads \ {r}
  /\ Connected(r)
  /\ UNCHANGED <<uiVars, wire, cmds, srvVars, upsets, prompted>>

(* The reconnect waits so long and no longer; the read goes on.            *)
BudgetEnds ==
  /\ link = "rehydrating"
  /\ link' = "connecting"
  /\ reads' = {[r EXCEPT !.gate = FALSE] : r \in reads}
  /\ UNCHANGED <<uiVars, wire, cmds, srvVars, upsets, prompted>>

----------------------------------------------------------------------------
(* The server's connection *)

Emit(events) == wire' = IF link = "open" THEN wire \o events ELSE wire
Record(s, events) == log' = [log EXCEPT ![s] = @ \o events]

ReleaseKeepingTurn(events) ==
  Emit(events) /\ Record(srv.of, events) /\ srv' = [srv EXCEPT !.of = NoSession]

(* releaseSeat: a turn that was open is ended in the log.                  *)
Release(events) ==
  /\ Emit(events)
  /\ Record(srv.of, events \o
       IF srv.turn = NoTurn THEN <<>>
       ELSE IF events = <<>> THEN <<Completed(srv.turn, "ended"), Reaped(srv.of)>>
       ELSE <<Completed(srv.turn, "ended")>>)
  /\ srv' = NoConnection

Refuse(scope, id) == Emit(<<Refusal(scope, id)>>) /\ UNCHANGED srvVars

Unused == {s \in Sessions : log[s] = <<>>}

Serve ==
  /\ link = "open"
  /\ cmds # <<>>
  /\ cmds' = Tail(cmds)
  /\ LET c == Head(cmds)
     IN CASE c.type = "session.open" ->
               \/ /\ srv.of = NoSession
                  /\ Unused # {}
                  /\ LET s == CHOOSE u \in Unused : TRUE
                     IN /\ srv' = [of |-> s, turn |-> NoTurn]
                        /\ Emit(<<Opened(s)>>) /\ Record(s, <<Opened(s)>>)
               \/ srv.of = NoSession /\ UNCHANGED srvVars
                  /\ Emit(<<Refusal(c.type, NoTurn), Failed(NoSession)>>)
               \/ srv.of # NoSession /\ Refuse(c.type, NoTurn)
          [] c.type = "session.load" ->
               \/ /\ srv.of = NoSession
                  /\ srv' = [of |-> c.of, turn |-> NoTurn]
                  /\ Emit(<<Opened(c.of), Loaded(c.of)>>)
                  /\ Record(c.of, <<Opened(c.of)>>)
               \/ Refuse(c.type, NoTurn)
          [] c.type = "session.prompt" ->
               IF srv.of # c.of \/ srv.turn # NoTurn THEN Refuse(c.type, c.arg)
               ELSE /\ srv' = [srv EXCEPT !.turn = c.arg]
                    /\ Emit(<<Started(c.arg)>>) /\ Record(srv.of, <<Started(c.arg)>>)
          [] c.type = "session.cancel" ->
               IF srv.of # c.of THEN Refuse(c.type, NoTurn)
               ELSE IF srv.turn = NoTurn THEN UNCHANGED <<wire, srvVars>>
               ELSE LET end == <<Completed(srv.turn, "ended")>>
                    IN Emit(end) /\ Record(srv.of, end) /\ srv' = [srv EXCEPT !.turn = NoTurn]
          [] c.type = "session.close" ->
               IF srv.of # c.of THEN Refuse(c.type, NoTurn)
               ELSE Release(<<Closed(c.of), Reaped(c.of)>>)
  /\ UNCHANGED <<uiVars, link, reads, upsets, prompted>>

Spoken ==
  LET said == log[srv.of]
  IN Cardinality({i \in DOMAIN said : said[i].of = srv.turn /\ Coalesced(said[i])})

(* The running turn streams a chunk, or moves its tool card.               *)
Stream ==
  /\ srv.turn # NoTurn
  /\ Spoken < MaxChunks
  /\ \E e \in {Delta(srv.turn, Len(TextOf(log[srv.of], srv.turn)) + 1),
               Tool(srv.turn, "active"), Tool(srv.turn, "completed")} :
       Emit(<<e>>) /\ Record(srv.of, <<e>>)
  /\ UNCHANGED <<uiVars, link, cmds, reads, srv, upsets, prompted>>

EndTurn ==
  /\ srv.turn # NoTurn
  /\ srv' = [srv EXCEPT !.turn = NoTurn]
  /\ \E stop \in {"ended", "failed"} :
       LET end == <<Completed(srv.turn, stop)>>
       IN /\ Record(srv.of, end)
          /\ \/ Emit(end)
             \/ stop = "failed" /\ Emit(Append(end, Failed(srv.of)))
  /\ UNCHANGED <<uiVars, link, cmds, reads, upsets, prompted>>

(* The idle timer.                                                         *)
IdleClose ==
  /\ Upset
  /\ srv.of # NoSession /\ srv.turn = NoTurn
  /\ Release(<<Closed(srv.of)>>)
  /\ UNCHANGED <<uiVars, link, cmds, reads, prompted>>

(* closed(): the socket is gone, and the seat with it.                     *)
ServerSeesClose ==
  /\ link # "open"
  /\ srv # NoConnection
  /\ Release(<<>>)
  /\ UNCHANGED <<uiVars, link, cmds, reads, upsets, prompted>>

----------------------------------------------------------------------------

Tab ==
  \/ Receive \/ AnimationFrame
  \/ \E t \in Turns : FlushQueued(t) \/ HandBack(t) \/ Uploaded(t)

Net ==
  \/ SocketOpens \/ OnClose \/ Retry \/ BudgetEnds
  \/ \E r \in reads : ReadLands(r) \/ ReadFails(r)

Server == Serve \/ Stream \/ EndTurn \/ ServerSeesClose

Clicks ==
  \/ Cancel \/ NewTask
  \/ \E s \in Sessions : LoadSession(s)
  \/ \E t \in Turns : SubmitQueued(t) \/ SubmitNow(t)

Next == Tab \/ Net \/ Server \/ Clicks \/ SocketDrops \/ IdleClose

Spec == Init /\ [][Next]_vars

(* Timers fire, sockets open or fail, reads and uploads are answered, the  *)
(* server handles its commands and its seat ends every turn; nobody need   *)
(* click, and no socket need be lost.                                      *)
Fairness ==
  /\ WF_vars(Receive) /\ WF_vars(AnimationFrame)
  /\ WF_vars(Net)
  /\ WF_vars(Serve) /\ WF_vars(EndTurn) /\ WF_vars(ServerSeesClose)
  /\ \A t \in Turns : WF_vars(FlushQueued(t) \/ HandBack(t) \/ Uploaded(t))

FairSpec == Spec /\ Fairness

----------------------------------------------------------------------------
(* Safety *)

(* The text on screen is what the server said, from its beginning, with    *)
(* nothing twice and no hole: replayed pages and live deltas meet in one   *)
(* reducer.                                                                *)
TextIsWhatWasSaid ==
  \A i \in DOMAIN view.entries :
    LET e == view.entries[i]
    IN e.text # <<>> => \E s \in Sessions : IsPrefix(e.text, TextOf(log[s], e.of))

Quiet == link = "open" /\ wire = <<>> /\ cmds = <<>> /\ pending = <<>>

(* When nothing is on its way, tab and server agree: on the session, and   *)
(* whether the turn on screen is running.                                  *)
AgreesWhenQuiet ==
  Quiet => /\ srv.of # NoSession => view.of = srv.of
           /\ view.turn # NoTurn => (IsLive(view) <=> srv.turn = view.turn)

(* A turn the server runs in an open session never reads as failed,        *)
(* whatever else is refused or not sent meanwhile.                         *)
RunningTurnIsNotFailed ==
  link = "open" /\ view.session = "open" /\ srv.turn # NoTurn /\ srv.turn = view.turn
    => view.status # "error"

(* No submission is sent twice, whatever renders between its steps.        *)
SentOnce == \A t \in Turns : prompted[t] <= 1

(* The turn the server runs is the one on screen.                          *)
RunningTurnIsOnScreen == Quiet /\ srv.turn # NoTurn => view.turn = srv.turn

(* What is on screen beside an open session belongs to it.                 *)
OneTaskOnScreen ==
  view.session = "open" => \A i \in DOMAIN view.entries, s \in Sessions \ {view.of} :
    Started(view.entries[i].of) \notin ToSet(log[s])

----------------------------------------------------------------------------
(* Liveness *)

(* An open that was asked for succeeds or fails; it does not stay.         *)
OpeningEnds == view.session = "opening" ~> view.session # "opening"
=============================================================================
