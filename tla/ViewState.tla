----------------------------- MODULE ViewState -----------------------------
(***************************************************************************)
(* What a browser tab shows: the reducer of shared/src/reducer.ts, a pure  *)
(* function of the view and one server event, and the projection of a      *)
(* stored log that replaces the view (shared/src/sessions.ts).             *)
(*                                                                         *)
(* A text is the sequence of the numbers of its chunks, a turn has at most *)
(* one tool card, and the id of a session stands for its two ids, which    *)
(* come and go together.  A prompt's commandId is its turn.  Titles,       *)
(* postures, config options, thoughts and messages are left out; the       *)
(* events that only set one of those change nothing here.                  *)
(***************************************************************************)
EXTENDS Naturals, Sequences, FiniteSets, SequencesExt

CONSTANTS Sessions, NoSession,  \* sessions, and null
          Turns, NoTurn,        \* turn ids, and null
          MaxChunks,            \* bound on the chunks of a turn
          MaxViewEntries        \* MAX_VIEW_ENTRIES

ASSUME NullSession == NoSession \notin Sessions
ASSUME NullTurn == NoTurn \notin Turns

Cards == {"none", "active", "completed", "cancelled", "orphaned"}
Texts == UNION {[1..n -> 1..MaxChunks] : n \in 0..(2 * MaxChunks)}
Entries == [role : {"user", "assistant"}, of : Turns, text : Texts]

Views ==
  [conn : {"connecting", "open", "closed"},
   session : {"none", "opening", "open", "failed"},
   of : Sessions \cup {NoSession},          \* sessionId and storeId
   turn : Turns \cup {NoTurn},              \* activeTurnId
   prompt : Turns \cup {NoTurn},            \* pendingPromptId
   status : {"idle", "running", "cancelling", "done", "error"},
   entries : Seq(Entries),
   card : Cards]

InitialView ==
  [conn |-> "connecting", session |-> "none", of |-> NoSession, turn |-> NoTurn,
   prompt |-> NoTurn, status |-> "idle", entries |-> <<>>, card |-> "none"]

User(t) == [role |-> "user", of |-> t, text |-> <<>>]
Answer(t, text) == [role |-> "assistant", of |-> t, text |-> text]

(* Server events: of whom, and what it carries.                            *)
Event(type, of, arg) == [type |-> type, of |-> of, arg |-> arg]
Opened(s)    == Event("session.opened", s, 0)
Loaded(s)    == Event("session.loaded", s, 0)
Closed(s)    == Event("session.closed", s, 0)
Reaped(s)    == Event("seat.reaped", s, 0)
Failed(s)    == Event("session.failed", s, 0)
Refusal(scope, id) == Event("command.result", id, scope)
Started(t)   == Event("turn.started", t, 0)
Delta(t, n)  == Event("turn.delta", t, n)
Tool(t, status)    == Event("tool.updated", t, status)
Completed(t, stop) == Event("turn.completed", t, stop)

Capped(entries) ==
  SubSeq(entries, IF Len(entries) > MaxViewEntries
                    THEN Len(entries) - MaxViewEntries + 1 ELSE 1, Len(entries))

(* The chunk goes to its turn's answer, if that is still retained.          *)
AppendTo(entries, t, n) ==
  LET Mine(e) == e.role = "assistant" /\ e.of = t
  IN IF \E i \in DOMAIN entries : Mine(entries[i])
       THEN Capped([i \in DOMAIN entries |->
              IF Mine(entries[i]) THEN Answer(t, Append(entries[i].text, n)) ELSE entries[i]])
       ELSE entries

IsTerminal(v) == v.status \in {"done", "error"}
IsLive(v)     == v.status \in {"running", "cancelling"}

(* What a status becomes when something ends that is not the turn itself.  *)
StatusOr(v, other) == IF IsTerminal(v) THEN v.status ELSE other

----------------------------------------------------------------------------
(* What the user does *)

BeginTurnAnyway(v, t) ==
  [v EXCEPT !.turn = t, !.prompt = t, !.status = "running", !.card = "none",
            !.entries = @ \o <<User(t), Answer(t, <<>>)>>]

(* A turn that runs owns the view: a second one is not begun.              *)
BeginTurn(v, t) == IF IsLive(v) THEN v ELSE BeginTurnAnyway(v, t)

RequestCancel(v) ==
  IF v.turn = NoTurn \/ IsTerminal(v) THEN v ELSE [v EXCEPT !.status = "cancelling"]

ResetSession(v) == [InitialView EXCEPT !.conn = v.conn]

----------------------------------------------------------------------------
(* What the server says *)

ConnectionClosed(v) ==
  [v EXCEPT !.conn = "closed", !.status = StatusOr(v, "error"),
            !.session = IF @ = "open" THEN "failed" ELSE @]

(* The same session again keeps its turn; another one starts afresh.       *)
SessionOpened(v, s) ==
  IF v.of = s THEN [v EXCEPT !.session = "open"]
  ELSE [InitialView EXCEPT !.conn = v.conn, !.session = "open", !.of = s]

SessionGoneUnscoped(v, s, card) ==
  [v EXCEPT !.session = "none", !.of = NoSession, !.prompt = NoTurn,
            !.status = StatusOr(v, "idle"), !.card = card]

(* session.closed and seat.reaped; the entries and the turn's id stay.     *)
SessionGone(v, s, card) ==
  IF v.of = s THEN SessionGoneUnscoped(v, s, card) ELSE v

SessionFailed(v) == [v EXCEPT !.session = "failed", !.status = StatusOr(v, "error")]

RefusedWhoever(v, scope, id) ==
  IF scope = "session.prompt" /\ IsLive(v) THEN [v EXCEPT !.status = "error"] ELSE v

(* A refusal ends the turn whose prompt was refused, and an open that was  *)
(* waited for; any other is a message.                                     *)
Refused(v, scope, id) ==
  CASE scope = "session.open" /\ v.session = "opening" ->
         [v EXCEPT !.session = "failed", !.status = StatusOr(v, "error")]
    [] scope = "session.prompt" /\ v.prompt = id /\ IsLive(v) ->
         [v EXCEPT !.status = "error"]
    [] OTHER -> v

TurnStarted(v, t) ==
  IF v.turn = t THEN [v EXCEPT !.status = "running", !.prompt = NoTurn] ELSE v

TurnDelta(v, t, n) ==
  IF v.turn = t /\ ~IsTerminal(v)
    THEN [v EXCEPT !.entries = AppendTo(@, t, n)]
    ELSE v

ToolUpdatedLate(v, t, status) ==
  IF v.turn = t /\ (~IsTerminal(v) \/ v.card # "none") THEN [v EXCEPT !.card = status] ELSE v

(* After the end of its turn a card can only be completed.                 *)
ToolUpdated(v, t, status) ==
  IF v.turn = t /\ (~IsTerminal(v) \/ (v.card # "none" /\ status = "completed"))
    THEN [v EXCEPT !.card = status] ELSE v

(* A second end is a duplicate; a card left in flight is cancelled.        *)
TurnCompleted(v, t, stop) ==
  IF v.turn # t \/ IsTerminal(v) THEN v
  ELSE [v EXCEPT !.status = IF stop = "failed" THEN "error" ELSE "done",
                 !.prompt = NoTurn,
                 !.card = IF @ = "active" THEN "cancelled" ELSE @]

Applied(v, e) ==
  CASE e.type = "session.opened" -> SessionOpened(v, e.of)
    [] e.type = "session.closed" -> SessionGone(v, e.of, "none")
    [] e.type = "seat.reaped" ->
         SessionGone(v, e.of, IF v.card = "none" THEN "none" ELSE "orphaned")
    [] e.type = "session.failed" -> SessionFailed(v)
    [] e.type = "command.result" -> Refused(v, e.arg, e.of)
    [] e.type = "turn.started" -> TurnStarted(v, e.of)
    [] e.type = "turn.delta" -> TurnDelta(v, e.of, e.arg)
    [] e.type = "tool.updated" -> ToolUpdated(v, e.of, e.arg)
    [] e.type = "turn.completed" -> TurnCompleted(v, e.of, e.arg)
    [] OTHER -> v  \* session.loaded

AppliedAll(v, events) ==
  LET after[i \in 0..Len(events)] ==
        IF i = 0 THEN v ELSE Applied(after[i - 1], events[i])
  IN after[Len(events)]

----------------------------------------------------------------------------
(* projectTranscript, transcriptEntries and hydrateTranscript *)

(* What a sequence has at some of its places, in its order.                *)
Nth(places, n) == CHOOSE i \in places : Cardinality({j \in places : j <= i}) = n
Picked(seq, places) == [n \in 1..Cardinality(places) |-> seq[Nth(places, n)]]

(* What a log says of turn t.                                              *)
SaidAt(log, t, type) == {i \in DOMAIN log : log[i].type = type /\ log[i].of = t}
Said(log, t, type) == Picked(log, SaidAt(log, t, type))

TextOf(log, t) ==
  LET deltas == Said(log, t, "turn.delta") IN [i \in DOMAIN deltas |-> deltas[i].arg]

StopOf(log, t) ==
  LET ends == Said(log, t, "turn.completed") IN IF ends = <<>> THEN "none" ELSE Last(ends).arg

SeatGone(log) == \E i \in DOMAIN log : log[i].type \in {"seat.reaped", "session.closed"}

CardOf(log, t) ==
  LET updates == Said(log, t, "tool.updated")
  IN CASE updates = <<>> -> "none"
       [] updates # <<>> /\ Last(updates).arg = "completed" -> "completed"
       [] OTHER -> IF SeatGone(log) THEN "orphaned"
                   ELSE IF StopOf(log, t) # "none" THEN "cancelled" ELSE "active"

(* The turns of a log by their first event.                                *)
TurnsOf(log) ==
  LET Firsts == {i \in DOMAIN log : /\ log[i].of \in Turns
                                    /\ \A j \in 1..(i - 1) : log[j].of # log[i].of}
  IN [n \in 1..Cardinality(Firsts) |-> Picked(log, Firsts)[n].of]

(* A turn that began has its prompt and its answer, one whose beginning    *)
(* was not kept has its answer, if it has a text.                          *)
EntriesOf(log) ==
  LET turns   == TurnsOf(log)
      places  == 1..(2 * Len(turns))
      Turn(k) == turns[(k + 1) \div 2]
      all     == [k \in places |-> IF k % 2 = 1 THEN User(Turn(k))
                                   ELSE Answer(Turn(k), TextOf(log, Turn(k)))]
  IN Picked(all, {k \in places : \/ SaidAt(log, Turn(k), "turn.started") # {}
                                 \/ all[k].text # <<>>})

HydratedLive(v, log) ==
  [v EXCEPT !.entries = Capped(EntriesOf(log)), !.status = "idle", !.card = "none"]

(* A stored transcript replaces the view; no turn of it is live.           *)
HydrateTranscript(v, log) ==
  LET turns == TurnsOf(log)
  IN [v EXCEPT !.entries = Capped(EntriesOf(log)),
               !.turn = NoTurn,
               !.status = IF turns # <<>> /\ StopOf(log, Last(turns)) = "failed"
                            THEN "error" ELSE "idle",
               !.card = IF turns = <<>> THEN "none" ELSE CardOf(log, Last(turns))]
=============================================================================
