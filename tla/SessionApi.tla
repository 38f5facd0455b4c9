----------------------------- MODULE SessionApi -----------------------------
(***************************************************************************)
(* The HTTP side of one stored session (server/src/session-api.ts) with    *)
(* the three browser hooks that use it: the transcript read page by page   *)
(* (SessionStore.read and TranscriptCursor), the list of stored tasks      *)
(* (useStoredSessions) and the upload of a batch of files                  *)
(* (useAttachments).                                                       *)
(*                                                                         *)
(* A request is served in one step, with the store as it is then, and its  *)
(* answer arrives later or never.  The store goes on: its seat appends,    *)
(* drops a record, and somebody else deletes the session.  The three hooks *)
(* meet only in the store, so a behaviour follows one of them.  A record   *)
(* is its sequence number; the kinds tell what read() tells apart.         *)
(***************************************************************************)
EXTENDS Integers, FiniteSetsExt

CONSTANTS MaxSeq,       \* bound on sequence numbers
          PageSize,     \* MAX_EVENTS_PER_PAGE
          MaxPageBytes, \* MAX_PAGE_BYTES, a small record being 1
          MaxPages,     \* MAX_TRANSCRIPT_PAGES
          Queries,      \* what may stand in the search field
          MaxAsks,      \* bound on the list's requests
          Files,        \* the files that may be picked
          MaxFiles,     \* MAX_ATTACHMENTS
          Start,        \* null, the cursor of a read from the start
          Cursors       \* the cursors a reader may start from

ASSUME BoundsArePositive ==
  {MaxSeq, PageSize, MaxPageBytes, MaxPages, MaxAsks} \subseteq Nat \ {0}
ASSUME MaxFilesIsNatural == MaxFiles \in Nat
ASSUME EmptyQuery == "" \in Queries
ASSUME StartIsNoCursor == Start \notin Nat /\ Cursors \subseteq Nat \cup {Start}

VARIABLES
  hook,     \* the hook that is followed
  log,      \* the session's row and its records, by sequence number
  reader,   \* readStoredTranscript and its TranscriptCursor
  restarts, \* history: how often the reader went back to the start
  served,   \* history: the last record when the last page was served
  list,     \* the state of useStoredSessions, and the task's row in it
  asks,     \* list requests in flight
  askedAt,  \* history: the last record when the list was last asked for
  removal,  \* the DELETE of the task from this tab
  batch,    \* how far uploadAttachments is
  upload,   \* what it knows of each file
  spool,    \* the attachments of the session
  cut,      \* of these, the ones whose body was cut off
  lost      \* history: files of which an answer was lost

readVars == <<reader, restarts, served>>
listVars == <<list, asks, askedAt, removal>>
fileVars == <<batch, upload, spool, cut, lost>>
vars     == <<hook, log, readVars, listVars, fileVars>>

Kinds == {"none", "small", "large", "unreadable"}
Seqs  == 1..MaxSeq

Statuses == {"up-to-date", "appended", "cursor-too-old", "cursor-invalid"}
NoPage == [status |-> "up-to-date", next |-> 0, more |-> FALSE, dropped |-> 0, events |-> {}]

TypeOK ==
  /\ hook \in {"transcript", "list", "files"}
  /\ log \in [kept : BOOLEAN, first : 0..MaxSeq, last : 0..MaxSeq, drift : 0..1, rec : [Seqs -> Kinds]]
  /\ log.first <= log.last \/ log.last = 0
  /\ reader.phase \in {"idle", "asking", "answered", "done", "failed"}
  /\ reader.since \in Nat \cup {Start}
  /\ reader.got \subseteq Seqs
  /\ reader.pages \in 0..MaxPages
  /\ reader.page.status \in Statuses
  /\ restarts \in 0..MaxPages /\ served \in 0..MaxSeq
  /\ list.latest \in 0..MaxAsks /\ list.row \subseteq 0..MaxSeq
  /\ \A a \in asks : a.id \in 1..list.latest
  /\ askedAt \in 0..MaxSeq
  /\ removal \in {"none", "asked", "done", "refused", "over"}
  /\ batch \in {"idle", "sending", "undoing", "sent", "failed"}
  /\ upload \in [Files -> {"none", "sending", "ok", "refused", "lost", "discarded"}]
  /\ cut \subseteq spool \cup lost /\ spool \cup lost \subseteq Files

Reading == reader.phase \in {"asking", "answered"}

(* A reader that has asked for nothing yet.                                *)
NewCursor(since) ==
  [phase |-> "asking", asked |-> since, since |-> since, got |-> {}, dropped |-> 0,
   truncated |-> FALSE, restarted |-> FALSE, more |-> FALSE, rehydrate |-> FALSE,
   pages |-> 0, page |-> NoPage]

(* Logs as the store may hold them: with the head, some records or the     *)
(* tail gone (an old import, a restored database), with records that this  *)
(* build cannot read, and with records that were never stored.             *)
Logs ==
  {l \in [kept : {TRUE}, first : 0..2, last : {0, MaxSeq - 1}, drift : {0}, rec : [Seqs -> Kinds]] :
     /\ IF l.last = 0 THEN l.first = 0 ELSE l.first \in 1..l.last
     /\ \A q \in Seqs : q \notin l.first..l.last => l.rec[q] = "none"
     /\ l.first # 0 => l.rec[l.first] # "none"}

(* A request of the list, not served yet.                                  *)
Request(id, query) == [id |-> id, query |-> query, answer |-> "none", row |-> {}]

Init ==
  /\ hook \in {"transcript", "list", "files"}
  /\ log \in IF hook = "transcript" THEN Logs ELSE {l \in Logs : l.last = 0}
  /\ reader = [NewCursor(Start) EXCEPT !.phase = "idle"]
  /\ restarts = 0 /\ served = 0
  /\ list = [query |-> "", latest |-> 1, row |-> {}, searching |-> FALSE, loading |-> TRUE, error |-> FALSE]
  /\ asks = {Request(1, "")} /\ askedAt = 0 /\ removal = "none"
  /\ batch = "idle" /\ upload = [f \in Files |-> "none"]
  /\ spool = {} /\ cut = {} /\ lost = {}

----------------------------------------------------------------------------
(* SessionStore.read *)

Stored(q) == log.rec[q] # "none"
Bytes(qs) == Cardinality(qs) + (MaxPageBytes - 1) * Cardinality({q \in qs : log.rec[q] = "large"})

(* Faulty variants, here and below, stand before what they would replace.  *)
RowsToCap(from) ==
  {q \in from..MaxSeq : Stored(q) /\ Cardinality({r \in from..(q - 1) : Stored(r)}) < PageSize}

(* Two rows past the cap, so that the loop sees the row that ends a page.  *)
Rows(from) ==
  {q \in from..MaxSeq : Stored(q) /\ Cardinality({r \in from..(q - 1) : Stored(r)}) < PageSize + 2}

(* A page takes a record within both budgets; the first one always.        *)
Fits(readable, q) ==
  LET before == {r \in readable : r < q}
  IN before = {} \/ (Cardinality(before) < PageSize /\ Bytes(before \cup {q}) <= MaxPageBytes)

(* The rows from record from on.  What the loop stepped over is dropped:   *)
(* gaps and unreadable records, up to the record that filled the page, or  *)
(* before the one that no longer fitted.  More is left when a row was not  *)
(* served, but a page that serves nothing is terminal.                     *)
Filled(from, start) ==
  LET rows     == Rows(from)
      readable == {q \in rows : log.rec[q] # "unreadable"}
      events   == {q \in readable : Fits(readable, q)}
      seen     == from..(CASE Cardinality(events) = PageSize -> Max(events)
                           [] Cardinality(events) # PageSize /\ events # readable ->
                                Min(readable \ events) - 1
                           [] OTHER -> Max(rows))
      dropped  == Cardinality(seen \ events) + log.drift
  IN [status |-> CASE events # {} -> "appended"
                   [] events = {} /\ dropped > 0 -> "cursor-invalid"
                   [] OTHER -> "up-to-date",
      next |-> Max(events \cup {start}),
      more |-> events # {} /\ events # rows,
      dropped |-> dropped,
      events |-> events]

Refusing(status, dropped) == [NoPage EXCEPT !.status = status, !.dropped = dropped]

FromOne(since) == IF since = Start THEN 1 ELSE since + 1
From(since)    == IF since = Start THEN log.first ELSE since + 1

(* The page after since.  The records claimed and not stored are told      *)
(* before any page is served.                                              *)
Page(since) ==
  LET start == IF since = Start THEN 0 ELSE since
      top   == {q \in Seqs : log.rec[q] # "none"}
  IN CASE log.last = 0 -> NoPage
       [] log.last # 0 /\ since # Start /\ start + 1 < log.first -> Refusing("cursor-too-old", 0)
       [] log.last # 0 /\ since # Start /\ start > log.last -> Refusing("cursor-invalid", 0)
       [] log.last # 0 /\ since # Start /\ start = log.last -> [NoPage EXCEPT !.next = start]
       [] OTHER ->
            IF \A q \in top : q < log.last
              THEN Refusing("cursor-invalid", 1)
              ELSE Filled(From(since), start)

----------------------------------------------------------------------------
(* TranscriptCursor *)

(* accept(), a cursor the store disowned: back to the start, or the end    *)
(* of the read when it was there already.                                  *)
Refused(r) ==
  IF r.restarted \/ r.since = Start
    THEN [r EXCEPT !.rehydrate = TRUE, !.truncated = TRUE, !.phase = "done"]
    ELSE [r EXCEPT !.rehydrate = TRUE, !.restarted = TRUE, !.since = Start, !.phase = "asking"]

(* accept(), a page: what was read before a restart goes now.              *)
Absorbed(r, page) ==
  [r EXCEPT !.got = (IF r.restarted THEN {} ELSE @) \cup page.events,
            !.dropped = (IF r.restarted THEN 0 ELSE @) + page.dropped,
            !.restarted = FALSE,
            !.since = page.next,
            !.more = page.more,
            !.truncated = @ \/ (page.more /\ page.events = {}),
            !.phase = IF page.more /\ page.events # {} THEN "asking" ELSE "done"]

Accepted(r, page) ==
  IF page.status \in {"cursor-too-old", "cursor-invalid"} THEN Refused(r) ELSE Absorbed(r, page)

FinishedPast(r) ==
  IF r.phase = "asking" /\ r.pages > MaxPages
    THEN [r EXCEPT !.phase = "done", !.truncated = @ \/ r.more]
    ELSE r

(* finish(): the page bound ended the read.                                *)
Finished(r) ==
  IF r.phase = "asking" /\ r.pages = MaxPages
    THEN [r EXCEPT !.phase = "done", !.truncated = @ \/ r.more]
    ELSE r

StartRead(since) ==
  /\ hook = "transcript" /\ reader.phase = "idle"
  /\ reader' = NewCursor(since)
  /\ UNCHANGED <<hook, log, restarts, served, listVars, fileVars>>

(* GET events; a session that is gone is a 404, which ends the read.       *)
ServePage ==
  /\ reader.phase = "asking"
  /\ reader' = IF log.kept
                 THEN [reader EXCEPT !.phase = "answered", !.page = Page(reader.since),
                                     !.pages = @ + 1]
                 ELSE [reader EXCEPT !.phase = "failed"]
  /\ served' = log.last
  /\ UNCHANGED <<hook, log, restarts, listVars, fileVars>>

TakePage ==
  /\ reader.phase = "answered"
  /\ reader' = [Finished(Accepted(reader, reader.page)) EXCEPT !.page = NoPage]
  /\ restarts' = IF reader.page.status \in {"cursor-too-old", "cursor-invalid"}
                    /\ ~reader.restarted /\ reader.since # Start
                   THEN restarts + 1 ELSE restarts
  /\ UNCHANGED <<hook, log, served, listVars, fileVars>>

LosePage ==
  /\ Reading
  /\ reader' = [reader EXCEPT !.phase = "failed", !.page = NoPage]
  /\ UNCHANGED <<hook, log, restarts, served, listVars, fileVars>>

----------------------------------------------------------------------------
(* useStoredSessions *)

(* The effect: on mount, on a change of the query, on refresh().           *)
Ask(q) ==
  /\ hook = "list" /\ list.latest < MaxAsks
  /\ list' = [list EXCEPT !.query = q, !.latest = @ + 1, !.loading = TRUE]
  /\ asks' = asks \cup {Request(list.latest + 1, q)}
  /\ askedAt' = log.last
  /\ UNCHANGED <<hook, log, readVars, removal, fileVars>>

(* The task's row, with its last record.                                   *)
Listed == IF log.kept THEN {log.last} ELSE {}

(* GET sessions.                                                           *)
ServeList(a) ==
  /\ a \in asks /\ a.answer = "none"
  /\ asks' = (asks \ {a}) \cup
             {[a EXCEPT !.answer = "ok", !.row = Listed]}
  /\ UNCHANGED <<hook, log, readVars, list, askedAt, removal, fileVars>>

Whichever(a) == a.id <= list.latest
IsLatest(a)  == a.id = list.latest

ListLands(a) ==
  /\ a \in asks /\ a.answer = "ok"
  /\ asks' = asks \ {a}
  /\ list' = IF IsLatest(a)
               THEN [list EXCEPT !.row = a.row, !.searching = (a.query # ""),
                                 !.error = FALSE, !.loading = FALSE]
               ELSE list
  /\ UNCHANGED <<hook, log, readVars, askedAt, removal, fileVars>>

ListFails(a) ==
  /\ a \in asks
  /\ asks' = asks \ {a}
  /\ list' = IF IsLatest(a)
               THEN [list EXCEPT !.row = {}, !.error = TRUE, !.loading = FALSE]
               ELSE list
  /\ UNCHANGED <<hook, log, readVars, askedAt, removal, fileVars>>

(* remove(): the row goes when the server has said so.                     *)
AskRemoval ==
  /\ hook = "list" /\ removal = "none" /\ list.row # {}
  /\ removal' = "asked"
  /\ UNCHANGED <<hook, log, readVars, list, asks, askedAt, fileVars>>

ServeRemoval ==
  /\ removal = "asked"
  /\ removal' = IF log.kept THEN "done" ELSE "refused"
  /\ log' = [log EXCEPT !.kept = FALSE]
  /\ UNCHANGED <<hook, readVars, list, asks, askedAt, fileVars>>

RemovalLands ==
  /\ removal \in {"done", "refused"}
  /\ removal' = "over"
  /\ list' = IF removal = "done" THEN [list EXCEPT !.row = {}] ELSE list
  /\ UNCHANGED <<hook, log, readVars, asks, askedAt, fileVars>>

----------------------------------------------------------------------------
(* useAttachments *)

(* assertWithinBudget, then every file at once.                            *)
StartUpload(fs) ==
  /\ hook = "files" /\ batch = "idle" /\ fs # {}
  /\ IF Cardinality(fs) > MaxFiles
       THEN batch' = "failed" /\ UNCHANGED upload
       ELSE /\ batch' = "sending"
            /\ upload' = [f \in Files |-> IF f \in fs THEN "sending" ELSE "none"]
  /\ UNCHANGED <<hook, log, readVars, listVars, spool, cut, lost>>

(* POST attachments: the whole body arrives, and is spooled or refused     *)
(* (its name, its size, the store's cap, a session that is gone).  Its     *)
(* answer may be lost on the way back.                                     *)
ServeUpload(f) ==
  /\ upload[f] = "sending"
  /\ \/ /\ log.kept /\ spool' = spool \cup {f}
        /\ \/ upload' = [upload EXCEPT ![f] = "ok"] /\ UNCHANGED lost
           \/ upload' = [upload EXCEPT ![f] = "lost"] /\ lost' = lost \cup {f}
     \/ upload' = [upload EXCEPT ![f] = "refused"] /\ UNCHANGED <<spool, lost>>
  /\ UNCHANGED <<hook, log, readVars, listVars, batch, cut>>

(* The connection breaks under the body.  readCappedBody takes an error    *)
(* for the end, so what has arrived is spooled; a body that stalls or      *)
(* never came is not.                                                      *)
CutUpload(f) ==
  /\ upload[f] = "sending"
  /\ upload' = [upload EXCEPT ![f] = "lost"]
  /\ lost' = lost \cup {f}
  /\ \/ log.kept /\ spool' = spool \cup {f} /\ cut' = cut \cup {f}
     \/ UNCHANGED <<spool, cut>>
  /\ UNCHANGED <<hook, log, readVars, listVars, batch>>

(* Variant: Promise.all, which fails with the first failure.               *)
SettledAtFirst ==
  /\ batch = "sending"
  /\ \/ /\ \E f \in Files : upload[f] \in {"refused", "lost"}
        /\ batch' = "failed"
     \/ /\ \A f \in Files : upload[f] \in {"none", "ok"}
        /\ batch' = "sent"
  /\ UNCHANGED <<hook, log, readVars, listVars, upload, spool, cut, lost>>

(* allSettled: a failure gives back what succeeded before it is told.      *)
Settled ==
  /\ batch = "sending"
  /\ \A f \in Files : upload[f] # "sending"
  /\ batch' = IF \A f \in Files : upload[f] \in {"none", "ok"} THEN "sent" ELSE "undoing"
  /\ UNCHANGED <<hook, log, readVars, listVars, upload, spool, cut, lost>>

(* discardAttachment, whose failure nobody is told of.                     *)
Discard(f) ==
  /\ batch = "undoing" /\ upload[f] = "ok"
  /\ upload' = [upload EXCEPT ![f] = "discarded"]
  /\ \/ spool' = spool \ {f} /\ UNCHANGED lost
     \/ lost' = lost \cup {f} /\ spool' \in {spool, spool \ {f}}
  /\ UNCHANGED <<hook, log, readVars, listVars, batch, cut>>

UndoneWhenEmpty ==
  /\ batch = "undoing" /\ spool = {}
  /\ batch' = "failed"
  /\ UNCHANGED <<hook, log, readVars, listVars, upload, spool, cut, lost>>

Undone ==
  /\ batch = "undoing"
  /\ \A f \in Files : upload[f] # "ok"
  /\ batch' = "failed"
  /\ UNCHANGED <<hook, log, readVars, listVars, upload, spool, cut, lost>>

----------------------------------------------------------------------------
(* The store goes on, as far as the hook that is followed can tell *)

Recorded ==
  /\ Reading \/ hook = "list"
  /\ log.kept /\ log.last < MaxSeq
  /\ log' = [log EXCEPT !.last = @ + 1, !.first = IF @ = 0 THEN 1 ELSE @,
                        !.rec[log.last + 1] = "small"]
  /\ UNCHANGED <<hook, readVars, listVars, fileVars>>

Drop ==
  /\ Reading
  /\ log.kept /\ log.drift = 0
  /\ log' = [log EXCEPT !.drift = 1]
  /\ UNCHANGED <<hook, readVars, listVars, fileVars>>

(* Deleted from another tab, or evicted: the cascade takes the files.      *)
RemoveSession ==
  /\ Reading \/ hook = "list" \/ batch \in {"sending", "undoing"}
  /\ log.kept
  /\ log' = [log EXCEPT !.kept = FALSE]
  /\ spool' = {} /\ cut' = {}
  /\ UNCHANGED <<hook, readVars, listVars, batch, upload, lost>>

Next ==
  \/ \E since \in Cursors : StartRead(since)
  \/ ServePage \/ TakePage \/ LosePage
  \/ \E q \in Queries : Ask(q)
  \/ \E a \in asks : ServeList(a) \/ ListLands(a) \/ ListFails(a)
  \/ AskRemoval \/ ServeRemoval \/ RemovalLands
  \/ \E fs \in SUBSET Files : StartUpload(fs)
  \/ \E f \in Files : ServeUpload(f) \/ CutUpload(f) \/ Discard(f)
  \/ Settled \/ Undone
  \/ Recorded \/ Drop \/ RemoveSession

(* A fetch settles, with its answer or with an error; the hooks go on as   *)
(* soon as theirs has.                                                     *)
Fairness ==
  /\ WF_vars(LosePage \/ ServePage \/ TakePage)
  /\ WF_vars(\E a \in asks : a.id = list.latest /\ (ListFails(a) \/ ServeList(a) \/ ListLands(a)))
  /\ \A f \in Files : WF_vars(CutUpload(f) \/ ServeUpload(f)) /\ WF_vars(Discard(f))
  /\ WF_vars(Settled) /\ WF_vars(Undone)

Spec == Init /\ [][Next]_vars /\ Fairness

----------------------------------------------------------------------------
(* Correctness *)

(* What was asked for, as the last page found it.                          *)
ReadAll ==
  reader.got = {q \in Seqs : /\ log.first <= q /\ q <= served
                             /\ reader.asked = Start \/ restarts > 0 \/ q > reader.asked}

(* A transcript that carries no warning, neither truncated nor dropped, is *)
(* every record of the session up to the last one at its last page, over   *)
(* any page boundary, gap, unreadable record, restart and append.          *)
WholeReadIsWhole ==
  reader.phase = "done" /\ ~reader.truncated /\ reader.dropped = 0 => ReadAll

(* And a session that lost nothing is read whole, without a warning,       *)
(* unless the page bound ends the read (accept, finish).                   *)
CleanLogIsReadWhole ==
  /\ reader.phase = "done" /\ reader.pages < MaxPages
  /\ log.drift = 0
  /\ \A q \in log.first..log.last : q > 0 => log.rec[q] \in {"small", "large"}
  => ~reader.truncated /\ reader.dropped = 0 /\ ReadAll

(* A cursor is disowned at most once in a read: "the only way out of a     *)
(* refusal is the single restart" (useStoredSessions.ts, TranscriptCursor).*)
OneRestart == restarts <= 1

(* What the list shows once it has loaded answers the query in the field   *)
(* and is no older than the last refresh, in whatever order answers come.  *)
ListIsCurrent ==
  hook = "list" /\ ~list.loading /\ ~list.error =>
    /\ list.searching = (list.query # "")
    /\ \A upTo \in list.row : upTo >= askedAt

(* A task this tab was told is deleted does not come back.                 *)
RemovedStaysGone == [][removal = "over" /\ ~log.kept => list.row' \subseteq list.row]_vars

(* A batch is all there, with every byte, when the prompt that names it is *)
(* sent; and when it failed nothing of it is left but what an answer that  *)
(* never came would have told of.                                          *)
BatchIsAllOrNothing ==
  /\ batch = "sent" /\ log.kept => {f \in Files : upload[f] # "none"} \subseteq spool \ cut
  /\ batch = "failed" => spool \subseteq lost

(* What is spooled is what was picked.                                     *)
SpoolIsWhole == cut = {}

(* No hook waits for ever: a read, the list's loading state and a batch    *)
(* end when their requests are answered.                                   *)
EveryHookSettles ==
  /\ Reading ~> ~Reading
  /\ hook = "list" /\ list.loading ~> ~list.loading
  /\ batch = "sending" ~> batch \in {"sent", "failed"}
=============================================================================
