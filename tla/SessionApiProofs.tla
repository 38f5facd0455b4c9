--------------------------- MODULE SessionApiProofs ---------------------------
(* Proofs about SessionApi.                                                  *)
(*                                                                           *)
(* The list of tasks answers the question last asked (ListInv), and a batch  *)
(* of files is kept whole or given back (FileInv, BatchInv).                 *)
(*                                                                           *)
(* A transcript read without a warning is whole (ReadInv).  What a page does *)
(* not serve it counts, so a page that counted nothing is an unbroken run of *)
(* records (FilledFacts), which starts where the reader stands and ends at   *)
(* its next cursor or, when no more is left, at the end of the log: GotInv   *)
(* says that the runs taken so far make up what was asked for.  The store    *)
(* may add records, drop one or delete the session between a page and the    *)
(* next (LogGrows); served is the record that was the last at the last page. *)
EXTENDS SessionApi, FiniteSetTheorems, TLAPS

----------------------------------------------------------------------------
(* The inductive invariant *)

Log == [kept : BOOLEAN, first : Nat, last : Nat, drift : Nat, rec : [Seqs -> Kinds]]
List == [query : Queries, latest : Nat, row : SUBSET Nat, searching : BOOLEAN,
         loading : BOOLEAN, error : BOOLEAN]
Asks == [id : Nat, query : Queries, answer : {"none", "ok"}, row : SUBSET Nat]
Uploads == {"none", "sending", "ok", "refused", "lost", "discarded"}

TypeInv ==
  /\ log \in Log /\ list \in List /\ asks \subseteq Asks /\ askedAt \in Nat
  /\ upload \in [Files -> Uploads]
  /\ spool \subseteq Files /\ cut \subseteq Files /\ lost \subseteq Files

(* An answer to the last request is no older than the request, and what is   *)
(* shown is such an answer.                                                  *)
ListInv ==
  /\ askedAt <= log.last
  /\ \A a \in asks : /\ a.id <= list.latest
                     /\ a.id = list.latest => a.query = list.query
                     /\ a.id = list.latest => \A upTo \in a.row : upTo >= askedAt
  /\ ~list.loading /\ ~list.error =>
       list.searching = (list.query # "") /\ \A upTo \in list.row : upTo >= askedAt

(* What the hook knows of a file and what the store has of it.               *)
FileInv == \A f \in Files :
  /\ f \in spool => upload[f] = "ok" \/ f \in lost
  /\ upload[f] = "ok" => (log.kept => f \in spool)
  /\ upload[f] \in {"none", "sending", "ok"} => f \notin lost
  /\ f \in cut => f \in lost

BatchInv ==
  /\ batch = "idle" => \A f \in Files : upload[f] = "none"
  /\ batch = "undoing" => \A f \in Files : upload[f] # "sending"
  /\ batch = "sent" => \A f \in Files : upload[f] \in {"none", "ok"}
  /\ batch = "failed" => \A f \in Files : upload[f] \notin {"ok", "sending"}

IInv == TypeInv /\ ListInv /\ FileInv /\ BatchInv

----------------------------------------------------------------------------
(* The inductive invariant of a read                                         *)

Disowned(page) == page.status \in {"cursor-too-old", "cursor-invalid"}

(* A page of Page, and a reader.                                             *)
Pages == [status : Statuses, next : Nat, more : BOOLEAN, dropped : Nat, events : SUBSET Seqs]
Readers ==
  [phase : {"idle", "asking", "answered", "done", "failed"}, asked : Nat \cup {Start},
   since : Nat \cup {Start}, got : SUBSET Seqs, dropped : Nat, truncated : BOOLEAN,
   restarted : BOOLEAN, more : BOOLEAN, rehydrate : BOOLEAN, pages : Nat, page : Pages]

(* The records of the session stand between its first and its last.          *)
LogInv ==
  /\ log.last <= MaxSeq /\ log.first <= log.last /\ log.drift <= 1
  /\ log.last # 0 => log.first # 0
  /\ \A q \in Seqs : q \notin log.first..log.last => log.rec[q] = "none"

(* A session that lost nothing.                                              *)
Clean ==
  /\ log.drift = 0
  /\ \A q \in log.first..log.last : q > 0 => log.rec[q] \in {"small", "large"}

FromTheStart == reader.asked = Start \/ restarts > 0

(* What was asked for and what the next page brings, up to a record.         *)
Wanted(upTo) == {q \in Seqs : /\ log.first <= q /\ q <= upTo
                              /\ FromTheStart \/ q > reader.asked}
Coming(upTo) == {q \in Seqs : /\ log.first <= q /\ q <= upTo
                              /\ reader.since = Start \/ q > reader.since}

(* The page bound, and the pages that a restart costs.                       *)
PagesInv ==
  /\ reader.pages <= MaxPages /\ restarts <= reader.pages
  /\ reader.phase = "idle" => reader.pages = 0
  /\ reader.phase = "asking" => /\ reader.pages < MaxPages
                                /\ reader.pages = 0 \/ reader.more \/ reader.restarted
  /\ reader.phase = "answered" => /\ restarts < reader.pages
                                  /\ reader.pages = 1 \/ reader.more \/ reader.restarted

CursorInv == Reading =>
  /\ reader.since = Start => FromTheStart
  /\ ~FromTheStart /\ reader.dropped = 0 => reader.asked <= reader.since
  /\ reader.restarted => reader.since = Start

(* While no warning is due, what was read is what was asked for up to the    *)
(* cursor, and the page at hand is what comes next, to the end when it says  *)
(* that no more is left.                                                     *)
GotInv ==
  /\ served <= log.last
  /\ Reading /\ ~reader.truncated /\ ~reader.restarted /\ reader.dropped = 0 =>
       /\ \A q \in reader.got : q <= served
       /\ reader.got = IF reader.since = Start THEN {} ELSE Wanted(reader.since)
  /\ reader.phase = "answered" /\ ~Disowned(reader.page) /\ reader.page.dropped = 0 =>
       /\ reader.page.events = Coming(IF reader.page.more THEN reader.page.next ELSE served)
       /\ reader.page.more => /\ reader.page.next <= served
                              /\ reader.since # Start => reader.since <= reader.page.next
  /\ reader.phase = "done" /\ MaxPages > 1 => WholeReadIsWhole

(* A session that lost nothing gives no warning.                             *)
CleanInv == Clean =>
  /\ Reading \/ reader.phase = "done" => reader.dropped = 0
  /\ Reading \/ (reader.phase = "done" /\ reader.pages < MaxPages) => ~reader.truncated
  /\ reader.phase = "answered" =>
       /\ Disowned(reader.page) => reader.since # Start
       /\ reader.page.dropped = 0
       /\ reader.page.more => reader.page.events # {}

ReadInv ==
  /\ reader \in Readers /\ restarts \in Nat /\ served \in Nat
  /\ LogInv /\ PagesInv /\ CursorInv /\ GotInv /\ CleanInv

(* The bounds of the model.                                                  *)
BoundInv ==
  /\ hook \in {"transcript", "list", "files"}
  /\ removal \in {"none", "asked", "done", "refused", "over"}
  /\ batch \in {"idle", "sending", "undoing", "sent", "failed"}
  /\ list.latest <= MaxAsks /\ list.row \subseteq 0..MaxSeq
  /\ \A a \in asks : a.id >= 1 /\ a.row \subseteq 0..MaxSeq

Inv == IInv /\ ReadInv /\ BoundInv

----------------------------------------------------------------------------
(* What the first state gives                                                *)

LEMMA Requests ==
  ASSUME NEW id \in Nat, NEW q \in Queries
  PROVE  /\ Request(id, q) \in Asks /\ Request(id, q).id = id
         /\ Request(id, q).query = q /\ Request(id, q).row = {}
BY DEF Request, Asks

LEMMA InitInv == Init => IInv
<1> SUFFICES ASSUME Init PROVE IInv
  OBVIOUS
<1> DEFINE first == Request(1, "")
<1>1. /\ askedAt = 0 /\ asks = {first}
      /\ batch = "idle" /\ upload = [f \in Files |-> "none"]
      /\ spool = {} /\ cut = {} /\ lost = {}
      /\ log \in Logs
  BY DEF Init
<1>2. log \in Log
  <2>1. MaxSeq \in Nat \ {0}
    BY BoundsArePositive
  <2>2. log \in [kept : {TRUE}, first : 0..2, last : {0, MaxSeq - 1}, drift : {0}, rec : [Seqs -> Kinds]]
    BY <1>1 DEF Logs
  <2>3. /\ log = [kept |-> log.kept, first |-> log.first, last |-> log.last,
                   drift |-> log.drift, rec |-> log.rec]
        /\ log.kept = TRUE /\ log.first \in 0..2 /\ log.last \in {0, MaxSeq - 1}
        /\ log.drift = 0 /\ log.rec \in [Seqs -> Kinds]
    BY <2>2
  <2>4. log.last \in Nat /\ log.first \in Nat /\ log.drift \in Nat
    BY <2>1, <2>3
  <2> QED
    BY <2>3, <2>4 DEF Log
<1>3. list \in List
  <2>1. \A q \in Queries : [query |-> q, latest |-> 1, row |-> {}, searching |-> FALSE,
                           loading |-> TRUE, error |-> FALSE] \in List
    BY DEF List
  <2> QED
    BY <2>1, EmptyQuery DEF Init
<1>4. list.latest = 1 /\ list.loading = TRUE /\ list.query = ""
  BY DEF Init
<1>5. first \in Asks /\ first.id = 1 /\ first.query = "" /\ first.row = {}
  BY EmptyQuery, Requests
<1> HIDE DEF first
<1>6. TypeInv
  BY <1>1, <1>2, <1>3, <1>5 DEF TypeInv, Uploads
<1>7. ListInv
  <2>1. askedAt <= log.last
    BY <1>1, <1>2 DEF Log
  <2>2. \A a \in asks : a = first
    BY <1>1
  <2>3. first.id <= list.latest
    <3>1. 1 <= 1
      OBVIOUS
    <3> QED
      BY <1>4, <1>5, <3>1, Zenon
  <2> QED
    BY <1>4, <1>5, <2>1, <2>2, <2>3 DEF ListInv
<1>8. FileInv /\ BatchInv
  BY <1>1 DEF FileInv, BatchInv
<1> QED
  BY <1>6, <1>7, <1>8 DEF IInv

----------------------------------------------------------------------------
(* The steps of the list                                                     *)

LEMMA AskInv == IInv /\ (\E q \in Queries : Ask(q)) => IInv'
<1> SUFFICES ASSUME IInv, NEW q \in Queries, Ask(q) PROVE IInv'
  OBVIOUS
<1> USE DEF IInv
<1> DEFINE next == list.latest + 1
           new == Request(next, q)
<1>1. list \in List /\ list.latest \in Nat /\ next \in Nat /\ log.last \in Nat
  BY DEF TypeInv, List, Log
<1>2. list' = [list EXCEPT !.query = q, !.latest = next, !.loading = TRUE]
  BY DEF Ask
<1>3. list' \in List /\ list'.query = q /\ list'.latest = list.latest + 1 /\ list'.loading = TRUE
  <2> HIDE DEF next, IInv
  <2>1. list' \in List /\ list'.query = q /\ list'.latest = next /\ list'.loading = TRUE
    BY <1>1, <1>2 DEF List
  <2> QED
    BY <2>1 DEF next
<1>4. new \in Asks /\ new.id = list.latest + 1 /\ new.query = q /\ new.row = {}
  BY <1>1, Requests
<1> HIDE DEF new
<1>5. asks' = asks \cup {new} /\ askedAt' = log.last
  BY DEF Ask, new
<1>6. UNCHANGED <<log, batch, upload, spool, cut, lost>>
  BY DEF Ask, fileVars
<1>7. TypeInv'
  BY <1>1, <1>3, <1>4, <1>5, <1>6 DEF TypeInv
<1>8. ListInv'
  <2>1. askedAt' <= log'.last
    BY <1>1, <1>5, <1>6
  <2>2. \A a \in asks : a.id \in Nat /\ a.id <= list.latest
    BY DEF TypeInv, ListInv, Asks
  <2>3. \A a \in asks : a.id <= list'.latest /\ a.id # list'.latest
    BY <1>1, <1>3, <2>2
  <2>4. new.id <= list'.latest
    BY <1>1, <1>3, <1>4
  <2> QED
    BY <1>3, <1>4, <1>5, <2>1, <2>3, <2>4 DEF ListInv
<1>9. FileInv' /\ BatchInv'
  BY <1>6 DEF FileInv, BatchInv
<1> QED
  BY <1>7, <1>8, <1>9

LEMMA ServeListInv == IInv /\ (\E a \in asks : ServeList(a)) => IInv'
<1> SUFFICES ASSUME IInv, NEW a \in asks, ServeList(a) PROVE IInv'
  OBVIOUS
<1> USE DEF IInv
<1> DEFINE b == [a EXCEPT !.answer = "ok", !.row = Listed]
<1>1. a \in Asks /\ log.last \in Nat /\ log \in Log
  BY DEF TypeInv, Log
<1>2. Listed \in SUBSET Nat /\ \A upTo \in Listed : upTo = log.last
  BY <1>1 DEF Listed
<1>3. b \in Asks /\ b.id = a.id /\ b.query = a.query /\ b.row = Listed
  BY <1>1, <1>2 DEF Asks
<1> HIDE DEF b
<1>4. asks' = (asks \ {a}) \cup {b}
  BY DEF ServeList, b
<1>5. UNCHANGED <<log, list, askedAt, batch, upload, spool, cut, lost>>
  BY DEF ServeList, fileVars
<1>6. TypeInv'
  BY <1>3, <1>4, <1>5 DEF TypeInv
<1>7. ListInv'
  <2>1. askedAt \in Nat /\ askedAt <= log.last
    BY DEF TypeInv, ListInv
  <2>2. \A upTo \in b.row : upTo >= askedAt
    BY <1>1, <1>2, <1>3, <2>1
  <2>3. \A x \in asks' : x = b \/ x \in asks
    BY <1>4
  <2> QED
    BY <1>3, <1>5, <2>2, <2>3 DEF ListInv
<1>8. FileInv' /\ BatchInv'
  BY <1>5 DEF FileInv, BatchInv
<1> QED
  BY <1>6, <1>7, <1>8

LEMMA ListLandsInv == IInv /\ (\E a \in asks : ListLands(a)) => IInv'
<1> SUFFICES ASSUME IInv, NEW a \in asks, ListLands(a) PROVE IInv'
  OBVIOUS
<1> USE DEF IInv
<1> DEFINE shown == [list EXCEPT !.row = a.row, !.searching = (a.query # ""),
                                 !.error = FALSE, !.loading = FALSE]
<1>1. a \in Asks /\ list \in List
  BY DEF TypeInv
<1>2. /\ shown \in List /\ shown.latest = list.latest /\ shown.query = list.query
      /\ shown.row = a.row /\ shown.searching = (a.query # "")
  BY <1>1 DEF List, Asks
<1> HIDE DEF shown
<1>3. list' = (IF IsLatest(a) THEN shown ELSE list) /\ asks' = asks \ {a}
  BY DEF ListLands, shown
<1>4. UNCHANGED <<log, askedAt, batch, upload, spool, cut, lost>>
  BY DEF ListLands, fileVars
<1>5. TypeInv'
  BY <1>2, <1>3, <1>4 DEF TypeInv
<1>6. ListInv'
  BY <1>2, <1>3, <1>4 DEF ListInv, IsLatest
<1>7. FileInv' /\ BatchInv'
  BY <1>4 DEF FileInv, BatchInv
<1> QED
  BY <1>5, <1>6, <1>7

LEMMA ListFailsInv == IInv /\ (\E a \in asks : ListFails(a)) => IInv'
<1> SUFFICES ASSUME IInv, NEW a \in asks, ListFails(a) PROVE IInv'
  OBVIOUS
<1> USE DEF IInv
<1> DEFINE shown == [list EXCEPT !.row = {}, !.error = TRUE, !.loading = FALSE]
<1>1. list \in List
  BY DEF TypeInv
<1>2. /\ shown \in List /\ shown.latest = list.latest /\ shown.query = list.query
      /\ shown.error = TRUE
  BY <1>1 DEF List
<1> HIDE DEF shown
<1>3. list' = (IF IsLatest(a) THEN shown ELSE list) /\ asks' = asks \ {a}
  BY DEF ListFails, shown
<1>4. UNCHANGED <<log, askedAt, batch, upload, spool, cut, lost>>
  BY DEF ListFails, fileVars
<1>5. TypeInv'
  BY <1>2, <1>3, <1>4 DEF TypeInv
<1>6. ListInv'
  BY <1>2, <1>3, <1>4 DEF ListInv
<1>7. FileInv' /\ BatchInv'
  BY <1>4 DEF FileInv, BatchInv
<1> QED
  BY <1>5, <1>6, <1>7

----------------------------------------------------------------------------
(* The steps of the store                                                    *)

LEMMA ServeRemovalInv == IInv /\ ServeRemoval => IInv'
<1> SUFFICES ASSUME IInv, ServeRemoval PROVE IInv'
  OBVIOUS
<1> USE DEF IInv
<1>1. log' = [log EXCEPT !.kept = FALSE] /\ log \in Log
  BY DEF ServeRemoval, TypeInv
<1>2. log' \in Log /\ log'.last = log.last /\ log'.kept = FALSE
  BY <1>1 DEF Log
<1>3. UNCHANGED <<list, asks, askedAt, batch, upload, spool, cut, lost>>
  BY DEF ServeRemoval, fileVars
<1>4. TypeInv'
  BY <1>2, <1>3 DEF TypeInv
<1>5. ListInv'
  BY <1>2, <1>3 DEF ListInv
<1>6. FileInv' /\ BatchInv'
  BY <1>2, <1>3 DEF FileInv, BatchInv
<1> QED
  BY <1>4, <1>5, <1>6

LEMMA RemovalLandsInv == IInv /\ RemovalLands => IInv'
<1> SUFFICES ASSUME IInv, RemovalLands PROVE IInv'
  OBVIOUS
<1> USE DEF IInv
<1> DEFINE bare == [list EXCEPT !.row = {}]
<1>1. list \in List
  BY DEF TypeInv
<1>2. /\ bare \in List /\ bare.row = {} /\ bare.latest = list.latest /\ bare.query = list.query
      /\ bare.loading = list.loading /\ bare.error = list.error /\ bare.searching = list.searching
  BY <1>1 DEF List
<1> HIDE DEF bare
<1>3. list' = bare \/ list' = list
  BY DEF RemovalLands, bare
<1>4. UNCHANGED <<log, asks, askedAt, batch, upload, spool, cut, lost>>
  BY DEF RemovalLands, fileVars
<1>5. TypeInv'
  BY <1>2, <1>3, <1>4 DEF TypeInv
<1>6. ListInv'
  BY <1>2, <1>3, <1>4 DEF ListInv
<1>7. FileInv' /\ BatchInv'
  BY <1>4 DEF FileInv, BatchInv
<1> QED
  BY <1>5, <1>6, <1>7

LEMMA RecordedInv == IInv /\ Recorded => IInv'
<1> SUFFICES ASSUME IInv, Recorded PROVE IInv'
  OBVIOUS
<1> USE DEF IInv
<1> DEFINE first == IF log.first = 0 THEN 1 ELSE log.first
           rec == [log.rec EXCEPT ![log.last + 1] = "small"]
<1>1. log \in Log /\ log.last \in Nat /\ log.last + 1 \in Nat /\ log.rec \in [Seqs -> Kinds]
  BY DEF TypeInv, Log
<1>2. first \in Nat /\ rec \in [Seqs -> Kinds]
  BY <1>1 DEF Log, Kinds
<1>3. log' = [log EXCEPT !.last = log.last + 1, !.first = first, !.rec = rec]
  BY DEF Recorded
<1> HIDE DEF first, rec
<1>4. log' \in Log /\ log'.last = log.last + 1 /\ log'.kept = log.kept
  BY <1>1, <1>2, <1>3 DEF Log
<1>5. UNCHANGED <<list, asks, askedAt, batch, upload, spool, cut, lost>>
  BY DEF Recorded, fileVars, listVars
<1>6. TypeInv'
  BY <1>4, <1>5 DEF TypeInv
<1>7. ListInv'
  <2>1. askedAt \in Nat /\ askedAt <= log.last
    BY DEF TypeInv, ListInv
  <2>2. askedAt' <= log'.last
    BY <1>1, <1>4, <1>5, <2>1
  <2> QED
    BY <1>5, <2>2 DEF ListInv
<1>8. FileInv' /\ BatchInv'
  BY <1>4, <1>5 DEF FileInv, BatchInv
<1> QED
  BY <1>6, <1>7, <1>8

LEMMA DropInv == IInv /\ Drop => IInv'
<1> SUFFICES ASSUME IInv, Drop PROVE IInv'
  OBVIOUS
<1> USE DEF IInv
<1>1. log' = [log EXCEPT !.drift = 1] /\ log \in Log
  BY DEF Drop, TypeInv
<1>2. log' \in Log /\ log'.last = log.last /\ log'.kept = log.kept
  BY <1>1 DEF Log
<1>3. UNCHANGED <<list, asks, askedAt, batch, upload, spool, cut, lost>>
  BY DEF Drop, fileVars, listVars
<1> QED
  BY <1>2, <1>3 DEF TypeInv, ListInv, FileInv, BatchInv

LEMMA RemoveSessionInv == IInv /\ RemoveSession => IInv'
<1> SUFFICES ASSUME IInv, RemoveSession PROVE IInv'
  OBVIOUS
<1> USE DEF IInv
<1>1. log' = [log EXCEPT !.kept = FALSE] /\ log \in Log
  BY DEF RemoveSession, TypeInv
<1>2. log' \in Log /\ log'.last = log.last /\ log'.kept = FALSE
  BY <1>1 DEF Log
<1>3. UNCHANGED <<list, asks, askedAt, batch, upload, lost>> /\ spool' = {} /\ cut' = {}
  BY DEF RemoveSession, listVars
<1>4. TypeInv'
  BY <1>2, <1>3 DEF TypeInv
<1>5. ListInv'
  BY <1>2, <1>3 DEF ListInv
<1>6. FileInv' /\ BatchInv'
  BY <1>2, <1>3 DEF FileInv, BatchInv
<1> QED
  BY <1>4, <1>5, <1>6

----------------------------------------------------------------------------
(* The steps of a batch                                                      *)

(* What a step of useAttachments leaves alone.                               *)
LEMMA FilesApart ==
  ASSUME IInv, UNCHANGED <<log, list, asks, askedAt>>, upload' \in [Files -> Uploads],
         spool' \subseteq Files, cut' \subseteq Files, lost' \subseteq Files
  PROVE  TypeInv' /\ ListInv'
BY DEF IInv, TypeInv, ListInv

LEMMA StartUploadInv == IInv /\ (\E fs \in SUBSET Files : StartUpload(fs)) => IInv'
<1> SUFFICES ASSUME IInv, NEW fs \in SUBSET Files, StartUpload(fs) PROVE IInv'
  OBVIOUS
<1>1. UNCHANGED <<log, list, asks, askedAt, spool, cut, lost>> /\ batch = "idle"
  BY DEF StartUpload, listVars
<1>2. \A f \in Files : upload[f] = "none"
  BY <1>1 DEF IInv, BatchInv
<1>3. \/ batch' = "failed" /\ upload' = upload
      \/ batch' = "sending" /\ upload' = [f \in Files |-> IF f \in fs THEN "sending" ELSE "none"]
  BY DEF StartUpload
<1>4. upload' \in [Files -> Uploads]
  BY <1>3 DEF IInv, TypeInv, Uploads
<1>5. \A f \in Files : f \in spool => f \in lost
  BY <1>2 DEF IInv, FileInv
<1>6. FileInv' /\ BatchInv'
  BY <1>1, <1>2, <1>3, <1>5 DEF IInv, FileInv, BatchInv
<1> QED
  BY <1>1, <1>4, <1>6, FilesApart DEF IInv, TypeInv

LEMMA ServeUploadInv == IInv /\ (\E f \in Files : ServeUpload(f)) => IInv'
<1> SUFFICES ASSUME IInv, NEW f \in Files, ServeUpload(f) PROVE IInv'
  OBVIOUS
<1>1. UNCHANGED <<log, list, asks, askedAt, batch, cut>> /\ upload[f] = "sending"
  BY DEF ServeUpload, listVars
<1>2. /\ upload \in [Files -> Uploads] /\ spool \subseteq Files /\ lost \subseteq Files
      /\ cut \subseteq Files
  BY DEF IInv, TypeInv
<1>3. \/ /\ upload' = [upload EXCEPT ![f] = "ok"] /\ spool' = spool \cup {f} /\ lost' = lost
      \/ /\ upload' = [upload EXCEPT ![f] = "lost"] /\ spool' = spool \cup {f}
         /\ lost' = lost \cup {f}
      \/ /\ upload' = [upload EXCEPT ![f] = "refused"] /\ spool' = spool /\ lost' = lost
  BY DEF ServeUpload
<1>4. /\ upload' \in [Files -> Uploads] /\ spool' \subseteq Files /\ lost' \subseteq Files
      /\ cut' \subseteq Files
  BY <1>1, <1>2, <1>3 DEF Uploads
<1>5. FileInv'
  BY <1>1, <1>2, <1>3 DEF IInv, FileInv
<1>6. batch \notin {"idle", "undoing", "sent", "failed"}
  BY <1>1 DEF IInv, BatchInv
<1>7. BatchInv'
  BY <1>1, <1>6 DEF BatchInv
<1> QED
  BY <1>1, <1>4, <1>5, <1>7, FilesApart DEF IInv

LEMMA CutUploadInv == IInv /\ (\E f \in Files : CutUpload(f)) => IInv'
<1> SUFFICES ASSUME IInv, NEW f \in Files, CutUpload(f) PROVE IInv'
  OBVIOUS
<1>1. UNCHANGED <<log, list, asks, askedAt, batch>> /\ upload[f] = "sending"
  BY DEF CutUpload, listVars
<1>2. /\ upload \in [Files -> Uploads] /\ spool \subseteq Files /\ lost \subseteq Files
      /\ cut \subseteq Files
  BY DEF IInv, TypeInv
<1>3. /\ upload' = [upload EXCEPT ![f] = "lost"] /\ lost' = lost \cup {f}
      /\ \/ spool' = spool \cup {f} /\ cut' = cut \cup {f}
         \/ spool' = spool /\ cut' = cut
  BY DEF CutUpload
<1>4. /\ upload' \in [Files -> Uploads] /\ spool' \subseteq Files /\ lost' \subseteq Files
      /\ cut' \subseteq Files
  BY <1>2, <1>3 DEF Uploads
<1>5. FileInv'
  BY <1>1, <1>2, <1>3 DEF IInv, FileInv
<1>6. batch \notin {"idle", "undoing", "sent", "failed"}
  BY <1>1 DEF IInv, BatchInv
<1>7. BatchInv'
  BY <1>1, <1>6 DEF BatchInv
<1> QED
  BY <1>1, <1>4, <1>5, <1>7, FilesApart DEF IInv

LEMMA SettledInv == IInv /\ (Settled \/ Undone) => IInv'
<1> SUFFICES ASSUME IInv, Settled \/ Undone PROVE IInv'
  OBVIOUS
<1>1. UNCHANGED <<log, list, asks, askedAt, upload, spool, cut, lost>>
  BY DEF Settled, Undone, listVars
<1>2. CASE Settled
  BY <1>1, <1>2 DEF Settled, IInv, TypeInv, ListInv, FileInv, BatchInv
<1>3. CASE Undone
  BY <1>1, <1>3 DEF Undone, IInv, TypeInv, ListInv, FileInv, BatchInv
<1> QED
  BY <1>2, <1>3

LEMMA DiscardInv == IInv /\ (\E f \in Files : Discard(f)) => IInv'
<1> SUFFICES ASSUME IInv, NEW f \in Files, Discard(f) PROVE IInv'
  OBVIOUS
<1>1. /\ UNCHANGED <<log, list, asks, askedAt, batch, cut>>
      /\ upload[f] = "ok" /\ batch = "undoing"
  BY DEF Discard, listVars
<1>2. /\ upload \in [Files -> Uploads] /\ spool \subseteq Files /\ lost \subseteq Files
      /\ cut \subseteq Files
  BY DEF IInv, TypeInv
<1>3. /\ upload' = [upload EXCEPT ![f] = "discarded"]
      /\ \/ spool' = spool \ {f} /\ lost' = lost
         \/ spool' \in {spool, spool \ {f}} /\ lost' = lost \cup {f}
  BY DEF Discard
<1>4. /\ upload' \in [Files -> Uploads] /\ spool' \subseteq Files /\ lost' \subseteq Files
      /\ cut' \subseteq Files
  BY <1>1, <1>2, <1>3 DEF Uploads
<1>5. FileInv'
  BY <1>1, <1>2, <1>3 DEF IInv, FileInv
<1>6. BatchInv'
  BY <1>1, <1>2, <1>3 DEF IInv, BatchInv
<1> QED
  BY <1>1, <1>4, <1>5, <1>6, FilesApart DEF IInv

LEMMA NextInv == IInv /\ [Next]_vars => IInv'
<1> SUFFICES ASSUME IInv, [Next]_vars PROVE IInv'
  OBVIOUS
<1>1. CASE ServePage \/ TakePage \/ LosePage \/ \E since \in Cursors : StartRead(since)
  <2>1. UNCHANGED <<log, list, asks, askedAt, batch, upload, spool, cut, lost>>
    BY <1>1 DEF ServePage, TakePage, LosePage, StartRead, listVars, fileVars
  <2> QED
    BY <2>1 DEF IInv, TypeInv, ListInv, FileInv, BatchInv
<1>2. CASE AskRemoval \/ UNCHANGED vars
  <2>1. UNCHANGED <<log, list, asks, askedAt, batch, upload, spool, cut, lost>>
    BY <1>2 DEF AskRemoval, fileVars, listVars, vars
  <2> QED
    BY <2>1 DEF IInv, TypeInv, ListInv, FileInv, BatchInv
<1>3. CASE \E q \in Queries : Ask(q)
  BY <1>3, AskInv
<1>4. CASE \E a \in asks : ServeList(a)
  BY <1>4, ServeListInv
<1>5. CASE \E a \in asks : ListLands(a)
  BY <1>5, ListLandsInv
<1>6. CASE \E a \in asks : ListFails(a)
  BY <1>6, ListFailsInv
<1>7. CASE ServeRemoval
  BY <1>7, ServeRemovalInv
<1>8. CASE RemovalLands
  BY <1>8, RemovalLandsInv
<1>9. CASE \E fs \in SUBSET Files : StartUpload(fs)
  BY <1>9, StartUploadInv
<1>10. CASE \E f \in Files : ServeUpload(f)
  BY <1>10, ServeUploadInv
<1>11. CASE \E f \in Files : CutUpload(f)
  BY <1>11, CutUploadInv
<1>12. CASE \E f \in Files : Discard(f)
  BY <1>12, DiscardInv
<1>13. CASE Settled \/ Undone
  BY <1>13, SettledInv
<1>14. CASE Recorded
  BY <1>14, RecordedInv
<1>15. CASE Drop
  BY <1>15, DropInv
<1>16. CASE RemoveSession
  BY <1>16, RemoveSessionInv
<1> QED
  BY <1>1, <1>2, <1>3, <1>4, <1>5, <1>6, <1>7, <1>8, <1>9, <1>10, <1>11, <1>12, <1>13,
     <1>14, <1>15, <1>16 DEF Next

----------------------------------------------------------------------------
(* Parts of an interval                                                      *)

LEMMA MinOf ==
  ASSUME NEW S \in SUBSET Nat, S # {}
  PROVE  Min(S) \in S /\ \A y \in S : Min(S) <= y
<1> DEFINE T == {X \in SUBSET Nat : \E n \in S : X = 0..n}
<1>1. T \subseteq FiniteSubsetsOf(Nat) /\ T # {}
  <2>1. \A n \in Nat : 0..n \in SUBSET Nat /\ IsFiniteSet(0..n)
    BY FS_Interval
  <2>2. T \subseteq FiniteSubsetsOf(Nat)
    BY <2>1 DEF FiniteSubsetsOf
  <2>3. PICK n \in S : TRUE
    OBVIOUS
  <2>4. 0..n \in T
    BY <2>1, <2>3
  <2> QED
    BY <2>2, <2>4
<1>2. PICK X \in T : \A Y \in T : ~(<<Y, X>> \in StrictSubsetOrdering(Nat))
  <2> HIDE DEF T
  <2> QED
    BY <1>1, FS_StrictSubsetOrderingWellFounded, WFMin
<1>3. PICK n \in S : X = 0..n
  OBVIOUS
<1>4. ASSUME NEW y \in S PROVE n <= y
  <2>1. 0..y \in T
    OBVIOUS
  <2>2. ~(0..y \subseteq 0..n /\ 0..y # 0..n)
    BY <1>2, <1>3, <2>1 DEF StrictSubsetOrdering
  <2>3. n \in Nat /\ y \in Nat
    OBVIOUS
  <2>4. ASSUME y < n PROVE FALSE
    <3>1. n \in 0..n /\ n \notin 0..y
      BY <2>3, <2>4
    <3>2. 0..y \subseteq 0..n
      BY <2>3, <2>4
    <3> QED
      BY <2>2, <3>1, <3>2
  <2> QED
    BY <2>3, <2>4
<1> QED
  BY <1>4 DEF Min

LEMMA MaxOf ==
  ASSUME NEW S \in SUBSET Nat, S # {}, NEW m \in Nat, \A y \in S : y <= m
  PROVE  Max(S) \in S /\ \A y \in S : y <= Max(S)
<1> DEFINE D == {d \in Nat : d <= m /\ m - d \in S}
<1>1. D \in SUBSET Nat /\ D # {}
  <2>1. PICK y \in S : TRUE
    OBVIOUS
  <2>2. m - y \in Nat /\ m - y <= m /\ m - (m - y) = y
    BY <2>1
  <2> QED
    BY <2>1, <2>2
<1>2. Min(D) \in D /\ \A d \in D : Min(D) <= d
  <2> HIDE DEF D
  <2> QED
    BY <1>1, MinOf
<1> DEFINE d == Min(D)
<1> HIDE DEF d
<1>3. d \in Nat /\ d <= m /\ m - d \in S
  BY <1>2 DEF d
<1>4. ASSUME NEW y \in S PROVE y <= m - d
  <2>1. y \in Nat /\ m - y \in Nat /\ m - y <= m /\ m - (m - y) = y
    OBVIOUS
  <2>2. d <= m - y
    BY <1>2, <2>1 DEF d
  <2> QED
    BY <1>3, <2>1, <2>2
<1>5. \E x \in S : \A y \in S : x >= y
  BY <1>3, <1>4
<1>6. Max(S) \in S /\ \A y \in S : Max(S) >= y
  BY <1>5 DEF Max
<1> QED
  BY <1>6

(* A part of what stands in an interval.                                     *)
LEMMA Smaller ==
  ASSUME NEW n \in Nat, NEW S \in SUBSET (1..n), NEW T \in SUBSET S
  PROVE  /\ IsFiniteSet(S) /\ IsFiniteSet(T)
         /\ Cardinality(S) \in Nat /\ Cardinality(T) \in Nat
         /\ Cardinality(T) <= Cardinality(S)
         /\ Cardinality(S) = 0 <=> S = {}
<1>1. IsFiniteSet(1..n)
  BY FS_Interval
<1>2. IsFiniteSet(S)
  BY <1>1, FS_Subset
<1> QED
  BY <1>2, FS_Subset, FS_CardinalityType, FS_EmptySet

LEMMA TimesIsMonotone ==
  ASSUME NEW k \in Nat, NEW a \in Nat, NEW b \in Nat, a <= b
  PROVE  k * a <= k * b /\ k * a \in Nat /\ k * b \in Nat
OBVIOUS

LEMMA FewerBytes ==
  ASSUME log \in Log, NEW S \in SUBSET Seqs, NEW T \in SUBSET S
  PROVE  Bytes(T) <= Bytes(S) /\ Bytes(T) \in Nat /\ Bytes(S) \in Nat
<1> DEFINE big(X) == {q \in X : log.rec[q] = "large"}
<1>1. MaxSeq \in Nat /\ MaxPageBytes - 1 \in Nat
  BY BoundsArePositive
<1>2. Cardinality(T) <= Cardinality(S) /\ Cardinality(T) \in Nat /\ Cardinality(S) \in Nat
  BY <1>1, Smaller DEF Seqs
<1>3. /\ Cardinality(big(T)) <= Cardinality(big(S))
      /\ Cardinality(big(T)) \in Nat /\ Cardinality(big(S)) \in Nat
  <2>1. big(S) \in SUBSET (1..MaxSeq) /\ big(T) \in SUBSET big(S)
    BY DEF Seqs
  <2> HIDE DEF big
  <2> QED
    BY <1>1, <2>1, Smaller
<1> DEFINE a == (MaxPageBytes - 1) * Cardinality(big(T))
           b == (MaxPageBytes - 1) * Cardinality(big(S))
<1>4. a <= b /\ a \in Nat /\ b \in Nat
  <2> HIDE DEF big
  <2> QED
    BY <1>1, <1>3, TimesIsMonotone
<1>5. Bytes(T) = Cardinality(T) + a /\ Bytes(S) = Cardinality(S) + b
  BY DEF Bytes
<1> HIDE DEF a, b
<1> QED
  BY <1>2, <1>4, <1>5

----------------------------------------------------------------------------
(* A page of the transcript                                                  *)

(* The parts of Filled.                                                      *)
Readable(from)  == {q \in Rows(from) : log.rec[q] # "unreadable"}
Served(from)    == {q \in Readable(from) : Fits(Readable(from), q)}
Stepped(from)   ==
  from..(CASE Cardinality(Served(from)) = PageSize -> Max(Served(from))
           [] Cardinality(Served(from)) # PageSize /\ Served(from) # Readable(from) ->
                Min(Readable(from) \ Served(from)) - 1
           [] OTHER -> Max(Rows(from)))

(* A page is asked for from a record on that the log reaches.                *)
Reaches(from) ==
  /\ log \in Log /\ LogInv
  /\ from \in Nat \ {0} /\ log.first <= from /\ from <= log.last /\ log.rec[log.last] # "none"

LEMMA LogEnds ==
  ASSUME NEW from, Reaches(from)
  PROVE  /\ log.last \in Seqs /\ log.last \in Nat /\ MaxSeq \in Nat /\ log.last <= MaxSeq
         /\ \A q \in Seqs : log.rec[q] # "none" => q <= log.last
         /\ from..MaxSeq \subseteq Seqs /\ from \in Seqs
<1>1. /\ MaxSeq \in Nat /\ log.last \in Nat /\ log.first \in Nat /\ from \in Nat /\ from >= 1
      /\ log.last <= MaxSeq /\ from <= log.last
  BY BoundsArePositive DEF Reaches, LogInv, Log
<1>2. \A q \in Seqs : log.rec[q] # "none" => q \in log.first..log.last
  BY DEF Reaches, LogInv
<1> QED
  BY <1>1, <1>2 DEF Seqs

LEMMA RowsFacts ==
  ASSUME NEW from, Reaches(from)
  PROVE  /\ Rows(from) \subseteq Seqs /\ Rows(from) \subseteq Nat
         /\ \A q \in Rows(from) : from <= q /\ q <= log.last /\ log.rec[q] # "none"
         /\ \A q \in Rows(from), p \in Seqs : from <= p /\ p < q /\ log.rec[p] # "none" => p \in Rows(from)
         /\ Rows(from) # {}
<1>1. /\ log.last \in Seqs /\ log.last \in Nat /\ MaxSeq \in Nat /\ log.last <= MaxSeq
      /\ \A q \in Seqs : log.rec[q] # "none" => q <= log.last
      /\ from..MaxSeq \subseteq Seqs /\ from \in Nat /\ from >= 1 /\ from <= log.last
      /\ log.rec[log.last] # "none"
  BY LogEnds DEF Reaches
<1> DEFINE before(q) == {r \in from..(q - 1) : Stored(r)}
<1>2. PageSize \in Nat
  BY BoundsArePositive
<1>3. Rows(from) = {q \in from..MaxSeq : Stored(q) /\ Cardinality(before(q)) < PageSize + 2}
  BY DEF Rows
<1>4. Rows(from) \subseteq Seqs /\ Rows(from) \subseteq Nat
  BY <1>1, <1>3 DEF Seqs
<1>5. \A q \in Rows(from) : from <= q /\ q <= log.last /\ log.rec[q] # "none"
  BY <1>1, <1>3 DEF Stored
<1>6. ASSUME NEW q \in Rows(from), NEW p \in Seqs, from <= p, p < q, log.rec[p] # "none"
      PROVE  p \in Rows(from)
  <2>1. q \in Nat /\ p \in Nat /\ p <= MaxSeq /\ q <= MaxSeq
    BY <1>1, <1>3, <1>6 DEF Seqs
  <2>2. before(p) \in SUBSET before(q) /\ before(q) \in SUBSET (1..MaxSeq)
    BY <1>1, <1>6, <2>1
  <2>3. /\ Cardinality(before(p)) <= Cardinality(before(q))
        /\ Cardinality(before(p)) \in Nat /\ Cardinality(before(q)) \in Nat
    <3> HIDE DEF before
    <3> QED
      BY <1>1, <2>2, Smaller
  <2>4. Cardinality(before(q)) < PageSize + 2
    BY <1>3
  <2>5. Cardinality(before(p)) < PageSize + 2
    <3> HIDE DEF before
    <3> QED
      BY <1>2, <2>3, <2>4
  <2>6. p \in from..MaxSeq /\ Stored(p)
    BY <1>1, <1>6, <2>1 DEF Stored
  <2> QED
    BY <1>3, <2>5, <2>6
<1>7. Rows(from) # {}
  <2> DEFINE all == {q \in from..MaxSeq : Stored(q)}
             m == Min(all)
  <2>1. all \in SUBSET Nat /\ all # {}
    BY <1>1 DEF Stored
  <2>2. m \in all /\ \A q \in all : m <= q
    <3> HIDE DEF all
    <3> QED
      BY <2>1, MinOf
  <2> HIDE DEF m
  <2>3. before(m) = {}
    BY <1>1, <2>2
  <2>4. Cardinality(before(m)) < PageSize + 2
    BY <1>2, <2>3, FS_EmptySet
  <2> QED
    BY <1>3, <2>2, <2>4
<1> QED
  BY <1>4, <1>5, <1>6, <1>7

(* When the query did not reach its limit it found every row.                *)
LEMMA AllRows ==
  ASSUME NEW from, Reaches(from), Cardinality(Rows(from)) < PageSize + 2
  PROVE  \A q \in Seqs : from <= q /\ log.rec[q] # "none" => q \in Rows(from)
<1>1. /\ log.last \in Seqs /\ log.last \in Nat /\ MaxSeq \in Nat /\ from \in Nat /\ from >= 1
      /\ from..MaxSeq \subseteq Seqs /\ PageSize \in Nat
  BY LogEnds, BoundsArePositive DEF Reaches
<1> DEFINE before(q) == {r \in from..(q - 1) : Stored(r)}
           missing == {q \in Seqs : from <= q /\ Stored(q) /\ q \notin Rows(from)}
           m == Min(missing)
<1> SUFFICES ASSUME missing # {} PROVE FALSE
  BY DEF Stored
<1>2. missing \in SUBSET Nat
  BY DEF Seqs
<1>3. m \in missing /\ \A q \in missing : m <= q
  <2> HIDE DEF missing
  <2> QED
    BY <1>2, MinOf
<1> HIDE DEF m
<1>4. m \in Nat /\ m <= MaxSeq /\ from <= m /\ Stored(m) /\ m \notin Rows(from)
  BY <1>1, <1>3 DEF Seqs
<1>5. before(m) \in SUBSET Rows(from)
  BY <1>1, <1>3, <1>4 DEF Seqs
<1>6. Rows(from) \in SUBSET (1..MaxSeq)
  BY RowsFacts DEF Seqs
<1>7. Cardinality(before(m)) < PageSize + 2
  <2> HIDE DEF before
  <2>1. /\ Cardinality(before(m)) <= Cardinality(Rows(from))
        /\ Cardinality(before(m)) \in Nat /\ Cardinality(Rows(from)) \in Nat
    BY <1>1, <1>5, <1>6, Smaller
  <2> QED
    BY <1>1, <2>1
<1> QED
  BY <1>1, <1>4, <1>7 DEF Rows

(* What fits a page is the first of what can be read, and the cap holds.     *)
LEMMA FittingFacts ==
  ASSUME log \in Log, NEW D \in SUBSET Seqs, NEW E, E = {q \in D : Fits(D, q)}
  PROVE  /\ \A q \in E, p \in D : p < q => p \in E
         /\ D # {} => E # {}
         /\ Cardinality(E) \in Nat /\ Cardinality(E) <= PageSize
<1> DEFINE before(q) == {r \in D : r < q}
<1>1. MaxSeq \in Nat /\ PageSize \in Nat /\ PageSize >= 1 /\ MaxPageBytes \in Nat
  BY BoundsArePositive
<1>2. E \subseteq D /\ D \subseteq Seqs /\ D \subseteq Nat
  BY <1>1 DEF Seqs
<1>3. \A q \in D : q \in E <=> before(q) = {} \/ (Cardinality(before(q)) < PageSize
                                                   /\ Bytes(before(q) \cup {q}) <= MaxPageBytes)
  BY DEF Fits
<1>4. ASSUME NEW q \in E, NEW p \in D, p < q
      PROVE  p \in E
  <2>1. q \in D /\ p \in Nat /\ q \in Nat
    BY <1>2
  <2>2. /\ before(p) \in SUBSET before(q) /\ before(q) \in SUBSET Seqs
        /\ before(p) \cup {p} \in SUBSET (before(q) \cup {q})
        /\ before(q) \cup {q} \in SUBSET Seqs /\ p \in before(q)
    <3>1. ASSUME NEW r \in D, r < p PROVE r < q
      BY <1>2, <1>4, <2>1, <3>1
    <3> QED
      BY <1>2, <1>4, <2>1, <3>1
  <2>3. Cardinality(before(q)) < PageSize /\ Bytes(before(q) \cup {q}) <= MaxPageBytes
    BY <1>3, <2>1, <2>2
  <2>4. /\ Cardinality(before(p)) <= Cardinality(before(q))
        /\ Cardinality(before(p)) \in Nat /\ Cardinality(before(q)) \in Nat
    <3> HIDE DEF before
    <3> QED
      BY <1>1, <2>2, Smaller DEF Seqs
  <2>5. /\ Bytes(before(p) \cup {p}) <= Bytes(before(q) \cup {q})
        /\ Bytes(before(p) \cup {p}) \in Nat /\ Bytes(before(q) \cup {q}) \in Nat
    <3> HIDE DEF before
    <3> QED
      BY <1>1, <2>2, FewerBytes
  <2>6. Cardinality(before(p)) < PageSize
    <3> HIDE DEF before
    <3> QED
      BY <1>1, <2>3, <2>4
  <2>7. Bytes(before(p) \cup {p}) <= MaxPageBytes
    <3> HIDE DEF before
    <3> QED
      BY <1>1, <2>3, <2>5
  <2> QED
    BY <1>3, <2>6, <2>7
<1>5. ASSUME D # {} PROVE E # {}
  <2>1. Min(D) \in D /\ \A q \in D : Min(D) <= q
    BY <1>2, <1>5, MinOf
  <2>2. before(Min(D)) = {}
    <3>1. ASSUME NEW r \in D, r < Min(D) PROVE FALSE
      <4>1. r \in Nat /\ Min(D) \in Nat /\ Min(D) <= r
        BY <1>2, <2>1
      <4> QED
        BY <3>1, <4>1
    <3> QED
      BY <3>1
  <2> QED
    BY <1>3, <2>1, <2>2
<1>6. E \in SUBSET (1..MaxSeq) /\ D \in SUBSET (1..MaxSeq)
  BY <1>2 DEF Seqs
<1>7. Cardinality(E) \in Nat /\ Cardinality(E) <= PageSize
  <2>1. Cardinality(E) \in Nat /\ (Cardinality(E) = 0 <=> E = {}) /\ IsFiniteSet(E)
    BY <1>1, <1>6, Smaller
  <2>2. CASE E = {}
    BY <1>1, <2>1, <2>2
  <2>3. CASE E # {}
    <3> DEFINE m == Max(E)
    <3>1. E \in SUBSET Nat /\ \A q \in E : q <= MaxSeq
      BY <1>1, <1>6
    <3>2. m \in E /\ \A q \in E : q <= m
      BY <1>1, <2>3, <3>1, MaxOf
    <3> HIDE DEF m
    <3>3. E \in SUBSET (before(m) \cup {m}) /\ before(m) \in SUBSET (1..MaxSeq)
      <4>1. ASSUME NEW q \in E, q # m PROVE q < m
        BY <3>1, <3>2, <4>1
      <4> QED
        BY <1>2, <1>6, <4>1
    <3>4. before(m) \cup {m} \in SUBSET (1..MaxSeq)
      BY <1>6, <3>2, <3>3
    <3>5. m \notin before(m)
      BY <3>1, <3>2
    <3>6. before(m) = {} \/ Cardinality(before(m)) < PageSize
      BY <1>3, <3>2
    <3> HIDE DEF before
    <3>7. /\ Cardinality(E) <= Cardinality(before(m) \cup {m})
          /\ Cardinality(before(m)) \in Nat /\ IsFiniteSet(before(m))
          /\ (Cardinality(before(m)) = 0 <=> before(m) = {})
      BY <1>1, <3>3, <3>4, Smaller
    <3>8. Cardinality(before(m) \cup {m}) = Cardinality(before(m)) + 1
      BY <3>5, <3>7, FS_AddElement
    <3> QED
      BY <1>1, <2>1, <3>6, <3>7, <3>8
  <2> QED
    BY <2>2, <2>3
<1> QED
  BY <1>4, <1>5, <1>7

LEMMA ServedFacts ==
  ASSUME NEW from, Reaches(from)
  PROVE  /\ Served(from) \subseteq Readable(from) /\ Readable(from) \subseteq Rows(from)
         /\ \A q \in Served(from), p \in Readable(from) : p < q => p \in Served(from)
         /\ Readable(from) # {} => Served(from) # {}
         /\ Cardinality(Served(from)) \in Nat /\ Cardinality(Served(from)) <= PageSize
<1>1. Readable(from) \in SUBSET Seqs /\ log \in Log
  BY RowsFacts DEF Readable, Reaches
<1>2. Served(from) = {q \in Readable(from) : Fits(Readable(from), q)}
  BY DEF Served
<1>3. Served(from) \subseteq Readable(from) /\ Readable(from) \subseteq Rows(from)
  BY DEF Readable, Served
<1> QED
  BY <1>1, <1>2, <1>3, FittingFacts

LEMMA SteppedFacts ==
  ASSUME NEW from, Reaches(from)
  PROVE  /\ IsFiniteSet(Stepped(from) \ Served(from))
         /\ Cardinality(Stepped(from) \ Served(from)) \in Nat
         /\ Stepped(from) \subseteq Served(from) =>
              /\ Served(from) # {}
              /\ Served(from) = {q \in Seqs : from <= q /\ q <= Max(Served(from))}
              /\ Served(from) = Rows(from) => Max(Served(from)) = log.last
         /\ Served(from) # {} => /\ Max(Served(from)) \in Served(from)
                                /\ \A q \in Served(from) : q <= Max(Served(from))
<1> DEFINE R == Rows(from)
           D == Readable(from)
           E == Served(from)
           seen == Stepped(from)
<1>1. /\ log.last \in Seqs /\ log.last \in Nat /\ MaxSeq \in Nat /\ log.last <= MaxSeq
      /\ \A q \in Seqs : log.rec[q] # "none" => q <= log.last
      /\ from \in Nat /\ from >= 1 /\ from <= log.last /\ log.rec[log.last] # "none"
      /\ PageSize \in Nat /\ PageSize >= 1
  BY LogEnds, BoundsArePositive DEF Reaches
<1>2. /\ R \subseteq Seqs /\ R \subseteq Nat /\ R # {}
      /\ \A q \in R : from <= q /\ q <= log.last
  BY RowsFacts
<1>3. /\ E \subseteq D /\ D \subseteq R
      /\ \A q \in E, p \in D : p < q => p \in E
      /\ D # {} => E # {}
      /\ Cardinality(E) \in Nat /\ Cardinality(E) <= PageSize
  BY ServedFacts
<1>4. Cardinality(R) < PageSize + 2 => log.last \in R
  BY <1>1, AllRows
<1>5. seen = from..(CASE Cardinality(E) = PageSize -> Max(E)
                      [] Cardinality(E) # PageSize /\ E # D -> Min(D \ E) - 1
                      [] OTHER -> Max(R))
  BY DEF Stepped
<1> HIDE DEF R, D, E, seen
<1>6. Max(R) \in R /\ \A q \in R : q <= Max(R)
  BY <1>1, <1>2, MaxOf
<1>7. E # {} => Max(E) \in E /\ \A q \in E : q <= Max(E)
  <2>1. E \in SUBSET Nat /\ \A q \in E : q <= log.last
    BY <1>2, <1>3
  <2> QED
    BY <1>1, <2>1, MaxOf
<1>8. E # D => Min(D \ E) \in D \ E /\ \A q \in D \ E : Min(D \ E) <= q
  <2>1. D \ E \in SUBSET Nat /\ (E # D => D \ E # {})
    BY <1>2, <1>3
  <2> QED
    BY <2>1, MinOf
<1>9. Cardinality(E) = PageSize => E # {}
  BY <1>1, FS_EmptySet
<1> DEFINE MA == Max(E)
           MB == Min(D \ E)
           MC == Max(R)
<1>10. \/ Cardinality(E) = PageSize /\ seen = from..MA
       \/ Cardinality(E) # PageSize /\ E # D /\ seen = from..(MB - 1)
       \/ Cardinality(E) # PageSize /\ E = D /\ seen = from..MC
  BY <1>5
<1> HIDE DEF MA, MB, MC
<1>11. /\ E # {} => MA \in E /\ MA \in Nat /\ (\A q \in E : q <= MA) /\ MA <= MaxSeq
       /\ E # D => MB \in D /\ MB \notin E /\ MB \in Nat /\ (\A q \in D \ E : MB <= q) /\ MB <= MaxSeq
                  /\ from <= MB
       /\ MC \in R /\ MC \in Nat /\ (\A q \in R : q <= MC) /\ MC <= MaxSeq /\ from <= MC
  <2>1. \A q \in R : q \in Nat /\ q <= MaxSeq /\ from <= q
    BY <1>1, <1>2 DEF Seqs
  <2> QED
    BY <1>3, <1>6, <1>7, <1>8, <2>1 DEF MA, MB, MC
<1>12. seen \in SUBSET (1..MaxSeq)
  BY <1>1, <1>9, <1>10, <1>11
<1>13. IsFiniteSet(seen \ E) /\ Cardinality(seen \ E) \in Nat
  <2>1. seen \ E \in SUBSET (1..MaxSeq)
    BY <1>12
  <2> QED
    BY <1>1, <2>1, Smaller
<1>14. ASSUME seen \subseteq E
       PROVE  E # {} /\ E = {q \in Seqs : from <= q /\ q <= MA} /\ (E = R => MA = log.last)
  <2>1. E # {}
    <3>1. CASE Cardinality(E) = PageSize
      BY <1>9, <3>1
    <3>2. CASE E # D
      BY <1>3, <1>11, <3>2
    <3>3. CASE Cardinality(E) # PageSize /\ E = D
      <4>1. from \in seen
        BY <1>1, <1>10, <1>11, <3>3
      <4> QED
        BY <1>14, <4>1
    <3> QED
      BY <3>1, <3>2, <3>3
  <2>2. \A q \in E : q \in Nat /\ from <= q /\ q \in Seqs
    BY <1>2, <1>3
  <2>3. \A q \in Seqs : q \in Nat /\ q >= 1
    BY DEF Seqs
  <2>4. ASSUME NEW q \in Seqs, from <= q, q <= MA PROVE q \in E
    <3>1. CASE Cardinality(E) = PageSize
      BY <1>1, <1>10, <1>11, <1>14, <2>1, <2>3, <2>4, <3>1
    <3>2. CASE Cardinality(E) # PageSize /\ E # D
      <4>1. MA < MB
        <5>1. MA \in Nat /\ MB \in Nat /\ MA # MB
          BY <1>11, <2>1, <3>2
        <5>2. ~(MB < MA)
          BY <1>3, <1>11, <2>1, <3>2
        <5> QED
          BY <5>1, <5>2
      <4>2. q \in from..(MB - 1)
        BY <1>1, <1>11, <2>1, <2>3, <2>4, <3>2, <4>1
      <4> QED
        BY <1>10, <1>14, <3>2, <4>2
    <3>3. CASE Cardinality(E) # PageSize /\ E = D
      <4>1. MA <= MC
        BY <1>3, <1>11, <2>1
      <4>2. q \in from..MC
        BY <1>1, <1>11, <2>1, <2>3, <2>4, <4>1
      <4> QED
        BY <1>10, <1>14, <3>3, <4>2
    <3> QED
      BY <3>1, <3>2, <3>3
  <2>5. E = {q \in Seqs : from <= q /\ q <= MA}
    BY <1>11, <2>1, <2>2, <2>4
  <2>6. ASSUME E = R PROVE MA = log.last
    <3>1. log.last \in E
      BY <1>1, <1>3, <1>4, <2>6
    <3>2. log.last <= MA /\ MA <= log.last
      BY <1>2, <1>11, <2>1, <2>6, <3>1
    <3> QED
      BY <1>1, <1>11, <2>1, <3>2
  <2> QED
    BY <2>1, <2>5, <2>6
<1> QED
  BY <1>7, <1>13, <1>14 DEF R, D, E, seen, MA

(* Where every record can be read, a page steps over none.                   *)
LEMMA CleanFacts ==
  ASSUME NEW from, Reaches(from),
         \A q \in Seqs : from <= q /\ q <= log.last => log.rec[q] \in {"small", "large"}
  PROVE  Stepped(from) \subseteq Served(from)
<1> DEFINE R == Rows(from)
           D == Readable(from)
           E == Served(from)
           seen == Stepped(from)
<1>1. /\ log.last \in Nat /\ from \in Nat /\ from >= 1 /\ MaxSeq \in Nat
      /\ PageSize \in Nat /\ PageSize >= 1
  BY LogEnds, BoundsArePositive DEF Reaches
<1>2. /\ R \subseteq Seqs /\ R \subseteq Nat /\ R # {}
      /\ \A q \in R : from <= q /\ q <= log.last
      /\ \A q \in R, p \in Seqs : from <= p /\ p < q /\ log.rec[p] # "none" => p \in R
  BY RowsFacts
<1>3. /\ E \subseteq D
      /\ \A q \in E, p \in D : p < q => p \in E
  BY ServedFacts
<1>4. D = R
  <2>1. \A q \in R : log.rec[q] # "unreadable"
    BY <1>2
  <2> QED
    BY <2>1 DEF Readable
<1>5. seen = from..(CASE Cardinality(E) = PageSize -> Max(E)
                      [] Cardinality(E) # PageSize /\ E # D -> Min(D \ E) - 1
                      [] OTHER -> Max(R))
  BY DEF Stepped
<1>6. Cardinality(E) = PageSize => E # {}
  BY <1>1, FS_EmptySet
<1> HIDE DEF R, D, E, seen
<1>7. ASSUME NEW q \in Nat, from <= q, NEW m \in R, q <= m PROVE q \in R
  <2>1. m \in Nat /\ m \in Seqs /\ m <= log.last
    BY <1>2
  <2>2. q \in Seqs /\ q <= log.last
    BY <1>1, <1>7, <2>1 DEF Seqs
  <2>3. log.rec[q] # "none"
    BY <1>7, <2>2
  <2> QED
    BY <1>2, <1>7, <2>1, <2>2, <2>3
<1>8. ASSUME NEW q \in seen PROVE q \in E
  <2>1. CASE Cardinality(E) = PageSize
    <3> DEFINE m == Max(E)
    <3>1. seen = from..m
      BY <1>5, <2>1
    <3>2. m \in E
      <4>1. E \in SUBSET Nat /\ (\A p \in E : p <= log.last) /\ E # {}
        BY <1>2, <1>3, <1>4, <1>6, <2>1
      <4> QED
        BY <1>1, <4>1, MaxOf
    <3> HIDE DEF m
    <3>3. q \in Nat /\ from <= q /\ q <= m /\ m \in R /\ m \in Nat
      BY <1>1, <1>2, <1>3, <1>4, <1>8, <3>1, <3>2
    <3> QED
      BY <1>3, <1>4, <1>7, <3>2, <3>3
  <2>2. CASE Cardinality(E) # PageSize /\ E # D
    <3> DEFINE m == Min(D \ E)
    <3>1. seen = from..(m - 1)
      BY <1>5, <2>2
    <3>2. m \in D \ E /\ \A p \in D \ E : m <= p
      <4>1. D \ E \in SUBSET Nat /\ D \ E # {}
        BY <1>2, <1>3, <1>4, <2>2
      <4> QED
        BY <4>1, MinOf
    <3> HIDE DEF m
    <3>3. q \in Nat /\ from <= q /\ q < m /\ m \in R /\ m \in Nat
      BY <1>1, <1>2, <1>4, <1>8, <3>1, <3>2
    <3> QED
      BY <1>4, <1>7, <3>2, <3>3
  <2>3. CASE Cardinality(E) # PageSize /\ E = D
    <3> DEFINE m == Max(R)
    <3>1. seen = from..m
      BY <1>5, <2>3
    <3>2. m \in R
      BY <1>1, <1>2, MaxOf
    <3> HIDE DEF m
    <3>3. q \in Nat /\ from <= q /\ q <= m
      BY <1>1, <1>2, <1>8, <3>1, <3>2
    <3> QED
      BY <1>4, <1>7, <2>3, <3>2, <3>3
  <2> QED
    BY <2>1, <2>2, <2>3
<1> QED
  BY <1>8 DEF E, seen

LEMMA PageFields ==
  ASSUME NEW st \in Statuses, NEW nx \in Nat, NEW mo \in BOOLEAN, NEW dr \in Nat,
         NEW ev \in SUBSET Seqs, NEW p,
         p = [status |-> st, next |-> nx, more |-> mo, dropped |-> dr, events |-> ev]
  PROVE  /\ p \in Pages /\ p.status = st /\ p.next = nx /\ p.more = mo
         /\ p.dropped = dr /\ p.events = ev
BY DEF Pages

(* A page that nothing was dropped from is all that was stored from its first*)
(* record on, up to its cursor, or to the end of the log when no more is left*)
LEMMA FilledFacts ==
  ASSUME NEW from, Reaches(from), NEW start \in Nat, start < from, NEW page,
         page = Filled(from, start)
  PROVE  /\ page \in Pages
         /\ page.more => page.events # {}
         /\ page.dropped = 0 =>
              /\ ~Disowned(page)
              /\ page.more => start <= page.next /\ page.next <= log.last
              /\ page.events = {q \in Seqs : /\ from <= q
                                             /\ q <= IF page.more THEN page.next ELSE log.last}
         /\ Stepped(from) \subseteq Served(from) /\ log.drift = 0 => page.dropped = 0
<1> DEFINE R == Rows(from)
           E == Served(from)
           missed == Cardinality(Stepped(from) \ E)
           d == missed + log.drift
           st == CASE E # {} -> "appended"
                   [] E = {} /\ d > 0 -> "cursor-invalid"
                   [] OTHER -> "up-to-date"
           nx == Max(E \cup {start})
           mo == E # {} /\ E # R
<1>1. page = [status |-> st, next |-> nx, more |-> mo, dropped |-> d, events |-> E]
  BY DEF Filled, Stepped, Served, Readable
<1>2. /\ log.last \in Nat /\ from \in Nat /\ from >= 1 /\ MaxSeq \in Nat /\ log.last <= MaxSeq
      /\ log.drift \in Nat /\ E \subseteq Seqs
      /\ \A q \in E : q \in Nat /\ from <= q /\ q <= log.last
  BY LogEnds, RowsFacts, ServedFacts DEF Reaches, Log
<1>3. /\ missed \in Nat /\ IsFiniteSet(Stepped(from) \ E)
      /\ Stepped(from) \subseteq E =>
           /\ E # {} /\ E = {q \in Seqs : from <= q /\ q <= Max(E)}
           /\ E = R => Max(E) = log.last
      /\ E # {} => Max(E) \in E /\ \A q \in E : q <= Max(E)
  BY SteppedFacts
<1>4. missed = 0 <=> Stepped(from) \subseteq E
  <2>1. missed = 0 <=> Stepped(from) \ E = {}
    BY <1>3, FS_EmptySet
  <2> QED
    BY <2>1
<1>5. E # {} => nx = Max(E)
  <2> SUFFICES ASSUME E # {} PROVE nx = Max(E)
    OBVIOUS
  <2> DEFINE S == E \cup {start}
             m == Max(E)
  <2>1. S \in SUBSET Nat /\ S # {} /\ (\A q \in S : q <= log.last)
    <3>1. start <= log.last
      BY <1>2 DEF Reaches
    <3> QED
      BY <1>2, <3>1
  <2>2. Max(S) \in S /\ \A q \in S : q <= Max(S)
    <3> HIDE DEF S
    <3> QED
      BY <1>2, <2>1, MaxOf
  <2>3. m \in E /\ \A q \in E : q <= m
    BY <1>3
  <2>4. m \in Nat /\ start < m /\ m <= Max(S) /\ Max(S) \in Nat
    BY <1>2, <2>1, <2>2, <2>3
  <2>5. Max(S) \in E
    BY <2>2, <2>4
  <2>6. Max(S) <= m
    BY <2>3, <2>5
  <2> QED
    BY <2>4, <2>6
<1>6. nx \in Nat
  <2>1. CASE E # {}
    BY <1>2, <1>3, <1>5, <2>1
  <2>2. CASE E = {}
    <3>1. {start} \in SUBSET Nat /\ \A q \in {start} : q <= start
      OBVIOUS
    <3>2. Max({start}) \in {start}
      BY <3>1, MaxOf
    <3> QED
      BY <2>2, <3>2
  <2> QED
    BY <2>1, <2>2
<1>7. st \in Statuses /\ mo \in BOOLEAN /\ d \in Nat
      /\ (E # {} => st = "appended")
  BY <1>2, <1>3 DEF Statuses
<1>8. d = 0 => missed = 0
  BY <1>2, <1>3
<1>9. missed = 0 /\ log.drift = 0 => d = 0
  OBVIOUS
<1> HIDE DEF R, E, missed, d, st, nx, mo
<1>10. /\ page \in Pages /\ page.status = st /\ page.next = nx /\ page.more = mo
       /\ page.dropped = d /\ page.events = E
  BY <1>1, <1>2, <1>6, <1>7, PageFields
<1>11. mo <=> E # {} /\ E # R
  BY DEF mo
<1>12. ASSUME d = 0
       PROVE  /\ st = "appended" /\ (mo => start <= nx /\ nx <= log.last)
              /\ E = {q \in Seqs : from <= q /\ q <= IF mo THEN nx ELSE log.last}
  <2>1. E # {} /\ E = {q \in Seqs : from <= q /\ q <= nx} /\ (E = R => nx = log.last)
    BY <1>3, <1>4, <1>5, <1>8, <1>12
  <2>2. nx \in E /\ start <= nx /\ nx <= log.last
    BY <1>2, <1>3, <1>5, <2>1
  <2>3. (IF mo THEN nx ELSE log.last) = nx
    BY <1>11, <2>1
  <2> QED
    BY <1>7, <2>1, <2>2, <2>3
<1>13. Stepped(from) \subseteq Served(from) => missed = 0
  BY <1>4 DEF E
<1>14. ~Disowned(page) <=> st \notin {"cursor-too-old", "cursor-invalid"}
  BY <1>10 DEF Disowned
<1> QED
  BY <1>9, <1>10, <1>11, <1>12, <1>13, <1>14

LEMMA BarePages ==
  /\ \A st \in Statuses, d \in Nat :
       LET p == Refusing(st, d) IN
       p \in Pages /\ p.status = st /\ p.more = FALSE /\ p.dropped = d
  /\ \A n \in Nat :
       LET p == [NoPage EXCEPT !.next = n] IN
       /\ p \in Pages /\ p.status = "up-to-date" /\ p.more = FALSE /\ p.dropped = 0 /\ p.events = {}
  /\ NoPage \in Pages /\ NoPage.status = "up-to-date" /\ NoPage.next = 0
  /\ NoPage.more = FALSE /\ NoPage.dropped = 0 /\ NoPage.events = {}
<1>0. /\ NoPage \in Pages /\ NoPage.status = "up-to-date" /\ NoPage.next = 0
      /\ NoPage.more = FALSE /\ NoPage.dropped = 0 /\ NoPage.events = {}
  <2>1. {} \in SUBSET Seqs /\ "up-to-date" \in Statuses
    BY DEF Statuses
  <2> QED
    BY <2>1 DEF Pages, NoPage
<1>1. ASSUME NEW st \in Statuses, NEW d \in Nat
      PROVE  /\ Refusing(st, d) \in Pages /\ Refusing(st, d).status = st
             /\ Refusing(st, d).more = FALSE /\ Refusing(st, d).dropped = d
  BY <1>0 DEF Refusing, Pages
<1>2. ASSUME NEW n \in Nat, NEW p, p = [NoPage EXCEPT !.next = n]
      PROVE  /\ p \in Pages /\ p.status = "up-to-date" /\ p.more = FALSE
             /\ p.dropped = 0 /\ p.events = {}
  BY <1>0, <1>2 DEF Pages
<1> QED
  BY <1>0, <1>1, <1>2

(* The page after since, as the read so far will take it.                    *)
LEMMA PageFacts ==
  ASSUME log \in Log, LogInv, NEW since \in Nat \cup {Start}, NEW page, page = Page(since)
  PROVE  /\ page \in Pages
         /\ ~Disowned(page) /\ page.dropped = 0 =>
              /\ page.events = {q \in Seqs : /\ log.first <= q
                                             /\ q <= IF page.more THEN page.next ELSE log.last
                                             /\ since = Start \/ q > since}
              /\ page.more => /\ page.next <= log.last
                              /\ since # Start => since <= page.next
         /\ Clean => /\ Disowned(page) => since # Start
                     /\ page.dropped = 0
                     /\ page.more => page.events # {}
<1> DEFINE start == IF since = Start THEN 0 ELSE since
           from == From(since)
<1>1. /\ MaxSeq \in Nat /\ log.first \in Nat /\ log.last \in Nat /\ log.drift \in Nat
      /\ log.last <= MaxSeq /\ log.first <= log.last
      /\ log.last # 0 => log.first # 0
      /\ start \in Nat /\ (since = Start => start = 0) /\ (since # Start => start = since)
      /\ Start \notin Nat
  BY BoundsArePositive, StartIsNoCursor DEF LogInv, Log
<1>2. CASE log.last = 0
  <2>1. page = NoPage
    BY <1>2 DEF Page
  <2>2. /\ page \in Pages /\ page.status = "up-to-date" /\ page.next = 0 /\ page.more = FALSE
        /\ page.dropped = 0 /\ page.events = {}
    BY <2>1, BarePages
  <2>3. ~Disowned(page)
    BY <2>2 DEF Disowned
  <2>4. ASSUME NEW q \in Seqs PROVE ~(q <= log.last)
    BY <1>2, <2>4 DEF Seqs
  <2> QED
    BY <2>2, <2>3, <2>4
<1>3. CASE log.last # 0 /\ since # Start /\ start + 1 < log.first
  <2>1. page = Refusing("cursor-too-old", 0)
    <3>1. ~(start > log.last) /\ start # log.last
      BY <1>1, <1>3
    <3> QED
      BY <1>3, <3>1 DEF Page
  <2>2. page \in Pages /\ page.more = FALSE /\ page.dropped = 0 /\ Disowned(page)
    BY <2>1, BarePages DEF Statuses, Disowned
  <2> QED
    BY <1>3, <2>2
<1>4. CASE log.last # 0 /\ since # Start /\ ~(start + 1 < log.first) /\ start > log.last
  <2>1. page = Refusing("cursor-invalid", 0)
    BY <1>4 DEF Page
  <2>2. page \in Pages /\ page.more = FALSE /\ page.dropped = 0 /\ Disowned(page)
    BY <2>1, BarePages DEF Statuses, Disowned
  <2> QED
    BY <1>4, <2>2
<1>5. CASE log.last # 0 /\ since # Start /\ ~(start + 1 < log.first) /\ start = log.last
  <2>1. page = [NoPage EXCEPT !.next = start]
    <3>1. ~(start > log.last)
      BY <1>1, <1>5
    <3> QED
      BY <1>5, <3>1 DEF Page
  <2>2. /\ page \in Pages /\ page.status = "up-to-date" /\ page.more = FALSE
        /\ page.dropped = 0 /\ page.events = {}
    BY <1>1, <2>1, BarePages
  <2>3. ~Disowned(page)
    BY <2>2 DEF Disowned
  <2>4. ASSUME NEW q \in Seqs, q <= log.last PROVE ~(q > since)
    <3>1. q \in Nat
      BY BoundsArePositive DEF Seqs
    <3> QED
      BY <1>1, <1>5, <2>4, <3>1
  <2> QED
    BY <1>5, <2>2, <2>3, <2>4
<1>6. CASE /\ log.last # 0
           /\ since # Start => /\ ~(start + 1 < log.first) /\ ~(start > log.last)
                               /\ start # log.last
  <2>1. page = IF \A q \in {q \in Seqs : log.rec[q] # "none"} : q < log.last
                 THEN Refusing("cursor-invalid", 1)
                 ELSE Filled(from, start)
    BY <1>6 DEF Page
  <2>2. log.last \in Seqs
    BY <1>1, <1>6 DEF Seqs
  <2>3. \A q \in Seqs : q \in Nat /\ (log.rec[q] # "none" => q <= log.last)
    <3>1. \A q \in Seqs : log.rec[q] # "none" => q \in log.first..log.last
      BY DEF LogInv
    <3> QED
      BY <1>1, <3>1 DEF Seqs
  <2>4. CASE log.rec[log.last] = "none"
    <3>1. \A q \in Seqs : log.rec[q] # "none" => q < log.last
      BY <1>1, <2>3, <2>4
    <3>2. page = Refusing("cursor-invalid", 1)
      BY <2>1, <3>1
    <3>3. page \in Pages /\ page.more = FALSE /\ page.dropped = 1 /\ Disowned(page)
      BY <3>2, BarePages DEF Statuses, Disowned
    <3>4. ~Clean
      BY <1>1, <1>6, <2>4 DEF Clean
    <3> QED
      BY <3>3, <3>4
  <2>5. CASE log.rec[log.last] # "none"
    <3>1. page = Filled(from, start)
      <4>1. ~(log.last < log.last)
        BY <1>1
      <4> QED
        BY <2>1, <2>2, <2>5, <4>1
    <3>2. from \in Nat /\ from >= 1 /\ from <= log.last /\ log.first <= from /\ start < from
      BY <1>1, <1>6 DEF From
    <3>3. Reaches(from)
      BY <2>5, <3>2 DEF Reaches
    <3> HIDE DEF from, start
    <3>4. /\ page \in Pages
          /\ page.more => page.events # {}
          /\ page.dropped = 0 =>
              /\ ~Disowned(page)
              /\ page.more => start <= page.next /\ page.next <= log.last
              /\ page.events = {q \in Seqs : /\ from <= q
                                             /\ q <= IF page.more THEN page.next ELSE log.last}
          /\ Stepped(from) \subseteq Served(from) /\ log.drift = 0 => page.dropped = 0
      BY <1>1, <3>1, <3>2, <3>3, FilledFacts
    <3>5. ASSUME NEW q \in Seqs
          PROVE  from <= q <=> log.first <= q /\ (since = Start \/ q > since)
      BY <1>1, <1>6, <2>3, <3>2 DEF from, From, start
    <3>6. Clean => page.dropped = 0
      <4> SUFFICES ASSUME Clean PROVE page.dropped = 0
        OBVIOUS
      <4>1. \A q \in Seqs : from <= q /\ q <= log.last => log.rec[q] \in {"small", "large"}
        <5> SUFFICES ASSUME NEW q \in Seqs, from <= q, q <= log.last
                     PROVE  log.rec[q] \in {"small", "large"}
          OBVIOUS
        <5>1. q \in log.first..log.last /\ q > 0
          BY <1>1, <2>3, <3>2
        <5> QED
          BY <5>1 DEF Clean
      <4> QED
        BY <3>3, <3>4, <4>1, CleanFacts DEF Clean
    <3> QED
      BY <1>1, <3>4, <3>5, <3>6
  <2> QED
    BY <2>4, <2>5
<1>7. \/ log.last = 0
      \/ log.last # 0 /\ since # Start /\ start + 1 < log.first
      \/ log.last # 0 /\ since # Start /\ ~(start + 1 < log.first) /\ start > log.last
      \/ log.last # 0 /\ since # Start /\ ~(start + 1 < log.first) /\ start = log.last
      \/ /\ log.last # 0
         /\ since # Start => /\ ~(start + 1 < log.first) /\ ~(start > log.last)
                             /\ start # log.last
  OBVIOUS
<1> QED
  BY <1>2, <1>3, <1>4, <1>5, <1>6, <1>7

----------------------------------------------------------------------------
(* The steps of a read                                                       *)

LEMMA CursorFacts ==
  ASSUME NEW since \in Nat \cup {Start}, NEW r, r = NewCursor(since)
  PROVE  /\ r \in Readers /\ r.phase = "asking" /\ r.asked = since /\ r.since = since /\ r.got = {}
         /\ r.dropped = 0 /\ r.truncated = FALSE /\ r.restarted = FALSE /\ r.more = FALSE
         /\ r.pages = 0 /\ r.page = NoPage
<1>1. {} \in SUBSET Seqs /\ NoPage \in Pages
  BY BarePages
<1> QED
  BY <1>1 DEF NewCursor, Readers

LEMMA InitRead == Init => ReadInv
<1> SUFFICES ASSUME Init PROVE ReadInv
  OBVIOUS
<1> DEFINE r == NewCursor(Start)
<1>1. /\ r \in Readers /\ r.phase = "asking" /\ r.asked = Start /\ r.since = Start /\ r.got = {}
      /\ r.dropped = 0 /\ r.truncated = FALSE /\ r.restarted = FALSE /\ r.more = FALSE
      /\ r.pages = 0
  BY CursorFacts
<1>2. reader = [r EXCEPT !.phase = "idle"] /\ restarts = 0 /\ served = 0 /\ log \in Logs
  BY DEF Init
<1> HIDE DEF r
<1>3. reader \in Readers /\ reader.phase = "idle" /\ reader.pages = 0
  BY <1>1, <1>2 DEF Readers
<1>4. MaxSeq \in Nat /\ MaxSeq >= 1 /\ MaxPages \in Nat
  BY BoundsArePositive
<1>5. /\ log.kept = TRUE /\ log.first \in 0..2 /\ log.last \in {0, MaxSeq - 1}
      /\ log.drift = 0 /\ log.rec \in [Seqs -> Kinds]
  <2>1. log \in [kept : {TRUE}, first : 0..2, last : {0, MaxSeq - 1}, drift : {0}, rec : [Seqs -> Kinds]]
    BY <1>2 DEF Logs
  <2> QED
    BY <2>1
<1>6. /\ IF log.last = 0 THEN log.first = 0 ELSE log.first \in 1..log.last
      /\ \A q \in Seqs : q \notin log.first..log.last => log.rec[q] = "none"
  BY <1>2 DEF Logs
<1>7. LogInv
  BY <1>4, <1>5, <1>6 DEF LogInv
<1> QED
  BY <1>2, <1>3, <1>4, <1>5, <1>7
     DEF ReadInv, PagesInv, CursorInv, GotInv, CleanInv, Reading, WholeReadIsWhole

(* The store may go on under a reader: records are only added at the end.    *)
LEMMA LogGrows ==
  ASSUME ReadInv, log \in Log, log' \in Log, LogInv', UNCHANGED <<reader, restarts, served>>,
         log.last <= log'.last, log'.first = log.first \/ (log.first = 0 /\ log'.first = 1),
         Clean' => Clean
  PROVE  ReadInv'
<1>1. /\ log.first \in Nat /\ log'.first \in Nat /\ log.last \in Nat /\ log'.last \in Nat
      /\ served \in Nat /\ served <= log.last
  BY DEF Log, ReadInv, GotInv
<1>2. \A q \in Seqs : log.first <= q <=> log'.first <= q
  BY <1>1 DEF Seqs
<1>3. Wanted(reader.since)' = Wanted(reader.since) /\ FromTheStart' = FromTheStart
  BY <1>2 DEF Wanted, FromTheStart
<1>4. /\ Coming(reader.page.next)' = Coming(reader.page.next) /\ Coming(served)' = Coming(served)
      /\ ReadAll' = ReadAll
  BY <1>2 DEF Coming, ReadAll
<1>5. served <= log'.last
  BY <1>1
<1>6. GotInv'
  <2>1. (reader.phase = "done" /\ MaxPages > 1 => WholeReadIsWhole)'
    BY <1>4 DEF ReadInv, GotInv, WholeReadIsWhole
  <2>2. (/\ Reading /\ ~reader.truncated /\ ~reader.restarted /\ reader.dropped = 0 =>
             /\ \A q \in reader.got : q <= served
             /\ reader.got = IF reader.since = Start THEN {} ELSE Wanted(reader.since))'
    BY <1>3 DEF ReadInv, GotInv, Reading
  <2>3. (reader.phase = "answered" /\ ~Disowned(reader.page) /\ reader.page.dropped = 0 =>
          /\ reader.page.events = Coming(IF reader.page.more THEN reader.page.next ELSE served)
          /\ reader.page.more => /\ reader.page.next <= served
                                 /\ reader.since # Start => reader.since <= reader.page.next)'
    BY <1>4 DEF ReadInv, GotInv, Disowned
  <2> QED
    BY <1>5, <2>1, <2>2, <2>3 DEF GotInv
<1>7. PagesInv' /\ CursorInv'
  BY <1>3 DEF ReadInv, PagesInv, CursorInv, Reading, FromTheStart
<1>8. CleanInv'
  BY DEF ReadInv, CleanInv, Reading, Disowned
<1> QED
  BY <1>6, <1>7, <1>8 DEF ReadInv

LEMMA RecordedRead == ReadInv /\ log \in Log /\ Recorded => ReadInv'
<1> SUFFICES ASSUME ReadInv, log \in Log, Recorded PROVE ReadInv'
  OBVIOUS
<1> DEFINE first == IF log.first = 0 THEN 1 ELSE log.first
           rec == [log.rec EXCEPT ![log.last + 1] = "small"]
<1>1. /\ log \in Log /\ log.last \in Nat /\ log.last + 1 \in Nat /\ log.rec \in [Seqs -> Kinds]
      /\ log.first \in Nat /\ log.drift \in Nat /\ MaxSeq \in Nat
  BY BoundsArePositive DEF Log
<1>2. first \in Nat /\ rec \in [Seqs -> Kinds]
  BY <1>1 DEF Log, Kinds
<1>3. log' = [log EXCEPT !.last = log.last + 1, !.first = first, !.rec = rec] /\ log.last < MaxSeq
  BY DEF Recorded
<1>4. /\ first = log.first \/ (log.first = 0 /\ first = 1)
      /\ \A q \in Seqs : rec[q] = IF q = log.last + 1 THEN "small" ELSE log.rec[q]
      /\ first # 0
  BY <1>1
<1> HIDE DEF first, rec
<1>5. log' \in Log /\ log'.last = log.last + 1 /\ log'.first = first /\ log'.rec = rec
      /\ log'.drift = log.drift
  BY <1>1, <1>2, <1>3 DEF Log
<1>6. UNCHANGED <<reader, restarts, served>>
  BY DEF Recorded, readVars
<1>7. log.first <= log.last /\ (log.last # 0 => log.first # 0) /\ log.drift <= 1
      /\ \A q \in Seqs : q \notin log.first..log.last => log.rec[q] = "none"
  BY DEF ReadInv, LogInv
<1>8. \A q \in Seqs : q \in log.first..log.last => q \in first..(log.last + 1)
  BY <1>1, <1>4 DEF Seqs
<1>9. LogInv'
  <2>1. log.last + 1 <= MaxSeq /\ first <= log.last + 1
    BY <1>1, <1>2, <1>3, <1>4, <1>7
  <2>2. ASSUME NEW q \in Seqs, q \notin first..(log.last + 1) PROVE rec[q] = "none"
    <3>1. q # log.last + 1
      BY <1>1, <1>2, <2>1, <2>2
    <3> QED
      BY <1>4, <1>7, <1>8, <2>2, <3>1
  <2> QED
    BY <1>4, <1>5, <1>7, <2>1, <2>2 DEF LogInv
<1>10. Clean' => Clean
  <2> SUFFICES ASSUME Clean', NEW q \in log.first..log.last, q > 0
               PROVE  log.drift = 0 /\ log.rec[q] \in {"small", "large"}
    BY <1>5 DEF Clean
  <2>1. q \in Seqs /\ q # log.last + 1
    BY <1>1, <1>3 DEF Seqs
  <2>2. q \in first..(log.last + 1)
    BY <1>8, <2>1
  <2>3. rec[q] \in {"small", "large"}
    BY <1>5, <2>2 DEF Clean
  <2> QED
    BY <1>4, <1>5, <2>1, <2>3 DEF Clean
<1>11. log.last <= log'.last
  BY <1>1, <1>5
<1> QED
  BY <1>4, <1>5, <1>6, <1>9, <1>10, <1>11, LogGrows

LEMMA DropRead == ReadInv /\ log \in Log /\ Drop => ReadInv'
<1> SUFFICES ASSUME ReadInv, log \in Log, Drop PROVE ReadInv'
  OBVIOUS
<1>1. log' = [log EXCEPT !.drift = 1] /\ UNCHANGED <<reader, restarts, served>> /\ log.last \in Nat
  BY DEF Drop, readVars, Log
<1>2. /\ log' \in Log /\ log'.last = log.last /\ log'.first = log.first /\ log'.rec = log.rec
      /\ log'.drift = 1
  BY <1>1 DEF Log
<1>3. LogInv' /\ ~Clean'
  BY <1>2 DEF ReadInv, LogInv, Clean
<1> QED
  BY <1>1, <1>2, <1>3, LogGrows

LEMMA RemovedRead ==
  ASSUME ReadInv, log \in Log, log' = [log EXCEPT !.kept = FALSE],
         UNCHANGED <<reader, restarts, served>>
  PROVE  ReadInv'
<1>1. /\ log' \in Log /\ log'.last = log.last /\ log'.first = log.first /\ log'.rec = log.rec
      /\ log'.drift = log.drift /\ log.last \in Nat
  BY DEF Log
<1>2. LogInv' /\ (Clean' => Clean)
  BY <1>1 DEF ReadInv, LogInv, Clean
<1> QED
  BY <1>1, <1>2, LogGrows

LEMMA StartReadRead == ReadInv /\ (\E since \in Cursors : StartRead(since)) => ReadInv'
<1> SUFFICES ASSUME ReadInv, NEW since \in Cursors, StartRead(since) PROVE ReadInv'
  OBVIOUS
<1>1. since \in Nat \cup {Start} /\ Start \notin Nat
  BY StartIsNoCursor
<1>2. reader' = NewCursor(since) /\ UNCHANGED <<log, restarts, served>> /\ reader.phase = "idle"
  BY DEF StartRead
<1>3. /\ reader' \in Readers /\ reader'.phase = "asking" /\ reader'.asked = since
      /\ reader'.since = since /\ reader'.got = {} /\ reader'.dropped = 0
      /\ reader'.truncated = FALSE /\ reader'.restarted = FALSE /\ reader'.pages = 0
  BY <1>1, <1>2, CursorFacts
<1>4. restarts = 0 /\ served \in Nat /\ served <= log.last /\ MaxPages \in Nat /\ MaxPages > 0
  BY <1>2, BoundsArePositive DEF ReadInv, PagesInv, GotInv
<1>5. PagesInv' /\ CursorInv'
  BY <1>1, <1>2, <1>3, <1>4 DEF PagesInv, CursorInv, FromTheStart, Reading
<1>6. since # Start => Wanted(since)' = {}
  <2> SUFFICES ASSUME since # Start, NEW q \in Seqs, q <= since, q > since PROVE FALSE
    BY <1>2, <1>3, <1>4 DEF Wanted, FromTheStart
  <2> QED
    BY <1>1 DEF Seqs
<1>7. GotInv'
  BY <1>2, <1>3, <1>4, <1>6 DEF GotInv, Reading, WholeReadIsWhole
<1>8. LogInv' /\ CleanInv'
  BY <1>2, <1>3 DEF ReadInv, LogInv, CleanInv, Reading
<1> QED
  BY <1>2, <1>3, <1>5, <1>7, <1>8 DEF ReadInv

LEMMA LosePageRead == ReadInv /\ LosePage => ReadInv'
<1> SUFFICES ASSUME ReadInv, LosePage PROVE ReadInv'
  OBVIOUS
<1>1. /\ reader' = [reader EXCEPT !.phase = "failed", !.page = NoPage]
      /\ UNCHANGED <<log, restarts, served>> /\ reader \in Readers
  BY DEF LosePage, ReadInv
<1>2. reader' \in Readers /\ reader'.phase = "failed" /\ reader'.pages = reader.pages
  BY <1>1, BarePages DEF Readers
<1> QED
  BY <1>1, <1>2 DEF ReadInv, LogInv, PagesInv, CursorInv, GotInv, CleanInv, Reading

LEMMA ServePageRead == ReadInv /\ log \in Log /\ ServePage => ReadInv'
<1> SUFFICES ASSUME ReadInv, log \in Log, ServePage PROVE ReadInv'
  OBVIOUS
<1>1. /\ reader \in Readers /\ reader.since \in Nat \cup {Start} /\ reader.pages \in Nat
      /\ log.last \in Nat /\ LogInv /\ served \in Nat /\ served <= log.last /\ MaxPages \in Nat
      /\ restarts \in Nat /\ reader.got \subseteq Seqs
  BY BoundsArePositive DEF ReadInv, Log, Readers, GotInv
<1>2. reader.phase = "asking" /\ served' = log.last /\ UNCHANGED <<log, restarts>>
  BY DEF ServePage
<1>3. CASE ~log.kept
  <2>1. reader' = [reader EXCEPT !.phase = "failed"]
    BY <1>3 DEF ServePage
  <2>2. reader' \in Readers /\ reader'.phase = "failed" /\ reader'.pages = reader.pages
    BY <1>1, <2>1 DEF Readers
  <2> QED
    BY <1>1, <1>2, <2>2 DEF ReadInv, LogInv, PagesInv, CursorInv, GotInv, CleanInv, Reading
<1>4. CASE log.kept
  <2>9. PICK page : page = Page(reader.since)
    OBVIOUS
  <2>1. reader' = [reader EXCEPT !.phase = "answered", !.page = page, !.pages = @ + 1]
    BY <1>4, <2>9 DEF ServePage
  <2>2. /\ page \in Pages
        /\ ~Disowned(page) /\ page.dropped = 0 =>
              /\ page.events = {q \in Seqs : /\ log.first <= q
                                             /\ q <= IF page.more THEN page.next ELSE log.last
                                             /\ reader.since = Start \/ q > reader.since}
              /\ page.more => /\ page.next <= log.last
                              /\ reader.since # Start => reader.since <= page.next
        /\ Clean => /\ Disowned(page) => reader.since # Start
                    /\ page.dropped = 0
                    /\ page.more => page.events # {}
    <3>0. PICK since \in Nat \cup {Start} : since = reader.since
      BY <1>1
    <3>1. log \in Log /\ LogInv /\ page = Page(since)
      BY <1>1, <2>9, <3>0
    <3>2. page \in Pages
      BY <3>1, PageFacts
    <3>3. ~Disowned(page) /\ page.dropped = 0 =>
              /\ page.events = {q \in Seqs : /\ log.first <= q
                                             /\ q <= IF page.more THEN page.next ELSE log.last
                                             /\ reader.since = Start \/ q > reader.since}
              /\ page.more => /\ page.next <= log.last
                              /\ reader.since # Start => reader.since <= page.next
      <4>1. ~Disowned(page) /\ page.dropped = 0 =>
              /\ page.events = {q \in Seqs : /\ log.first <= q
                                             /\ q <= IF page.more THEN page.next ELSE log.last
                                             /\ since = Start \/ q > since}
              /\ page.more => /\ page.next <= log.last
                              /\ since # Start => since <= page.next
        BY <3>1, PageFacts
      <4> QED
        BY <3>0, <4>1
    <3>4. Clean => /\ Disowned(page) => reader.since # Start
                   /\ page.dropped = 0
                   /\ page.more => page.events # {}
      BY <3>0, <3>1, PageFacts
    <3> QED
      BY <3>2, <3>3, <3>4
  <2>3. /\ reader' \in Readers /\ reader'.phase = "answered" /\ reader'.page = page
        /\ reader'.pages = reader.pages + 1 /\ reader'.since = reader.since
        /\ reader'.asked = reader.asked /\ reader'.got = reader.got
        /\ reader'.dropped = reader.dropped /\ reader'.truncated = reader.truncated
        /\ reader'.restarted = reader.restarted /\ reader'.more = reader.more
    <3> DEFINE n == reader.pages + 1
    <3>1. page \in Pages /\ n \in Nat
      BY <1>1, <2>2
    <3>2. reader' = [reader EXCEPT !.phase = "answered", !.page = page, !.pages = n]
      BY <2>1
    <3> HIDE DEF n
    <3>3. /\ reader' \in Readers /\ reader'.phase = "answered" /\ reader'.page = page
          /\ reader'.pages = n /\ reader'.since = reader.since
          /\ reader'.asked = reader.asked /\ reader'.got = reader.got
          /\ reader'.dropped = reader.dropped /\ reader'.truncated = reader.truncated
          /\ reader'.restarted = reader.restarted /\ reader'.more = reader.more
      BY <1>1, <3>1, <3>2 DEF Readers
    <3> QED
      BY <3>3 DEF n
  <2>0. (Disowned(reader.page)' <=> Disowned(page)) /\ (Clean' <=> Clean)
    BY <1>2, <2>3 DEF Disowned, Clean
  <2>4. PagesInv'
    <3>1. /\ reader.pages < MaxPages /\ restarts <= reader.pages
          /\ reader.pages = 0 \/ reader.more \/ reader.restarted
      BY <1>2 DEF ReadInv, PagesInv
    <3> QED
      BY <1>1, <1>2, <2>3, <3>1 DEF PagesInv
  <2>5. LogInv' /\ CursorInv'
    BY <1>2, <2>3 DEF ReadInv, LogInv, CursorInv, Reading, FromTheStart
  <2>6. GotInv'
    <3>1. served' <= log'.last
      BY <1>1, <1>2
    <3>2. Wanted(reader.since)' = Wanted(reader.since)
      BY <1>2, <2>3 DEF Wanted, FromTheStart
    <3>3. /\ Coming(page.next)' = {q \in Seqs : /\ log.first <= q /\ q <= page.next'
                                                /\ reader.since = Start \/ q > reader.since}
          /\ Coming(served)' = {q \in Seqs : /\ log.first <= q /\ q <= log.last
                                             /\ reader.since = Start \/ q > reader.since}
      BY <1>2, <2>3 DEF Coming
    <3>4. \A q \in reader.got : q <= served => q <= log.last
      BY <1>1 DEF Seqs
    <3>5. (/\ Reading /\ ~reader.truncated /\ ~reader.restarted /\ reader.dropped = 0 =>
             /\ \A q \in reader.got : q <= served
             /\ reader.got = IF reader.since = Start THEN {} ELSE Wanted(reader.since))'
      BY <1>2, <2>3, <3>2, <3>4 DEF ReadInv, GotInv, Reading
    <3>6. (reader.phase = "answered" /\ ~Disowned(reader.page) /\ reader.page.dropped = 0 =>
            /\ reader.page.events = Coming(IF reader.page.more THEN reader.page.next ELSE served)
            /\ reader.page.more => /\ reader.page.next <= served
                                   /\ reader.since # Start => reader.since <= reader.page.next)'
      <4>1. ASSUME ~Disowned(page), page.dropped = 0
            PROVE  /\ page.events = {q \in Seqs : /\ log.first <= q
                                                  /\ q <= IF page.more THEN page.next ELSE log.last
                                                  /\ reader.since = Start \/ q > reader.since}
                   /\ page.more => /\ page.next <= log.last
                                   /\ reader.since # Start => reader.since <= page.next
        BY <2>2, <4>1
      <4> QED
        BY <1>2, <2>0, <2>3, <4>1 DEF Coming
    <3> QED
      BY <2>3, <3>1, <3>5, <3>6 DEF GotInv
  <2>7. CleanInv'
    <3>1. Clean => reader.dropped = 0 /\ ~reader.truncated
      BY <1>2 DEF ReadInv, CleanInv, Reading
    <3>2. Clean => /\ Disowned(page) => reader.since # Start
                   /\ page.dropped = 0
                   /\ page.more => page.events # {}
      BY <2>2
    <3> QED
      BY <2>0, <2>3, <3>1, <3>2 DEF CleanInv
  <2> QED
    BY <1>1, <1>2, <2>3, <2>4, <2>5, <2>6, <2>7 DEF ReadInv
<1> QED
  BY <1>3, <1>4

LEMMA FinishedFacts ==
  ASSUME NEW r \in Readers, NEW f, f = [Finished(r) EXCEPT !.page = NoPage]
  PROVE  /\ f \in Readers /\ f.asked = r.asked /\ f.since = r.since /\ f.got = r.got
         /\ f.dropped = r.dropped /\ f.restarted = r.restarted /\ f.more = r.more
         /\ f.pages = r.pages
         /\ IF r.phase = "asking" /\ r.pages = MaxPages
              THEN f.phase = "done" /\ f.truncated = (r.truncated \/ r.more)
              ELSE f.phase = r.phase /\ f.truncated = r.truncated
<1>1. NoPage \in Pages
  BY BarePages
<1>2. CASE r.phase = "asking" /\ r.pages = MaxPages
  <2> DEFINE short == r.truncated \/ r.more
  <2>1. short \in BOOLEAN /\ f = [[r EXCEPT !.phase = "done", !.truncated = short] EXCEPT !.page = NoPage]
    BY <1>2 DEF Finished, Readers
  <2> HIDE DEF short
  <2>2. /\ f \in Readers /\ f.asked = r.asked /\ f.since = r.since /\ f.got = r.got
        /\ f.dropped = r.dropped /\ f.restarted = r.restarted /\ f.more = r.more
        /\ f.pages = r.pages /\ f.phase = "done" /\ f.truncated = short
    BY <1>1, <2>1 DEF Readers
  <2> QED
    BY <1>2, <2>2 DEF short
<1>3. CASE ~(r.phase = "asking" /\ r.pages = MaxPages)
  <2>1. f = [r EXCEPT !.page = NoPage]
    BY <1>3 DEF Finished
  <2> QED
    BY <1>1, <1>3, <2>1 DEF Readers
<1> QED
  BY <1>2, <1>3

LEMMA RefusedFacts ==
  ASSUME NEW r \in Readers, NEW f, f = Refused(r)
  PROVE  /\ f \in Readers /\ f.asked = r.asked /\ f.got = r.got /\ f.dropped = r.dropped
         /\ f.more = r.more /\ f.pages = r.pages
         /\ IF r.restarted \/ r.since = Start
              THEN f.phase = "done" /\ f.truncated = TRUE
              ELSE /\ f.phase = "asking" /\ f.truncated = r.truncated /\ f.restarted = TRUE
                   /\ f.since = Start
<1>1. CASE r.restarted \/ r.since = Start
  <2>1. f = [r EXCEPT !.rehydrate = TRUE, !.truncated = TRUE, !.phase = "done"]
    BY <1>1 DEF Refused
  <2> QED
    BY <1>1, <2>1 DEF Readers
<1>2. CASE ~(r.restarted \/ r.since = Start)
  <2>1. f = [r EXCEPT !.rehydrate = TRUE, !.restarted = TRUE, !.since = Start, !.phase = "asking"]
    BY <1>2 DEF Refused
  <2> QED
    BY <1>2, <2>1 DEF Readers
<1> QED
  BY <1>1, <1>2

LEMMA AbsorbedFacts ==
  ASSUME NEW r \in Readers, NEW page \in Pages, NEW f, f = Absorbed(r, page)
  PROVE  /\ f \in Readers /\ f.asked = r.asked /\ f.pages = r.pages
         /\ f.got = (IF r.restarted THEN {} ELSE r.got) \cup page.events
         /\ f.dropped = (IF r.restarted THEN 0 ELSE r.dropped) + page.dropped
         /\ f.restarted = FALSE /\ f.since = page.next /\ f.more = page.more
         /\ f.truncated = (r.truncated \/ (page.more /\ page.events = {}))
         /\ f.phase = IF page.more /\ page.events # {} THEN "asking" ELSE "done"
<1> DEFINE got == (IF r.restarted THEN {} ELSE r.got) \cup page.events
           dropped == (IF r.restarted THEN 0 ELSE r.dropped) + page.dropped
           truncated == r.truncated \/ (page.more /\ page.events = {})
           phase == IF page.more /\ page.events # {} THEN "asking" ELSE "done"
<1>1. f = [r EXCEPT !.got = got, !.dropped = dropped, !.restarted = FALSE, !.since = page.next,
                    !.more = page.more, !.truncated = truncated, !.phase = phase]
  BY DEF Absorbed
<1>2. /\ page.more \in BOOLEAN /\ page.next \in Nat /\ page.dropped \in Nat
      /\ page.events \subseteq Seqs /\ r.dropped \in Nat /\ r.got \subseteq Seqs
      /\ r.truncated \in BOOLEAN
  BY DEF Pages, Readers
<1>3. /\ got \in SUBSET Seqs /\ dropped \in Nat /\ truncated \in BOOLEAN
      /\ phase \in {"asking", "done"}
  BY <1>2
<1> HIDE DEF got, dropped, truncated, phase
<1> DEFINE g == [r EXCEPT !.got = got, !.dropped = dropped, !.restarted = FALSE,
                          !.since = page.next]
<1>4. /\ g \in Readers /\ g.asked = r.asked /\ g.pages = r.pages /\ g.got = got
      /\ g.dropped = dropped /\ g.restarted = FALSE /\ g.since = page.next
  BY <1>2, <1>3 DEF Readers
<1>5. f = [g EXCEPT !.more = page.more, !.truncated = truncated, !.phase = phase]
  BY <1>1 DEF Readers
<1> HIDE DEF g
<1>6. /\ f \in Readers /\ f.asked = r.asked /\ f.pages = r.pages /\ f.got = got
      /\ f.dropped = dropped /\ f.restarted = FALSE /\ f.since = page.next
      /\ f.more = page.more /\ f.truncated = truncated /\ f.phase = phase
  BY <1>2, <1>3, <1>4, <1>5 DEF Readers
<1> QED
  BY <1>6 DEF got, dropped, truncated, phase

(* A refusal: back to the start, or the end of the read with a warning.      *)
LEMMA TakeRefusal ==
  ASSUME ReadInv, TakePage, Disowned(reader.page)
  PROVE  ReadInv'
<1> DEFINE r == Refused(reader)
           back == ~reader.restarted /\ reader.since # Start
<1>1. /\ reader \in Readers /\ restarts \in Nat /\ served \in Nat /\ served <= log.last
      /\ reader.pages \in Nat /\ reader.pages <= MaxPages /\ MaxPages \in Nat
      /\ reader.phase = "answered" /\ UNCHANGED <<log, served>>
      /\ restarts < reader.pages /\ (reader.pages = 1 \/ reader.more \/ reader.restarted)
      /\ reader.restarted \in BOOLEAN
  BY BoundsArePositive DEF TakePage, ReadInv, GotInv, PagesInv, Readers
<1>2. reader' = [Finished(r) EXCEPT !.page = NoPage]
      /\ restarts' = IF back THEN restarts + 1 ELSE restarts
  BY DEF TakePage, Accepted, Disowned
<1>3. /\ r \in Readers /\ r.asked = reader.asked /\ r.got = reader.got /\ r.dropped = reader.dropped
      /\ r.more = reader.more /\ r.pages = reader.pages
      /\ IF back
           THEN /\ r.phase = "asking" /\ r.truncated = reader.truncated /\ r.restarted = TRUE
                /\ r.since = Start
           ELSE r.phase = "done" /\ r.truncated = TRUE
  BY <1>1, RefusedFacts
<1> HIDE DEF r
<1>4. /\ reader' \in Readers /\ reader'.since = r.since /\ reader'.dropped = reader.dropped
      /\ reader'.restarted = r.restarted /\ reader'.pages = reader.pages
      /\ IF r.phase = "asking" /\ r.pages = MaxPages
           THEN reader'.phase = "done" /\ reader'.truncated = (r.truncated \/ r.more)
           ELSE reader'.phase = r.phase /\ reader'.truncated = r.truncated
  <2>1. r \in Readers /\ reader' = [Finished(r) EXCEPT !.page = NoPage]
    BY <1>2, <1>3
  <2>2. /\ reader' \in Readers /\ reader'.since = r.since /\ reader'.dropped = r.dropped
        /\ reader'.restarted = r.restarted /\ reader'.pages = r.pages
    BY <2>1, FinishedFacts
  <2>3. IF r.phase = "asking" /\ r.pages = MaxPages
          THEN reader'.phase = "done" /\ reader'.truncated = (r.truncated \/ r.more)
          ELSE reader'.phase = r.phase /\ reader'.truncated = r.truncated
    BY <2>1, FinishedFacts
  <2> QED
    BY <1>3, <2>2, <2>3
<1>5. Clean => back /\ reader.dropped = 0 /\ ~reader.truncated
  BY <1>1 DEF ReadInv, CleanInv, CursorInv, Reading
<1>6. LogInv' /\ (Clean' <=> Clean)
  BY <1>1 DEF ReadInv, LogInv, Clean
<1>7. restarts' \in Nat /\ restarts' <= reader.pages
  BY <1>1, <1>2
<1>8. CASE ~back
  <2>1. reader'.phase = "done" /\ reader'.truncated = TRUE
    BY <1>3, <1>4, <1>8
  <2> QED
    BY <1>1, <1>4, <1>5, <1>6, <1>7, <1>8, <2>1
       DEF ReadInv, PagesInv, CursorInv, GotInv, CleanInv, Reading, WholeReadIsWhole
<1>9. CASE back /\ reader.pages = MaxPages
  <2>1. reader'.phase = "done" /\ reader'.pages = MaxPages
    BY <1>3, <1>4, <1>9
  <2>2. MaxPages > 1 => reader'.truncated = TRUE
    <3>1. MaxPages > 1 => reader.more
      BY <1>1, <1>9
    <3> QED
      BY <1>3, <1>4, <1>9, <3>1 DEF Readers
  <2> QED
    BY <1>1, <1>4, <1>5, <1>6, <1>7, <2>1, <2>2
       DEF ReadInv, PagesInv, CursorInv, GotInv, CleanInv, Reading, WholeReadIsWhole
<1>10. CASE back /\ reader.pages # MaxPages
  <2>1. /\ reader'.phase = "asking" /\ reader'.restarted = TRUE /\ reader'.since = Start
        /\ reader'.truncated = reader.truncated /\ reader.pages < MaxPages
    BY <1>1, <1>3, <1>4, <1>10
  <2>2. FromTheStart'
    BY <1>1, <1>2, <1>10 DEF FromTheStart
  <2> QED
    BY <1>1, <1>4, <1>5, <1>6, <1>7, <2>1, <2>2
       DEF ReadInv, PagesInv, CursorInv, GotInv, CleanInv, Reading
<1> QED
  BY <1>8, <1>9, <1>10

(* A page: what was read and what came make up what was asked for.           *)
LEMMA TakeAnswer ==
  ASSUME ReadInv, TakePage, ~Disowned(reader.page)
  PROVE  ReadInv'
<1> DEFINE page == reader.page
           upTo == IF page.more THEN page.next ELSE served
<1>1. /\ reader \in Readers /\ restarts \in Nat /\ served \in Nat /\ served <= log.last
      /\ reader.pages \in Nat /\ reader.pages <= MaxPages /\ MaxPages \in Nat
      /\ reader.phase = "answered" /\ UNCHANGED <<log, served>>
      /\ restarts < reader.pages /\ reader.restarted \in BOOLEAN /\ reader.truncated \in BOOLEAN
      /\ reader.since \in Nat \cup {Start} /\ reader.asked \in Nat \cup {Start}
      /\ reader.dropped \in Nat /\ reader.got \subseteq Seqs
      /\ page \in Pages /\ page.next \in Nat /\ page.dropped \in Nat /\ page.events \subseteq Seqs
      /\ page.more \in BOOLEAN /\ Start \notin Nat
  BY BoundsArePositive, StartIsNoCursor DEF TakePage, ReadInv, GotInv, PagesInv, Readers, Pages
<1>2. PICK r : r = Absorbed(reader, page) /\ reader' = [Finished(r) EXCEPT !.page = NoPage]
  BY DEF TakePage, Accepted, Disowned
<1>3. restarts' = restarts
  BY DEF TakePage, Disowned
<1>4. /\ r \in Readers /\ r.asked = reader.asked /\ r.pages = reader.pages
      /\ r.got = (IF reader.restarted THEN {} ELSE reader.got) \cup page.events
      /\ r.dropped = (IF reader.restarted THEN 0 ELSE reader.dropped) + page.dropped
      /\ r.restarted = FALSE /\ r.since = page.next /\ r.more = page.more
      /\ r.truncated = (reader.truncated \/ (page.more /\ page.events = {}))
      /\ r.phase = IF page.more /\ page.events # {} THEN "asking" ELSE "done"
  <2>1. reader \in Readers /\ page \in Pages /\ r = Absorbed(reader, page)
    BY <1>1, <1>2
  <2> HIDE DEF page
  <2>2. /\ r \in Readers /\ r.asked = reader.asked /\ r.pages = reader.pages
        /\ r.got = (IF reader.restarted THEN {} ELSE reader.got) \cup page.events
        /\ r.dropped = (IF reader.restarted THEN 0 ELSE reader.dropped) + page.dropped
    BY <2>1, AbsorbedFacts
  <2>3. r.restarted = FALSE /\ r.since = page.next /\ r.more = page.more
    BY <2>1, AbsorbedFacts
  <2>4. /\ r.truncated = (reader.truncated \/ (page.more /\ page.events = {}))
        /\ r.phase = IF page.more /\ page.events # {} THEN "asking" ELSE "done"
    BY <2>1, AbsorbedFacts
  <2> QED
    BY <2>2, <2>3, <2>4
<1>5. /\ reader' \in Readers /\ reader'.asked = reader.asked /\ reader'.since = page.next
      /\ reader'.got = r.got /\ reader'.dropped = r.dropped /\ reader'.restarted = FALSE
      /\ reader'.more = page.more /\ reader'.pages = reader.pages
      /\ IF r.phase = "asking" /\ r.pages = MaxPages
           THEN reader'.phase = "done" /\ reader'.truncated = (r.truncated \/ r.more)
           ELSE reader'.phase = r.phase /\ reader'.truncated = r.truncated
  <2>1. r \in Readers /\ reader' = [Finished(r) EXCEPT !.page = NoPage]
    BY <1>2, <1>4
  <2>2. /\ reader' \in Readers /\ reader'.asked = r.asked /\ reader'.since = r.since
        /\ reader'.got = r.got /\ reader'.dropped = r.dropped /\ reader'.restarted = r.restarted
        /\ reader'.more = r.more /\ reader'.pages = r.pages
    BY <2>1, FinishedFacts
  <2>3. IF r.phase = "asking" /\ r.pages = MaxPages
          THEN reader'.phase = "done" /\ reader'.truncated = (r.truncated \/ r.more)
          ELSE reader'.phase = r.phase /\ reader'.truncated = r.truncated
    BY <2>1, FinishedFacts
  <2> QED
    BY <1>4, <2>2, <2>3
<1>6. LogInv' /\ (Clean' <=> Clean) /\ (FromTheStart' <=> FromTheStart)
  BY <1>1, <1>3, <1>5 DEF ReadInv, LogInv, Clean, FromTheStart
<1>7. /\ reader.since = Start => FromTheStart
      /\ ~FromTheStart /\ reader.dropped = 0 => reader.asked <= reader.since
      /\ reader.restarted => reader.since = Start
  BY <1>1 DEF ReadInv, CursorInv, Reading
<1>8. page.dropped = 0 => /\ page.events = Coming(upTo)
                          /\ page.more => /\ page.next <= served
                                          /\ reader.since # Start => reader.since <= page.next
  BY <1>1 DEF ReadInv, GotInv
<1>9. ~reader.truncated /\ ~reader.restarted /\ reader.dropped = 0 =>
        /\ \A q \in reader.got : q <= served
        /\ reader.got = IF reader.since = Start THEN {} ELSE Wanted(reader.since)
  BY <1>1 DEF ReadInv, GotInv, Reading
<1>10. reader'.truncated = FALSE => ~reader.truncated /\ (page.more => page.events # {})
  BY <1>1, <1>4, <1>5
<1>11. r.dropped = 0 => page.dropped = 0 /\ (~reader.restarted => reader.dropped = 0)
  BY <1>1, <1>4
<1> HIDE DEF page, upTo
<1>12. ASSUME reader'.truncated = FALSE, r.dropped = 0
       PROVE  /\ r.got = {q \in Seqs : /\ log.first <= q /\ q <= upTo
                                       /\ FromTheStart \/ q > reader.asked}
              /\ \A q \in r.got : q <= served
              /\ ~FromTheStart /\ page.more => reader.asked <= page.next
  <2>1. /\ ~reader.truncated /\ page.dropped = 0 /\ (~reader.restarted => reader.dropped = 0)
        /\ page.events = {q \in Seqs : /\ log.first <= q /\ q <= upTo
                                       /\ reader.since = Start \/ q > reader.since}
        /\ page.more => page.next <= served /\ (reader.since # Start => reader.since <= page.next)
    BY <1>8, <1>10, <1>11, <1>12 DEF Coming
  <2>2. upTo \in Nat /\ upTo <= served
    BY <1>1, <2>1 DEF upTo
  <2>3. \A q \in Seqs : q \in Nat
    BY DEF Seqs
  <2>4. \A q \in page.events : q \in Nat /\ q <= served
    BY <1>1, <2>1, <2>2, <2>3
  <2>5. CASE reader.since = Start
    <3>1. r.got = page.events
      BY <1>4, <1>9, <2>1, <2>5
    <3>2. FromTheStart
      BY <1>7, <2>5
    <3> QED
      BY <2>1, <2>4, <2>5, <3>1, <3>2
  <2>6. CASE reader.since # Start
    <3>1. ~reader.restarted /\ reader.dropped = 0 /\ reader.since \in Nat
      BY <1>1, <1>7, <2>1, <2>6
    <3>2. /\ reader.got = {q \in Seqs : /\ log.first <= q /\ q <= reader.since
                                        /\ FromTheStart \/ q > reader.asked}
          /\ \A q \in reader.got : q <= served
          /\ r.got = reader.got \cup page.events
      BY <1>4, <1>9, <2>1, <2>6, <3>1 DEF Wanted
    <3>3. ~FromTheStart => reader.asked \in Nat /\ reader.asked <= reader.since
      BY <1>1, <1>7, <3>1 DEF FromTheStart
    <3>4. ASSUME NEW q \in reader.got PROVE q <= upTo
      <4>1. q \in Nat /\ q <= reader.since /\ q <= served
        BY <2>3, <3>2
      <4> QED
        BY <1>1, <2>1, <2>6, <3>1, <4>1 DEF upTo
    <3>5. ASSUME NEW q \in Seqs
          PROVE  q \in r.got <=> /\ log.first <= q /\ q <= upTo
                                 /\ FromTheStart \/ q > reader.asked
      <4>1. q \in Nat
        BY <2>3
      <4>2. CASE q <= reader.since
        <5>1. q \notin page.events
          BY <2>1, <2>6, <3>1, <4>1, <4>2
        <5> QED
          BY <3>2, <3>4, <4>2, <5>1
      <4>3. CASE q > reader.since
        <5>1. q \notin reader.got
          BY <3>1, <3>2, <4>1, <4>3
        <5>2. FromTheStart \/ q > reader.asked
          BY <3>1, <3>3, <4>1, <4>3
        <5> QED
          BY <2>1, <3>2, <4>3, <5>1, <5>2
      <4> QED
        BY <3>1, <4>1, <4>2, <4>3
    <3>6. r.got \subseteq Seqs
      BY <1>1, <3>2
    <3>7. \A q \in r.got : q <= served
      BY <2>4, <3>2
    <3>8. ~FromTheStart /\ page.more => reader.asked <= page.next
      BY <1>1, <2>1, <2>6, <3>1, <3>3
    <3> QED
      BY <3>5, <3>6, <3>7, <3>8
  <2> QED
    BY <2>5, <2>6
<1>13. r.phase = "asking" <=> page.more /\ page.events # {}
  BY <1>4
<1>14. Clean => /\ r.dropped = 0 /\ ~reader.truncated /\ page.dropped = 0
                /\ page.more => page.events # {}
  BY <1>1, <1>4 DEF ReadInv, CleanInv, Reading, page
<1>15. CASE r.phase = "asking" /\ r.pages = MaxPages
  <2>1. reader'.phase = "done" /\ reader'.truncated = TRUE
    BY <1>4, <1>5, <1>13, <1>15
  <2> QED
    BY <1>1, <1>3, <1>4, <1>5, <1>6, <1>14, <1>15, <2>1
       DEF ReadInv, PagesInv, CursorInv, GotInv, CleanInv, Reading, WholeReadIsWhole
<1>16. CASE r.phase = "asking" /\ r.pages # MaxPages
  <2>1. /\ reader'.phase = "asking" /\ reader.pages < MaxPages /\ page.more = TRUE
        /\ upTo = page.next /\ page.next # Start /\ reader'.truncated = r.truncated
    BY <1>1, <1>4, <1>5, <1>13, <1>16 DEF upTo
  <2>2. PagesInv'
    BY <1>1, <1>3, <1>5, <2>1 DEF PagesInv
  <2>3. ASSUME ~reader'.truncated, reader'.dropped = 0
        PROVE  /\ reader'.got = {q \in Seqs : /\ log.first <= q /\ q <= page.next
                                              /\ FromTheStart \/ q > reader.asked}
               /\ \A q \in reader'.got : q <= served
    BY <1>4, <1>5, <1>12, <2>1, <2>3 DEF Readers
  <2>4. CursorInv'
    <3>1. ASSUME ~FromTheStart, reader'.dropped = 0 PROVE reader.asked <= page.next
      <4>1. page.dropped = 0 /\ reader.since # Start /\ reader.dropped = 0
        BY <1>5, <1>7, <1>11, <3>1
      <4>2. reader.since <= page.next /\ reader.asked <= reader.since
        BY <1>7, <1>8, <2>1, <3>1, <4>1
      <4>3. reader.asked \in Nat /\ reader.since \in Nat
        BY <1>1, <3>1, <4>1 DEF FromTheStart
      <4> QED
        BY <1>1, <4>2, <4>3
    <3> QED
      BY <1>5, <1>6, <2>1, <3>1 DEF CursorInv
  <2>5. GotInv'
    <3>2. Wanted(reader.since)' = {q \in Seqs : /\ log.first <= q /\ q <= page.next
                                                /\ FromTheStart \/ q > reader.asked}
      BY <1>1, <1>5, <1>6 DEF Wanted
    <3> QED
      BY <1>1, <1>5, <2>1, <2>3, <3>2 DEF GotInv, Reading
  <2>6. CleanInv'
    BY <1>4, <1>5, <1>6, <1>13, <1>14, <1>16, <2>1 DEF CleanInv, Reading
  <2> QED
    BY <1>1, <1>3, <1>5, <1>6, <2>2, <2>4, <2>5, <2>6 DEF ReadInv
<1>17. CASE r.phase # "asking"
  <2>1. reader'.phase = "done" /\ reader'.truncated = r.truncated
    BY <1>4, <1>5, <1>17
  <2>2. PagesInv' /\ CursorInv'
    BY <1>1, <1>3, <1>5, <2>1 DEF PagesInv, CursorInv, Reading
  <2>3. WholeReadIsWhole'
    <3> SUFFICES ASSUME ~reader'.truncated, reader'.dropped = 0 PROVE ReadAll'
      BY DEF WholeReadIsWhole
    <3>1. ~page.more /\ reader'.truncated = FALSE
      BY <1>1, <1>4, <1>10, <1>13, <1>17, <2>1
    <3>2. r.got = {q \in Seqs : /\ log.first <= q /\ q <= served
                                /\ FromTheStart \/ q > reader.asked}
      BY <1>5, <1>12, <3>1 DEF upTo
    <3> QED
      BY <1>1, <1>3, <1>5, <3>2 DEF ReadAll, FromTheStart
  <2>4. GotInv'
    BY <1>1, <2>1, <2>3 DEF GotInv, Reading
  <2>5. CleanInv'
    BY <1>4, <1>5, <1>6, <1>14, <2>1 DEF CleanInv, Reading
  <2> QED
    BY <1>1, <1>3, <1>5, <1>6, <2>2, <2>4, <2>5 DEF ReadInv
<1> QED
  BY <1>15, <1>16, <1>17

----------------------------------------------------------------------------
(* Every step                                                                *)

LEMMA InitBounds == Init => BoundInv
<1> SUFFICES ASSUME Init PROVE BoundInv
  OBVIOUS
<1>1. /\ hook \in {"transcript", "list", "files"} /\ removal = "none" /\ batch = "idle"
      /\ list.latest = 1 /\ list.row = {} /\ asks = {Request(1, "")}
  BY DEF Init
<1>2. Request(1, "").id = 1 /\ Request(1, "").row = {}
  BY EmptyQuery, Requests
<1>3. 1 <= MaxAsks /\ 1 >= 1
  BY BoundsArePositive
<1>4. \A a \in asks : a.id = 1 /\ a.row = {}
  BY <1>1, <1>2
<1> QED
  BY <1>1, <1>3, <1>4 DEF BoundInv

LEMMA NextBounds == TypeInv /\ ReadInv /\ BoundInv /\ [Next]_vars => BoundInv'
<1> SUFFICES ASSUME TypeInv, ReadInv, BoundInv, [Next]_vars PROVE BoundInv'
  OBVIOUS
<1>1. /\ list \in List /\ list.latest \in Nat /\ list.latest <= MaxAsks /\ MaxAsks \in Nat
      /\ MaxSeq \in Nat /\ log.last \in 0..MaxSeq /\ asks \subseteq Asks
  BY BoundsArePositive DEF TypeInv, List, BoundInv, ReadInv, LogInv, Log
<1>2. CASE UNCHANGED <<list, asks>>
  <2>1. hook' = hook
    BY DEF Next, StartRead, ServePage, TakePage, LosePage, Ask, ServeList, ListLands, ListFails,
           AskRemoval, ServeRemoval, RemovalLands, StartUpload, ServeUpload, CutUpload, Discard,
           Settled, Undone, Recorded, Drop, RemoveSession, vars
  <2>2. removal' \in {"none", "asked", "done", "refused", "over"}
    BY DEF BoundInv, Next, StartRead, ServePage, TakePage, LosePage, Ask, ServeList, ListLands, ListFails,
           AskRemoval, ServeRemoval, RemovalLands, StartUpload, ServeUpload, CutUpload, Discard,
           Settled, Undone, Recorded, Drop, RemoveSession, vars, listVars
  <2>3. batch' \in {"idle", "sending", "undoing", "sent", "failed"}
    BY DEF BoundInv, Next, StartRead, ServePage, TakePage, LosePage, Ask, ServeList, ListLands, ListFails,
           AskRemoval, ServeRemoval, RemovalLands, StartUpload, ServeUpload, CutUpload, Discard,
           Settled, Undone, Recorded, Drop, RemoveSession, vars, fileVars
  <2> QED
    BY <1>2, <2>1, <2>2, <2>3 DEF BoundInv
<1>3. CASE \E q \in Queries : Ask(q)
  <2>1. PICK q \in Queries : Ask(q)
    BY <1>3
  <2> DEFINE next == list.latest + 1
             new == Request(next, q)
  <2>2. next \in Nat /\ next >= 1 /\ next <= MaxAsks
    BY <1>1, <2>1 DEF Ask
  <2>3. new.id = next /\ new.row = {}
    BY <2>2, Requests
  <2>4. list' = [list EXCEPT !.query = q, !.latest = next, !.loading = TRUE] /\ asks' = asks \cup {new}
    BY <2>1 DEF Ask
  <2> HIDE DEF next, new
  <2>5. list'.latest = next /\ list'.row = list.row
    BY <1>1, <2>4 DEF List
  <2>6. UNCHANGED <<hook, removal, batch>>
    BY <2>1 DEF Ask, fileVars
  <2> QED
    BY <2>2, <2>3, <2>4, <2>5, <2>6 DEF BoundInv
<1>4. CASE \E a \in asks : ServeList(a)
  <2>1. PICK a \in asks : ServeList(a)
    BY <1>4
  <2>2. PICK b : b = [a EXCEPT !.answer = "ok", !.row = Listed]
    OBVIOUS
  <2>3. a \in Asks /\ Listed \subseteq 0..MaxSeq /\ Listed \in SUBSET Nat
    BY <1>1 DEF Listed
  <2>4. b.id = a.id /\ b.row = Listed
    BY <2>2, <2>3 DEF Asks
  <2>5. asks' = (asks \ {a}) \cup {b} /\ UNCHANGED <<hook, removal, batch, list>>
    BY <2>1, <2>2 DEF ServeList, fileVars
  <2> QED
    BY <2>3, <2>4, <2>5 DEF BoundInv
<1>5. CASE \E a \in asks : ListLands(a) \/ ListFails(a)
  <2>1. PICK a \in asks : ListLands(a) \/ ListFails(a)
    BY <1>5
  <2>2. list' = list \/ (list'.latest = list.latest /\ list'.row \in {a.row, {}})
    <3>1. CASE ListLands(a)
      BY <1>1, <3>1 DEF ListLands, List
    <3>2. CASE ListFails(a)
      BY <1>1, <3>2 DEF ListFails, List
    <3> QED
      BY <2>1, <3>1, <3>2
  <2>3. asks' = asks \ {a} /\ UNCHANGED <<hook, removal, batch>>
    BY <2>1 DEF ListLands, ListFails, fileVars
  <2> QED
    BY <2>2, <2>3 DEF BoundInv
<1>6. CASE RemovalLands
  <2>1. list' = list \/ (list'.latest = list.latest /\ list'.row = {})
    BY <1>1, <1>6 DEF RemovalLands, List
  <2>2. removal' = "over" /\ UNCHANGED <<hook, asks, batch>>
    BY <1>6 DEF RemovalLands, fileVars
  <2> QED
    BY <2>1, <2>2 DEF BoundInv
<1>7. \/ UNCHANGED <<list, asks>>
      \/ \E q \in Queries : Ask(q)
      \/ \E a \in asks : ServeList(a)
      \/ \E a \in asks : ListLands(a) \/ ListFails(a)
      \/ RemovalLands
  BY DEF Next, StartRead, ServePage, TakePage, LosePage, AskRemoval, ServeRemoval, StartUpload,
         ServeUpload, CutUpload, Discard, Settled, Undone, Recorded, Drop, RemoveSession, vars, listVars
<1> QED
  BY <1>2, <1>3, <1>4, <1>5, <1>6, <1>7

LEMMA NextRead == TypeInv /\ ReadInv /\ [Next]_vars => ReadInv'
<1> SUFFICES ASSUME TypeInv, ReadInv, [Next]_vars PROVE ReadInv'
  OBVIOUS
<1>1. log \in Log
  BY DEF TypeInv
<1>2. CASE UNCHANGED <<log, reader, restarts, served>>
  BY <1>2 DEF ReadInv, LogInv, PagesInv, CursorInv, GotInv, CleanInv, Reading, Clean, FromTheStart,
              Wanted, Coming, Disowned, WholeReadIsWhole, ReadAll
<1>3. CASE Recorded
  BY <1>1, <1>3, RecordedRead
<1>4. CASE Drop
  BY <1>1, <1>4, DropRead
<1>5. CASE ServeRemoval \/ RemoveSession
  <2>1. log' = [log EXCEPT !.kept = FALSE] /\ UNCHANGED <<reader, restarts, served>>
    BY <1>5 DEF ServeRemoval, RemoveSession, readVars
  <2> QED
    BY <1>1, <2>1, RemovedRead
<1>6. CASE \E since \in Cursors : StartRead(since)
  BY <1>6, StartReadRead
<1>7. CASE ServePage
  BY <1>1, <1>7, ServePageRead
<1>8. CASE TakePage
  BY <1>8, TakeRefusal, TakeAnswer
<1>9. CASE LosePage
  BY <1>9, LosePageRead
<1>10. \/ UNCHANGED <<log, reader, restarts, served>>
       \/ Recorded \/ Drop \/ ServeRemoval \/ RemoveSession
       \/ \E since \in Cursors : StartRead(since)
       \/ ServePage \/ TakePage \/ LosePage
  BY DEF Next, Ask, ServeList, ListLands, ListFails, AskRemoval, RemovalLands, StartUpload,
         ServeUpload, CutUpload, Discard, Settled, Undone, vars, readVars
<1> QED
  BY <1>2, <1>3, <1>4, <1>5, <1>6, <1>7, <1>8, <1>9, <1>10

LEMMA Typed == TypeInv /\ ListInv /\ FileInv /\ ReadInv /\ BoundInv => TypeOK
<1> SUFFICES ASSUME TypeInv, ListInv, FileInv, ReadInv, BoundInv PROVE TypeOK
  OBVIOUS
<1>1. /\ log = [kept |-> log.kept, first |-> log.first, last |-> log.last, drift |-> log.drift,
               rec |-> log.rec]
      /\ log.kept \in BOOLEAN /\ log.first \in Nat /\ log.last \in Nat /\ log.drift \in Nat
      /\ log.rec \in [Seqs -> Kinds]
      /\ log.first <= log.last /\ log.last <= MaxSeq /\ log.drift <= 1 /\ MaxSeq \in Nat
  BY BoundsArePositive DEF TypeInv, Log, ReadInv, LogInv
<1>2. log \in [kept : BOOLEAN, first : 0..MaxSeq, last : 0..MaxSeq, drift : 0..1, rec : [Seqs -> Kinds]]
  <2>1. log.first \in 0..MaxSeq /\ log.last \in 0..MaxSeq /\ log.drift \in 0..1
    BY <1>1
  <2> QED
    BY <1>1, <2>1
<1>3. /\ reader.phase \in {"idle", "asking", "answered", "done", "failed"}
      /\ reader.since \in Nat \cup {Start} /\ reader.got \subseteq Seqs /\ reader.pages \in Nat
      /\ reader.page.status \in Statuses
  BY DEF ReadInv, Readers, Pages
<1>4. /\ reader.pages \in 0..MaxPages /\ restarts \in 0..MaxPages /\ served \in 0..MaxSeq
  <2>1. /\ restarts \in Nat /\ served \in Nat /\ reader.pages <= MaxPages /\ restarts <= reader.pages
        /\ served <= log.last /\ MaxPages \in Nat
    BY BoundsArePositive DEF ReadInv, PagesInv, GotInv
  <2> QED
    BY <1>1, <1>3, <2>1
<1>5. list.latest \in 0..MaxAsks /\ askedAt \in 0..MaxSeq /\ \A a \in asks : a.id \in 1..list.latest
  <2>1. /\ list.latest \in Nat /\ list.latest <= MaxAsks /\ MaxAsks \in Nat /\ askedAt \in Nat
        /\ askedAt <= log.last /\ \A a \in asks : a.id \in Nat /\ a.id >= 1 /\ a.id <= list.latest
    BY BoundsArePositive DEF TypeInv, List, Asks, ListInv, BoundInv
  <2> QED
    BY <1>1, <2>1
<1> QED
  BY <1>1, <1>2, <1>3, <1>4, <1>5 DEF TypeOK, TypeInv, FileInv, BoundInv, Uploads

LEMMA Invariance == Spec => []Inv
<1>1. Init => Inv
  BY InitInv, InitRead, InitBounds DEF Inv
<1>2. Inv /\ [Next]_vars => Inv'
  BY NextInv, NextRead, NextBounds DEF Inv, IInv
<1> QED
  BY <1>1, <1>2, PTL DEF Spec

----------------------------------------------------------------------------
(* Theorems                                                                  *)

(* Whatever the order of the answers, and whatever the store does in the     *)
(* meantime, a list that has loaded answers the query in the field with rows *)
(* no older than the last request: the latest counter of useStoredSessions.  *)
THEOREM TheListIsCurrent == Spec => []ListIsCurrent
<1>1. Inv => ListIsCurrent
  BY DEF Inv, IInv, ListInv, ListIsCurrent
<1> QED
  BY <1>1, Invariance, PTL

(* For any set of files and any loss on the way, a batch that is sent is     *)
(* stored whole, and a batch that failed leaves nothing but what an answer   *)
(* that was lost would have told of: uploadAttachments.                      *)
THEOREM BatchesAreAllOrNothing == Spec => []BatchIsAllOrNothing
<1>1. Inv => BatchIsAllOrNothing
  <2> SUFFICES ASSUME Inv PROVE BatchIsAllOrNothing
    OBVIOUS
  <2>1. ASSUME batch = "sent", log.kept
        PROVE  {f \in Files : upload[f] # "none"} \subseteq spool \ cut
    BY <2>1 DEF Inv, IInv, FileInv, BatchInv
  <2>2. ASSUME batch = "failed"
        PROVE  spool \subseteq lost
    BY <2>2 DEF Inv, IInv, TypeInv, FileInv, BatchInv
  <2> QED
    BY <2>1, <2>2 DEF BatchIsAllOrNothing
<1> QED
  BY <1>1, Invariance, PTL

(* A transcript that carries no warning is every record that was asked for,  *)
(* from the first one or the cursor up to the last record at its last page,  *)
(* for any page budget and any run of gaps, unreadable records, refused      *)
(* cursors and appends: SessionStore.read with TranscriptCursor.  A read     *)
(* bounded to one page would end with the refusal of its cursor, no record   *)
(* and no warning, hence the assumption; MAX_TRANSCRIPT_PAGES is 64.         *)
THEOREM WholeReadsAreWhole ==
  ASSUME MaxPages > 1
  PROVE  Spec => []WholeReadIsWhole
<1>1. Inv => WholeReadIsWhole
  BY DEF Inv, ReadInv, GotInv, WholeReadIsWhole
<1> QED
  BY <1>1, Invariance, PTL

(* And a session that lost nothing is read whole, without a warning, unless  *)
(* the bound on pages ends the read.                                         *)
THEOREM CleanLogsAreReadWhole ==
  ASSUME MaxPages > 1
  PROVE  Spec => []CleanLogIsReadWhole
<1>1. Inv => CleanLogIsReadWhole
  <2> SUFFICES ASSUME Inv, reader.phase = "done", reader.pages < MaxPages, Clean
               PROVE  ~reader.truncated /\ reader.dropped = 0 /\ ReadAll
    BY DEF CleanLogIsReadWhole, Clean
  <2>1. ~reader.truncated /\ reader.dropped = 0
    BY DEF Inv, ReadInv, CleanInv
  <2> QED
    BY <2>1 DEF Inv, ReadInv, GotInv, WholeReadIsWhole
<1> QED
  BY <1>1, Invariance, PTL

(* Type correctness, with the bounds that the code relies on: a read makes   *)
(* no more than MaxPages requests, and a file is cut off in the spool only   *)
(* when the answer to its upload was lost.                                   *)
THEOREM ApiTypes == Spec => []TypeOK
<1>1. Inv => TypeOK
  BY Typed DEF Inv, IInv
<1> QED
  BY <1>1, Invariance, PTL
=============================================================================
