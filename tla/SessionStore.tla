---------------------------- MODULE SessionStore ----------------------------
(***************************************************************************)
(* The durable store of sessions (server/src/store/session-store.ts): its  *)
(* three tables, the four things it keeps only in memory (stopped,         *)
(* storeDrifted, live, storeBytes), and open, create, append, setTitle,    *)
(* remove, spoolAttachment, discardAttachment, close or a crash, with the  *)
(* import of the files of the store it replaced.                           *)
(*                                                                         *)
(* Every method runs to its end in one go, so it is one action; a crash    *)
(* keeps what is committed.  Only the import awaits files, one session at  *)
(* a time.  A size is a small number and a time a day of the clock.  What  *)
(* the store cannot promise is the environment's: a lock held by somebody  *)
(* else, a full disk, the process that dies.                               *)
(***************************************************************************)
EXTENDS Integers, FiniteSetsExt, SequencesExt

CONSTANTS Sids,            \* store ids
          NoSid,           \* null
          Files,           \* attachment ids
          Legacy,          \* the directories of the old store, by store id
          MaxSessions,     \* SessionStoreOptions.maxSessions
          MaxSessionBytes, \* SessionStoreOptions.maxSessionBytes
          MaxStoreBytes,   \* SessionStoreOptions.maxStoreBytes
          MaxLineBytes,    \* MAX_LINE_BYTES
          IdleEvict,       \* SessionStoreOptions.idleEvictMs, in days
          EventBytes,      \* bound: sizes of the records offered
          FileBytes,       \* bound: sizes of the files uploaded
          ManifestBytes,   \* size of a manifest
          MaxSeats,        \* seats that write at the same time
          MaxOffers,       \* bound on the events offered to one session
          MaxDay,          \* bound on the clock
          MaxRestarts,     \* bound on crashes and restarts
          DiskFails,       \* whether a write may fail for good
          MarksFail        \* whether the write that marks a loss may fail too

ASSUME NoSidIsNull == NoSid \notin Sids
ASSUME LegacyIsStored ==
  /\ DOMAIN Legacy \subseteq Sids
  /\ \A s \in DOMAIN Legacy :
       /\ {Legacy[s].first, Legacy[s].last, Legacy[s].bytes, Legacy[s].skipped} \subseteq Nat
       /\ {Legacy[s].truncated, Legacy[s].midTurn} \subseteq BOOLEAN
       /\ Legacy[s].stamp \in 0..MaxDay
       /\ IsFiniteSet(Legacy[s].records)
       /\ \A r \in Legacy[s].records :
            r.seq \in Nat \ {0} /\ r.bytes \in Nat /\ r.turn \in BOOLEAN
       /\ Legacy[s].records # {} =>
            \E f, l \in Legacy[s].records :
              \A r \in Legacy[s].records : f.seq <= r.seq /\ r.seq <= l.seq
ASSUME CapsAreNatural ==
  /\ {MaxSessions, MaxSessionBytes, MaxStoreBytes, MaxLineBytes, IdleEvict} \subseteq Nat
  /\ {ManifestBytes, MaxSeats, MaxOffers, MaxDay, MaxRestarts} \subseteq Nat
  /\ EventBytes \cup FileBytes \subseteq Nat \ {0}
ASSUME FailuresAreBoolean == {DiskFails, MarksFail} \subseteq BOOLEAN

VARIABLES
  sessions,     \* table sessions: store id -> row
  events,       \* table events
  attachments,  \* table attachments
  imported,     \* the flag legacy-import-done
  phase,        \* how far open() is
  walked,       \* directories this open() has looked at
  storeBytes,   \* SessionStore.storeBytes
  stopped,      \* SessionStore.stopped
  drifted,      \* SessionStore.storeDrifted
  live,         \* SessionStore.live, least recently written first
  seats,        \* sessions a harness seat writes to
  opening,      \* session whose session.opened is about to be appended
  day,          \* the clock
  used,         \* history: store ids that have been given out
  offered,      \* history: events offered to each session
  restarts      \* crashes and restarts so far

tables == <<sessions, events, attachments, imported>>
memory == <<storeBytes, stopped, drifted, live>>
world  == <<seats, opening, day, used, offered, restarts>>
vars   == <<tables, phase, walked, memory, world>>

(* nr is the event's place among those offered, 0 for an imported record;  *)
(* turn says that it leaves a turn open (turn.started, turn.delta,         *)
(* tool.updated).                                                          *)
Row == [first : Nat, last : Nat, bytes : Nat, truncated : BOOLEAN,
        midTurn : BOOLEAN, dropped : Nat, stamp : 0..MaxDay]
Event == [sid : Sids, seq : Nat, nr : 0..MaxOffers, turn : BOOLEAN, bytes : Nat]
Attachment == [sid : Sids, file : Files, size : Nat]

Running == phase = "ready"

TypeOK ==
  /\ DOMAIN sessions \subseteq Sids /\ sessions \in [DOMAIN sessions -> Row]
  /\ \A e \in events : e \in Event
  /\ \A a \in attachments : a \in Attachment
  /\ phase \in {"down", "importing", "booted", "ready"}
  /\ imported \in BOOLEAN /\ walked \subseteq DOMAIN Legacy
  /\ storeBytes \in Nat
  /\ stopped \subseteq DOMAIN sessions
  /\ drifted \in [Sids -> Nat]
  /\ live \in Seq(Sids) /\ Len(live) <= MaxSessions
  /\ seats \subseteq Sids /\ opening \in seats \cup {NoSid}
  /\ day \in 0..MaxDay /\ restarts \in 0..MaxRestarts
  /\ DOMAIN sessions \subseteq used /\ used \subseteq Sids
  /\ offered \in [Sids -> 0..MaxOffers]

Nothing == [s \in {} |-> {}]

Init ==
  /\ sessions = Nothing /\ events = {} /\ attachments = {} /\ imported = FALSE
  /\ phase = "down" /\ walked = {}
  /\ storeBytes = 0 /\ stopped = {} /\ drifted = [s \in Sids |-> 0] /\ live = <<>>
  /\ seats = {} /\ opening = NoSid /\ day = 0 /\ used = {}
  /\ offered = [s \in Sids |-> 0] /\ restarts = 0

----------------------------------------------------------------------------
(* The tables *)

Log(s)   == {e \in events : e.sid = s}
Seqs(s)  == {e.seq : e \in Log(s)}
Spooled(s) == {a \in attachments : a.sid = s}
Bytes(S) == MapThenSumSet(LAMBDA e : e.bytes, S)
RowBytes(rows) == MapThenSumSet(LAMBDA s : rows[s].bytes, DOMAIN rows)

ChargeOf(a) == a.size + ManifestBytes
Charge(S) == MapThenSumSet(ChargeOf, S)

(* What a session holds of the budget, as remove() and deleteRows() read   *)
(* it before the delete.  Faulty variants, here and below, stand before    *)
(* what they would replace: a delete that forgets the files ...            *)
HeldWithoutSpool(s) == sessions[s].bytes
Held(s) == sessions[s].bytes + Charge(Spooled(s))

(* A row is inserted.                                                      *)
With(rows, s, row) == [r \in DOMAIN rows \cup {s} |-> IF r = s THEN row ELSE rows[r]]

(* Map.delete on the pins: those that stay keep their order.               *)
PinsWithout(gone) ==
  LET kept  == {i \in DOMAIN live : live[i] \notin gone}
      At(j) == CHOOSE i \in kept : Cardinality({k \in kept : k <= i}) = j
  IN  [j \in 1..Cardinality(kept) |-> live[At(j)]]

(* The delete cascades to the events and the attachments, and takes the    *)
(* marks of the session with it (... or leaves one).                       *)
Without(rows, gone) == [s \in DOMAIN rows \ gone |-> rows[s]]
CascadeKeepingStop(gone) ==
  /\ events' = {e \in events : e.sid \notin gone}
  /\ attachments' = {a \in attachments : a.sid \notin gone}
  /\ live' = PinsWithout(gone)
  /\ UNCHANGED stopped
Cascade(gone) ==
  /\ events' = {e \in events : e.sid \notin gone}
  /\ attachments' = {a \in attachments : a.sid \notin gone}
  /\ stopped' = stopped \ gone
  /\ live' = PinsWithout(gone)

(* max(0, total - held), as the code writes it. *)
LessHeld(gone) ==
  Max({0, storeBytes - MapThenSumSet(Held, gone)})

----------------------------------------------------------------------------
(* open() *)

Open ==
  /\ phase = "down"
  /\ phase' = "importing" /\ walked' = {}
  /\ UNCHANGED <<tables, memory, world>>

(* ... an import that is due as long as the store is empty ...             *)
ImportDueWhenEmpty == DOMAIN sessions = {}
ImportDue == ~imported

(* A row of the old meta.json, its events, and the count of lines that did *)
(* not parse, in one transaction.                                          *)
ImportedRow(s) ==
  [first |-> Legacy[s].first, last |-> Legacy[s].last, bytes |-> Legacy[s].bytes,
   truncated |-> Legacy[s].truncated, midTurn |-> Legacy[s].midTurn,
   dropped |-> Legacy[s].skipped, stamp |-> Legacy[s].stamp]
ImportedLog(s) ==
  {[sid |-> s, seq |-> r.seq, nr |-> 0, turn |-> r.turn, bytes |-> r.bytes]
     : r \in Legacy[s].records}

(* A session that is already there is left alone; one whose transaction    *)
(* fails is reported and passed over.                                      *)
ImportSession(s) ==
  /\ phase = "importing" /\ ImportDue
  /\ s \in DOMAIN Legacy \ walked
  /\ walked' = walked \cup {s}
  /\ \/ /\ s \in DOMAIN sessions \/ DiskFails
        /\ UNCHANGED <<sessions, events, used>>
     \/ /\ s \notin DOMAIN sessions
        /\ sessions' = With(sessions, s, ImportedRow(s))
        /\ events' = events \cup ImportedLog(s)
        /\ used' = used \cup {s}
  /\ UNCHANGED <<attachments, imported, phase, memory, seats, opening, day,
                 offered, restarts>>

(* ... a marker that does not wait for every directory ...                 *)
MarkImportedEarly ==
  /\ phase = "importing" /\ ImportDue
  /\ walked # {}
  /\ imported' = TRUE
  /\ UNCHANGED <<sessions, events, attachments, phase, walked, memory, world>>

(* The marker: not written when there was nothing to look at.              *)
MarkImported ==
  /\ phase = "importing" /\ ImportDue
  /\ walked # {} /\ walked = DOMAIN Legacy
  /\ imported' = TRUE
  /\ UNCHANGED <<sessions, events, attachments, phase, walked, memory, world>>

(* endsMidTurn of the last event.                                          *)
EndsMidTurn(s) == \E e \in Log(s) : e.turn /\ \A f \in Log(s) : f.seq <= e.seq

(* ... a repair that keeps the claims, or makes an empty log look whole ... *)
EmptiedTrusting(s) == sessions[s]
EmptiedUnmarked(s) ==
  [sessions[s] EXCEPT !.first = 0, !.last = 0, !.bytes = 0, !.midTurn = FALSE]

(* reconcileOne: a row that claims records and has none is emptied, and is *)
(* a prefix from then on ...                                               *)
Emptied(s) ==
  [sessions[s] EXCEPT !.first = 0, !.last = 0, !.bytes = 0, !.midTurn = FALSE,
                      !.truncated = TRUE]

(* ... a row that disagrees with its events, or whose log ends mid-turn,   *)
(* is rewritten from them, and any other row is left as it is.             *)
Reconciled(s) ==
  LET row == sessions[s] IN
  CASE Log(s) = {} /\ (row.first > 0 \/ row.last > 0) -> Emptied(s)
    [] Log(s) # {} /\ \/ row.first # Min(Seqs(s))
                      \/ row.last # Max(Seqs(s))
                      \/ EndsMidTurn(s) ->
         [row EXCEPT !.first = Min(Seqs(s)), !.last = Max(Seqs(s)),
                     !.bytes = Bytes(Log(s)),
                     !.truncated = @ \/ EndsMidTurn(s),
                     !.midTurn = EndsMidTurn(s)]
    [] OTHER -> row

(* chargeStoreBytes *)
Charged(rows) == RowBytes(rows) + Charge(attachments)

(* reconcile, per session whatever fails, then the budget of the repaired  *)
(* rows.                                                                   *)
FinishOpen ==
  /\ phase = "importing"
  /\ ~ImportDue \/ DOMAIN Legacy = {}
  /\ \E unwritten \in SUBSET DOMAIN sessions :
       /\ unwritten # {} => DiskFails
       /\ LET rows == [s \in DOMAIN sessions |->
                         IF s \in unwritten THEN sessions[s] ELSE Reconciled(s)]
          IN  sessions' = rows /\ storeBytes' = Charged(rows)
  /\ phase' = "booted"
  /\ UNCHANGED <<events, attachments, imported, walked, stopped, drifted, live, world>>

(* The server listens only now. *)
Listen ==
  /\ phase = "booted"
  /\ phase' = "ready"
  /\ UNCHANGED <<tables, walked, memory, world>>

(* Every row is committed: close() and a crash leave the same tables, and  *)
(* forget the same memory.                                                 *)
Stop ==
  /\ phase # "down" /\ restarts < MaxRestarts
  /\ restarts' = restarts + 1
  /\ phase' = "down"
  /\ storeBytes' = 0 /\ stopped' = {} /\ drifted' = [s \in Sids |-> 0] /\ live' = <<>>
  /\ seats' = {} /\ opening' = NoSid
  /\ UNCHANGED <<tables, walked, day, used, offered>>

----------------------------------------------------------------------------
(* create() and evict() *)

Pinned == Range(live)
Idle(s) == day - sessions[s].stamp > IdleEvict

(* ... an eviction that takes the newest, and one that does not look at    *)
(* the pins ...                                                            *)
PrunedNewestFirst ==
  LET can  == DOMAIN sessions \ Pinned
      room == Max({0, Cardinality(DOMAIN sessions) + 1 - MaxSessions})
  IN  { E \in SUBSET can :
          /\ \A s \in E, r \in can \ E : sessions[s].stamp >= sessions[r].stamp
          /\ Cardinality(E) = Min({Cardinality(can), room}) }
PrunedBlindly ==
  LET can  == DOMAIN sessions
      room == Max({0, Cardinality(can) + 1 - MaxSessions})
  IN  { E \in SUBSET can :
          /\ \A s \in E, r \in can \ E : sessions[s].stamp <= sessions[r].stamp
          /\ Cardinality(E) = room }
(* What evict() deletes: walking from the oldest and skipping the live     *)
(* ones, it takes as many as the cap asks for and every idle one; equal    *)
(* stamps are in the order of random ids.                                  *)
Pruned ==
  LET can  == DOMAIN sessions \ Pinned
      room == Max({0, Cardinality(DOMAIN sessions) + 1 - MaxSessions})
      idle == {s \in can : Idle(s)}
  IN  { E \in SUBSET can :
          /\ \A s \in E, r \in can \ E : sessions[s].stamp <= sessions[r].stamp
          /\ Cardinality(E) = Max({Cardinality(idle), Min({Cardinality(can), room})}) }

NewRow == [first |-> 0, last |-> 0, bytes |-> 0, truncated |-> FALSE,
           midTurn |-> FALSE, dropped |-> 0, stamp |-> day]

(* ... a cap checked one too late ...                                      *)
HasRoomOffByOne(n) == n <= MaxSessions
HasRoom(n) == n < MaxSessions

(* The session service creates the record of a seat it just got and        *)
(* appends session.opened to it next.  What eviction deleted is gone even  *)
(* if the create is refused; storeDrifted keeps the counts of the deleted. *)
Create(s) ==
  /\ Running /\ opening = NoSid
  /\ s \in Sids \ (used \cup DOMAIN Legacy)
  /\ Cardinality(seats) < MaxSeats
  /\ \E E \in Pruned :
       /\ Cascade(E)
       /\ storeBytes' = LessHeld(E)
       /\ IF HasRoom(Cardinality(DOMAIN sessions \ E))
            THEN /\ sessions' = With(Without(sessions, E), s, NewRow)
                 /\ used' = used \cup {s}
                 /\ seats' = seats \cup {s} /\ opening' = s
            ELSE /\ sessions' = Without(sessions, E)
                 /\ UNCHANGED <<used, seats, opening>>
  /\ UNCHANGED <<imported, phase, walked, drifted, day, offered, restarts>>

(* session.load continues a stored session: its seat writes to it again.   *)
Continue(s) ==
  /\ Running /\ opening = NoSid
  /\ s \in DOMAIN sessions \ seats
  /\ Cardinality(seats) < MaxSeats
  /\ seats' = seats \cup {s} /\ opening' = s
  /\ UNCHANGED <<tables, phase, walked, memory, day, used, offered, restarts>>

SeatEnds(s) ==
  /\ s \in seats /\ opening = NoSid
  /\ seats' = seats \ {s}
  /\ UNCHANGED <<tables, phase, walked, memory, opening, day, used, offered, restarts>>

----------------------------------------------------------------------------
(* append() *)

(* pinLive: last in recency order, the oldest pin dropped beyond the cap.  *)
PinLive(s) ==
  LET pins == Append(PinsWithout({s}), s)
  IN  live' = IF Len(pins) > MaxSessions THEN Tail(pins) ELSE pins

(* ... a dropped record that is only reported, or that takes a number ...  *)
NoteDroppedNot(s) == UNCHANGED <<sessions, drifted>>
NoteDroppedNumbered(s) ==
  /\ drifted' = [drifted EXCEPT ![s] = @ + 1]
  /\ sessions' = [sessions EXCEPT ![s].dropped = @ + 1, ![s].last = @ + 1]

(* noteDropped: counted in memory and, if that write goes through, on the  *)
(* row.                                                                    *)
NoteDropped(s) ==
  /\ drifted' = [drifted EXCEPT ![s] = @ + 1]
  /\ \/ sessions' = [sessions EXCEPT ![s].dropped = @ + 1]
     \/ MarksFail /\ UNCHANGED sessions

SetTruncated(s) ==
  \/ sessions' = [sessions EXCEPT ![s].truncated = TRUE]
  \/ MarksFail /\ UNCHANGED sessions

(* markTruncated, and the end of a write that failed for good.             *)
StopWriter(s) ==
  /\ stopped' = stopped \cup {s}
  /\ SetTruncated(s)

OverSession(s, n) == sessions[s].bytes + n > MaxSessionBytes
OverStoreAlready(n) == storeBytes > MaxStoreBytes
OverStore(n) == storeBytes + n > MaxStoreBytes
NextSeq(s) == sessions[s].last + 1
SeqTaken(s) == NextSeq(s) \in Seqs(s)

(* The transaction: the event, then the row.                               *)
Record(s, turn, n) ==
  /\ events' = events \cup {[sid |-> s, seq |-> NextSeq(s), nr |-> offered[s] + 1,
                             turn |-> turn, bytes |-> n]}
  /\ sessions' = [sessions EXCEPT ![s].last = @ + 1,
                                  ![s].first = IF @ = 0 THEN NextSeq(s) ELSE @,
                                  ![s].bytes = @ + n,
                                  ![s].stamp = day]
  /\ storeBytes' = storeBytes + n

(* An event of n bytes, offered by the seat of s.  Somebody else's lock    *)
(* can make any write give up; a full disk, or a sequence number that is   *)
(* taken, stops the writer.                                                *)
Offer(s, turn, n) ==
  /\ Running
  /\ s \in seats \cap DOMAIN sessions
  /\ offered[s] < MaxOffers
  /\ opening \in {NoSid, s} /\ (opening = s => ~turn)
  /\ opening' = NoSid
  /\ offered' = [offered EXCEPT ![s] = @ + 1]
  /\ IF s \in stopped
       THEN UNCHANGED <<sessions, events, memory>>
       ELSE /\ PinLive(s)
            /\ \/ /\ n > MaxLineBytes
                  /\ NoteDropped(s)
                  /\ UNCHANGED <<events, stopped, storeBytes>>
               \/ /\ n <= MaxLineBytes
                  /\ OverSession(s, n) \/ OverStore(n)
                  /\ StopWriter(s)
                  /\ UNCHANGED <<events, drifted, storeBytes>>
               \/ /\ n <= MaxLineBytes /\ ~OverSession(s, n) /\ ~OverStore(n)
                  /\ \/ /\ ~SeqTaken(s)
                        /\ Record(s, turn, n)
                        /\ UNCHANGED <<stopped, drifted>>
                     \/ /\ NoteDropped(s)
                        /\ UNCHANGED <<events, stopped, storeBytes>>
                     \/ /\ DiskFails \/ SeqTaken(s)
                        /\ StopWriter(s)
                        /\ UNCHANGED <<events, drifted, storeBytes>>
  /\ UNCHANGED <<attachments, imported, phase, walked, seats, day, used, restarts>>

(* The session was removed under the seat: its events are dropped from     *)
(* then on, session.opened included.                                       *)
OfferUnknown(s) ==
  /\ Running
  /\ s \in seats \ DOMAIN sessions
  /\ opening = s
  /\ opening' = NoSid
  /\ UNCHANGED <<tables, phase, walked, memory, seats, day, used, offered, restarts>>

(* setTitle: the harness may name any time it likes. *)
SetTitle(s, stamp) ==
  /\ Running /\ opening = NoSid
  /\ s \in seats \cap DOMAIN sessions
  /\ sessions' = [sessions EXCEPT ![s].stamp = stamp]
  /\ UNCHANGED <<events, attachments, imported, phase, walked, memory, world>>

----------------------------------------------------------------------------
(* remove(), attachments *)

(* The user deletes a session, whether or not a seat still writes to it;   *)
(* the service deletes one whose connection is gone.                       *)
RemoveSession(s) ==
  /\ Running
  /\ s \in DOMAIN sessions
  /\ opening \in {s, NoSid}
  /\ sessions' = Without(sessions, {s})
  /\ Cascade({s})
  /\ storeBytes' = LessHeld({s})
  /\ drifted' = [drifted EXCEPT ![s] = 0]
  /\ UNCHANGED <<imported, phase, walked, world>>

SpoolAttachment(s, f, n) ==
  /\ Running /\ opening = NoSid
  /\ s \in DOMAIN sessions
  /\ f \notin {a.file : a \in attachments}
  /\ ~OverStore(n)
  /\ LET a == [sid |-> s, file |-> f, size |-> n]
     IN  /\ attachments' = attachments \cup {a}
         /\ storeBytes' = storeBytes + ChargeOf(a)
  /\ UNCHANGED <<sessions, events, imported, phase, walked, stopped, drifted,
                 live, world>>

DiscardAttachment(a) ==
  /\ Running /\ opening = NoSid
  /\ attachments' = attachments \ {a}
  /\ storeBytes' = Max({0, storeBytes - ChargeOf(a)})
  /\ UNCHANGED <<sessions, events, imported, phase, walked, stopped, drifted,
                 live, world>>

NextDay ==
  /\ day < MaxDay /\ opening = NoSid
  /\ day' = day + 1
  /\ UNCHANGED <<tables, phase, walked, memory, seats, opening, used, offered, restarts>>

----------------------------------------------------------------------------

Boot == Open \/ MarkImported \/ FinishOpen \/ Listen \/ \E s \in Sids : ImportSession(s)

Next ==
  \/ Boot \/ Stop \/ NextDay
  \/ \E s \in Sids :
       \/ Create(s) \/ Continue(s) \/ SeatEnds(s) \/ OfferUnknown(s) \/ RemoveSession(s)
       \/ \E turn \in BOOLEAN, n \in EventBytes : Offer(s, turn, n)
       \/ \E stamp \in 0..MaxDay : SetTitle(s, stamp)
       \/ \E f \in Files, n \in FileBytes : SpoolAttachment(s, f, n)
  \/ \E a \in attachments : DiscardAttachment(a)

Spec == Init /\ [][Next]_vars

----------------------------------------------------------------------------
(* Safety *)

Up == phase \in {"booted", "ready"}

(* The running total of the byte budget is what the rows and the           *)
(* attachments add up to, and a row what its events do, through cascading  *)
(* deletes, discards, failed writes and restarts: a total that drifts      *)
(* refuses writes in an empty store, or lets a full one grow.              *)
BudgetIsExact ==
  Up => /\ storeBytes = RowBytes(sessions) + Charge(attachments)
        /\ \A s \in DOMAIN sessions \ DOMAIN Legacy : sessions[s].bytes = Bytes(Log(s))

(* The cursor of every session is that of its own events, and a session    *)
(* recorded here has every sequence number from 1 to its last: no failed   *)
(* or refused write takes a number.                                        *)
RowsAgreeWithLog ==
  Up => \A s \in DOMAIN sessions :
    /\ Log(s) = {} => sessions[s].first = 0 /\ sessions[s].last = 0
    /\ Log(s) # {} => /\ sessions[s].first = Min(Seqs(s))
                      /\ sessions[s].last = Max(Seqs(s))
    /\ s \notin DOMAIN Legacy => Seqs(s) = 1..sessions[s].last

Lost(s) == offered[s] - Cardinality({e \in Log(s) : e.nr > 0})

(* A transcript that does not call itself a prefix owns up to every event  *)
(* it did not keep: read() reports the larger of the two counts.           *)
LossIsCounted ==
  Up => \A s \in DOMAIN sessions :
    ~sessions[s].truncated => Lost(s) <= Max({drifted[s], sessions[s].dropped})

(* A session a seat is writing to is deleted by remove() and by nothing    *)
(* else, eviction least of all.                                            *)
SeatedDeletedByRemove ==
  \A s \in seats \cap DOMAIN sessions :
    s \in DOMAIN sessions' \/ RemoveSession(s)
SeatedIsKept == [][SeatedDeletedByRemove]_vars

(* Eviction takes the sessions least recently used (nothing that may be    *)
(* evicted and is older than an evicted session stays), and below the cap  *)
(* it takes a session only for being idle.                                 *)
EvictionHasACause ==
  \A s \in DOMAIN sessions \ DOMAIN sessions' :
    \/ RemoveSession(s)
    \/ /\ \A r \in DOMAIN sessions \cap DOMAIN sessions' :
            r \in Pinned \/ sessions[s].stamp <= sessions[r].stamp
       /\ \/ Idle(s)
          \/ Cardinality(DOMAIN sessions \cap DOMAIN sessions') + 1 >= MaxSessions
EvictsOldestForCause == [][EvictionHasACause]_vars

(* A create never leaves more sessions than the cap, however many an       *)
(* import brought in.                                                      *)
CapKept ==
  Running /\ DOMAIN sessions' \ DOMAIN sessions # {}
    => Cardinality(DOMAIN sessions') <= MaxSessions
CreateWithinCap == [][CapKept]_vars

(* The ceiling of the whole store is passed by one manifest at the most.   *)
OvershootBounded == Up /\ Legacy = Nothing => storeBytes <= MaxStoreBytes + ManifestBytes

(* A store id that is gone stays gone: neither an event of a seat that     *)
(* still runs nor a second import brings a deleted session back.           *)
GoneStaysGone == \A s \in used \ DOMAIN sessions : s \notin DOMAIN sessions'
NeverResurrected == [][GoneStaysGone]_vars

(* Once the marker is set every directory of the old store was taken in:   *)
(* the import is never tried again after it.                               *)
ImportIsComplete == imported => DOMAIN Legacy \subseteq used

(* An imported session that claims records and holds none says so.         *)
EmptyImportIsMarked ==
  Up => \A s \in DOMAIN sessions \cap DOMAIN Legacy :
    Legacy[s].last > 0 /\ Legacy[s].records = {} => sessions[s].truncated

----------------------------------------------------------------------------
(* What the repository says and the code does not keep *)

(* MAX_STORE_BYTES is a ceiling of the whole store.                        *)
StoreWithinCeiling == Up => storeBytes <= MaxStoreBytes

(* A truncated transcript is a prefix (a stop is permanent): with no event *)
(* dropped, what it holds is the first events it was offered.              *)
TruncatedIsPrefix ==
  Up => \A s \in DOMAIN sessions \ DOMAIN Legacy :
    sessions[s].truncated /\ sessions[s].dropped = 0
      => {e.nr : e \in Log(s)} = 1..Cardinality(Log(s))

(* A transcript that misses events never reports itself complete.          *)
LossIsVisible ==
  Up => \A s \in DOMAIN sessions :
    Lost(s) > 0 => sessions[s].truncated \/ sessions[s].dropped > 0 \/ drifted[s] > 0

(* After a boot every row agrees with its own events.                      *)
BootAgreesWithLog ==
  phase = "booted" => \A s \in DOMAIN sessions : sessions[s].midTurn = EndsMidTurn(s)

(* At the cap a create finds something to evict, unless every session has  *)
(* a seat that writes to it.                                               *)
RoomCanBeMade ==
  /\ Running /\ opening = NoSid
  /\ Cardinality(DOMAIN sessions) >= MaxSessions
  /\ DOMAIN sessions \ seats # {}
  => DOMAIN sessions \ Pinned # {}
=============================================================================
