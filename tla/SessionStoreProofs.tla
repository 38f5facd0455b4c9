------------------------- MODULE SessionStoreProofs -------------------------
(***************************************************************************)
(* Theorems about SessionStore, for any sessions, sizes, caps and old      *)
(* stores.  Its inductive invariants, each resting on the ones before it:  *)
(*   GoneInv     a session is removed only once the import is over;        *)
(*   CursorInv   every row says where its own log is;                      *)
(*   BudgetInv   every total is the sum of what it is the total of;        *)
(*   CeilingInv  what the tables hold is under the ceiling;                *)
(*   LossInv     a row that is not marked counts what it lost;             *)
(*   StampInv    every row is dated on the clock;                          *)
(*   PinInv      a pin is a session, once, and pins are within the cap;    *)
(*   SeatInv     what a seat writes to is pinned;                          *)
(*   TypedWorld  the types, whose sums need BudgetInv.                     *)
(* The sums are unfolded by induction over finite sets (FiniteInduction),  *)
(* taken from the well-founded order of their subsets.                     *)
(***************************************************************************)
EXTENDS SessionStore, FiniteSetTheorems, TLAPS

----------------------------------------------------------------------------
(* The import, and what is gone *)

ServesOnlyAfterImport ==
  ~imported /\ DOMAIN Legacy # {} => phase \in {"down", "importing"}

NothingGoneBeforeImport ==
  ~imported => DOMAIN Legacy \cap used \subseteq DOMAIN sessions

GoneInv ==
  /\ DOMAIN sessions \subseteq used
  /\ phase \in {"down", "importing", "booted", "ready"}
  /\ ServesOnlyAfterImport
  /\ NothingGoneBeforeImport

(* A step adds the session it creates or imports, and nothing else.        *)
LEMMA AddDomain ==
  ASSUME NEW f, NEW s, NEW v
  PROVE  DOMAIN With(f, s, v) = {s} \cup DOMAIN f
  BY DEF With

LEMMA WithoutDomain ==
  ASSUME NEW f, NEW gone
  PROVE  DOMAIN Without(f, gone) = DOMAIN f \ gone
  BY DEF Without

(* A create adds its own row at most.                                      *)
LEMMA CreateRows ==
  ASSUME NEW s \in Sids, Create(s)
  PROVE  DOMAIN sessions' \subseteq {s} \cup DOMAIN sessions
<1>1. PICK E \in Pruned : \/ sessions' = With(Without(sessions, E), s, NewRow)
                          \/ sessions' = Without(sessions, E)
  BY DEF Create
<1>2. DOMAIN Without(sessions, E) = DOMAIN sessions \ E
  BY WithoutDomain
<1>3. DOMAIN With(Without(sessions, E), s, NewRow) = {s} \cup (DOMAIN sessions \ E)
  BY <1>2, AddDomain
<1> QED
  BY <1>1, <1>2, <1>3

(* Offers, titles and marks change rows, not which rows there are.         *)
LEMMA OfferKeepsRows ==
  ASSUME NEW s \in Sids, NEW turn, NEW n, Offer(s, turn, n)
  PROVE  DOMAIN sessions' = DOMAIN sessions
  BY DEF Offer, NoteDropped, StopWriter, SetTruncated, Record

(* Whatever happens, at most one row is added, and while the server runs   *)
(* it is a create that adds it.                                            *)
LEMMA RowsGrowByOne ==
  ASSUME [Next]_vars
  PROVE  \/ DOMAIN sessions' \subseteq DOMAIN sessions
         \/ \E s \in Sids : DOMAIN sessions' \subseteq {s} \cup DOMAIN sessions
                          /\ (Create(s) \/ ~Running)
<1>1. ASSUME NEW s \in Sids, ImportSession(s)
      PROVE  DOMAIN sessions' \subseteq {s} \cup DOMAIN sessions /\ ~Running
  BY <1>1, AddDomain DEF ImportSession, Running
<1>2. ASSUME NEW s \in Sids, NEW turn, NEW n, Offer(s, turn, n)
      PROVE  DOMAIN sessions' \subseteq DOMAIN sessions
  BY <1>2, OfferKeepsRows
<1>3. ASSUME NEW s \in Sids, RemoveSession(s)
      PROVE  DOMAIN sessions' \subseteq DOMAIN sessions
  BY <1>3, WithoutDomain DEF RemoveSession
<1>4. ASSUME NEW s \in Sids, NEW stamp, SetTitle(s, stamp)
      PROVE  DOMAIN sessions' \subseteq DOMAIN sessions
  BY <1>4 DEF SetTitle
<1>5. CASE FinishOpen
  BY <1>5 DEF FinishOpen
<1>6. ASSUME NEW s \in Sids, Create(s)
      PROVE  DOMAIN sessions' \subseteq {s} \cup DOMAIN sessions
  BY <1>6, CreateRows
<1>7. CASE UNCHANGED sessions
  BY <1>7
<1>8. CASE UNCHANGED vars
  BY <1>8 DEF vars, tables
<1> QED
  BY <1>1, <1>2, <1>3, <1>4, <1>5, <1>6, <1>7, <1>8
     DEF Next, Boot, Open, MarkImported, Listen, Stop, NextDay, Continue, SeatEnds,
         OfferUnknown, SpoolAttachment, DiscardAttachment, tables

LEMMA GoneInvariant == Spec => []GoneInv
<1>1. Init => GoneInv
  BY DEF Init, GoneInv, Nothing, ServesOnlyAfterImport, NothingGoneBeforeImport
<1>2. GoneInv /\ [Next]_vars => GoneInv'
  <2> SUFFICES ASSUME GoneInv, [Next]_vars PROVE GoneInv'
    OBVIOUS
  <2> USE DEF GoneInv, ServesOnlyAfterImport, NothingGoneBeforeImport,
              tables, memory, world
  <2>1. CASE Open
    BY <2>1 DEF Open
  <2>2. CASE MarkImported
    BY <2>2 DEF MarkImported
  <2>3. CASE FinishOpen
    BY <2>3 DEF FinishOpen, ImportDue
  <2>4. CASE Listen
    BY <2>4 DEF Listen
  <2>5. ASSUME NEW s \in Sids, ImportSession(s) PROVE GoneInv'
    <3>1. /\ phase = "importing" /\ phase' = phase /\ imported' = imported
          /\ \/ DOMAIN sessions' = DOMAIN sessions /\ used' = used
             \/ DOMAIN sessions' = {s} \cup DOMAIN sessions /\ used' = used \cup {s}
      BY <2>5, AddDomain DEF ImportSession
    <3> QED
      BY <3>1
  <2>6. CASE Stop
    BY <2>6 DEF Stop
  <2>7. CASE NextDay
    BY <2>7 DEF NextDay
  <2>8. ASSUME NEW s \in Sids, Create(s) PROVE GoneInv'
    <3>1. PICK E \in Pruned :
            \/ DOMAIN sessions' = {s} \cup (DOMAIN sessions \ E) /\ used' = used \cup {s}
            \/ DOMAIN sessions' = DOMAIN sessions \ E /\ used' = used
      <4>1. PICK E \in Pruned :
              \/ /\ sessions' = With(Without(sessions, E), s, NewRow)
                 /\ used' = used \cup {s}
              \/ sessions' = Without(sessions, E) /\ used' = used
        BY <2>8 DEF Create
      <4>2. DOMAIN Without(sessions, E) = DOMAIN sessions \ E
        BY WithoutDomain
      <4>3. DOMAIN With(Without(sessions, E), s, NewRow) = {s} \cup (DOMAIN sessions \ E)
        BY <4>2, AddDomain
      <4> QED
        BY <4>1, <4>2, <4>3
    <3> QED
      BY <2>8, <3>1 DEF Create, Running
  <2>9. ASSUME NEW s \in Sids, Continue(s) PROVE GoneInv'
    BY <2>9 DEF Continue
  <2>10. ASSUME NEW s \in Sids, SeatEnds(s) PROVE GoneInv'
    BY <2>10 DEF SeatEnds
  <2>11. ASSUME NEW s \in Sids, OfferUnknown(s) PROVE GoneInv'
    BY <2>11 DEF OfferUnknown
  <2>12. ASSUME NEW s \in Sids, RemoveSession(s) PROVE GoneInv'
    BY <2>12, WithoutDomain DEF RemoveSession, Running
  <2>13. ASSUME NEW s \in Sids, NEW turn \in BOOLEAN, NEW n \in EventBytes,
                Offer(s, turn, n)
         PROVE  GoneInv'
    BY <2>13, OfferKeepsRows DEF Offer
  <2>14. ASSUME NEW s \in Sids, NEW stamp \in 0..MaxDay, SetTitle(s, stamp)
         PROVE  GoneInv'
    BY <2>14 DEF SetTitle
  <2>15. ASSUME NEW s \in Sids, NEW f \in Files, NEW n \in FileBytes,
                SpoolAttachment(s, f, n)
         PROVE  GoneInv'
    BY <2>15 DEF SpoolAttachment
  <2>16. ASSUME NEW a \in attachments, DiscardAttachment(a) PROVE GoneInv'
    BY <2>16 DEF DiscardAttachment
  <2>17. CASE UNCHANGED vars
    BY <2>17 DEF vars
  <2> QED
    BY <2>1, <2>2, <2>3, <2>4, <2>5, <2>6, <2>7, <2>8, <2>9, <2>10, <2>11,
       <2>12, <2>13, <2>14, <2>15, <2>16, <2>17 DEF Next, Boot
<1> QED
  BY <1>1, <1>2, PTL DEF Spec

(* A deleted session stays deleted: no import and no seat brings it back.  *)
THEOREM DeletedStaysDeleted == Spec => NeverResurrected
<1>1. GoneInv /\ [Next]_vars => GoneStaysGone
  <2> SUFFICES ASSUME GoneInv, [Next]_vars PROVE GoneStaysGone
    OBVIOUS
  <2>1. ASSUME NEW s \in Sids, ImportSession(s) PROVE GoneStaysGone
    <3>1. /\ ~imported /\ s \in DOMAIN Legacy
          /\ \/ DOMAIN sessions' = DOMAIN sessions
             \/ DOMAIN sessions' = {s} \cup DOMAIN sessions /\ s \notin DOMAIN sessions
      BY <2>1, AddDomain DEF ImportSession, ImportDue
    <3> QED
      BY <3>1 DEF GoneStaysGone, GoneInv, NothingGoneBeforeImport
  <2>2. ASSUME NEW s \in Sids, Create(s) PROVE GoneStaysGone
    <3>1. s \notin used
      BY <2>2 DEF Create
    <3>2. DOMAIN sessions' \subseteq {s} \cup DOMAIN sessions
      BY <2>2, CreateRows
    <3> QED
      BY <3>1, <3>2 DEF GoneStaysGone
  <2>3. DOMAIN sessions' \subseteq DOMAIN sessions => GoneStaysGone
    BY DEF GoneStaysGone
  <2>4. ASSUME NEW s \in Sids, NEW turn, NEW n, Offer(s, turn, n) PROVE GoneStaysGone
    BY <2>4, <2>3, OfferKeepsRows
  <2>5. ASSUME NEW s \in Sids, RemoveSession(s) PROVE GoneStaysGone
    BY <2>5, <2>3, WithoutDomain DEF RemoveSession
  <2>6. CASE FinishOpen
    BY <2>6, <2>3 DEF FinishOpen
  <2>7. ASSUME NEW s \in Sids, NEW stamp, SetTitle(s, stamp) PROVE GoneStaysGone
    BY <2>7, <2>3 DEF SetTitle
  <2>8. CASE UNCHANGED sessions
    BY <2>8, <2>3
  <2>9. CASE UNCHANGED vars
    BY <2>9, <2>8 DEF vars, tables
  <2> QED
    BY <2>1, <2>2, <2>4, <2>5, <2>6, <2>7, <2>8, <2>9
       DEF Next, Boot, Open, MarkImported, Listen, Stop, NextDay, Continue, SeatEnds,
           OfferUnknown, SpoolAttachment, DiscardAttachment, tables
<1> QED
  BY <1>1, GoneInvariant, PTL DEF Spec, NeverResurrected

----------------------------------------------------------------------------
(* The import is complete, unless a write fails *)

ImportInv ==
  /\ phase = "importing" => walked \subseteq used
  /\ imported => DOMAIN Legacy \subseteq used

(* With a disk that takes every write, the marker means what it says.      *)
THEOREM MarkerMeansComplete ==
  ASSUME DiskFails = FALSE
  PROVE  Spec => []ImportIsComplete
<1>1. Init => ImportInv
  BY DEF Init, ImportInv
<1>2. GoneInv /\ ImportInv /\ [Next]_vars => ImportInv'
  <2> SUFFICES ASSUME GoneInv, ImportInv, [Next]_vars PROVE ImportInv'
    OBVIOUS
  <2> USE DEF ImportInv, tables, memory, world
  <2>1. CASE Open
    BY <2>1 DEF Open
  <2>2. CASE MarkImported
    BY <2>2 DEF MarkImported
  <2>3. CASE FinishOpen
    BY <2>3 DEF FinishOpen
  <2>4. ASSUME NEW s \in Sids, ImportSession(s) PROVE ImportInv'
    <3>1. s \in used'
      BY <2>4 DEF ImportSession, GoneInv
    <3> QED
      BY <2>4, <3>1 DEF ImportSession
  <2>5. ASSUME NEW s \in Sids, Create(s) PROVE ImportInv'
    BY <2>5 DEF Create
  <2>6. UNCHANGED <<phase, walked, imported, used>> => ImportInv'
    OBVIOUS
  <2>7. CASE Listen \/ Stop
    BY <2>7 DEF Listen, Stop
  <2>8. CASE UNCHANGED vars
    BY <2>8, <2>6 DEF vars
  <2>9. ASSUME NEW s \in Sids,
               Continue(s) \/ SeatEnds(s) \/ OfferUnknown(s) \/ RemoveSession(s)
        PROVE  ImportInv'
    BY <2>9, <2>6 DEF Continue, SeatEnds, OfferUnknown, RemoveSession
  <2>10. ASSUME NEW s \in Sids, NEW turn, NEW n, Offer(s, turn, n) PROVE ImportInv'
    BY <2>10, <2>6 DEF Offer
  <2>11. ASSUME NEW s \in Sids, NEW stamp, SetTitle(s, stamp) PROVE ImportInv'
    BY <2>11, <2>6 DEF SetTitle
  <2>12. ASSUME NEW s, NEW f, NEW n, SpoolAttachment(s, f, n) PROVE ImportInv'
    BY <2>12, <2>6 DEF SpoolAttachment
  <2>13. ASSUME NEW a, DiscardAttachment(a) PROVE ImportInv'
    BY <2>13, <2>6 DEF DiscardAttachment
  <2>14. CASE NextDay
    BY <2>14, <2>6 DEF NextDay
  <2> QED
    BY <2>1, <2>2, <2>3, <2>4, <2>5, <2>7, <2>8, <2>9, <2>10, <2>11, <2>12,
       <2>13, <2>14 DEF Next, Boot
<1>3. ImportInv => ImportIsComplete
  BY DEF ImportInv, ImportIsComplete
<1> QED
  BY <1>1, <1>2, <1>3, GoneInvariant, PTL DEF Spec

----------------------------------------------------------------------------
(* The cap on sessions *)

FinitelyMany == IsFiniteSet(DOMAIN sessions)

(* A create leaves no more sessions than the cap.                          *)
THEOREM CreatesStayWithinCap == Spec => CreateWithinCap
<1>1. Init => FinitelyMany
  BY FS_EmptySet DEF Init, FinitelyMany, Nothing
<1>2. FinitelyMany /\ [Next]_vars => FinitelyMany'
  <2> SUFFICES ASSUME FinitelyMany, [Next]_vars PROVE FinitelyMany'
    OBVIOUS
  <2>1. CASE DOMAIN sessions' \subseteq DOMAIN sessions
    BY <2>1, FS_Subset DEF FinitelyMany
  <2>2. ASSUME NEW s \in Sids, DOMAIN sessions' \subseteq {s} \cup DOMAIN sessions
        PROVE  FinitelyMany'
    <3>1. IsFiniteSet(DOMAIN sessions \cup {s})
      BY FS_AddElement DEF FinitelyMany
    <3>2. DOMAIN sessions' \subseteq DOMAIN sessions \cup {s}
      BY <2>2
    <3> QED
      BY <3>1, <3>2, FS_Subset DEF FinitelyMany
  <2> QED
    BY <2>1, <2>2, RowsGrowByOne
<1>3. FinitelyMany /\ [Next]_vars => CapKept
  <2> SUFFICES ASSUME FinitelyMany, [Next]_vars, Running,
                      DOMAIN sessions' \ DOMAIN sessions # {}
               PROVE  Cardinality(DOMAIN sessions') <= MaxSessions
    BY DEF CapKept
  <2>1. PICK s \in Sids : Create(s)
    BY RowsGrowByOne
  <2>2. PICK E \in Pruned :
          /\ IF HasRoom(Cardinality(DOMAIN sessions \ E))
               THEN sessions' = With(Without(sessions, E), s, NewRow)
               ELSE sessions' = Without(sessions, E)
    BY <2>1 DEF Create
  <2>3. DOMAIN Without(sessions, E) = DOMAIN sessions \ E
    BY WithoutDomain
  <2>4. HasRoom(Cardinality(DOMAIN sessions \ E))
    BY <2>2, <2>3
  <2>5. DOMAIN sessions' = (DOMAIN sessions \ E) \cup {s}
    <3>1. DOMAIN With(Without(sessions, E), s, NewRow) = {s} \cup (DOMAIN sessions \ E)
      BY <2>3, AddDomain
    <3> QED
      BY <2>2, <2>4, <3>1
  <2>6. /\ IsFiniteSet(DOMAIN sessions \ E)
        /\ Cardinality(DOMAIN sessions \ E) \in Nat
    BY FS_Subset, FS_CardinalityType DEF FinitelyMany
  <2>7. \/ Cardinality(DOMAIN sessions') = Cardinality(DOMAIN sessions \ E)
        \/ Cardinality(DOMAIN sessions') = Cardinality(DOMAIN sessions \ E) + 1
    BY <2>5, <2>6, FS_AddElement
  <2> QED
    BY <2>4, <2>6, <2>7, CapsAreNatural DEF HasRoom
<1> QED
  BY <1>1, <1>2, <1>3, PTL DEF Spec, CreateWithinCap
----------------------------------------------------------------------------
(* Rows and logs *)

HasEnds(s) ==
  Seqs(s) # {} => \E f, l \in Seqs(s) : \A x \in Seqs(s) : f <= x /\ x <= l

(* first and last are the ends of the log.                                 *)
Agrees(s) ==
  /\ Seqs(s) = {} => sessions[s].first = 0 /\ sessions[s].last = 0
  /\ Seqs(s) # {} => /\ sessions[s].first \in Seqs(s) /\ sessions[s].last \in Seqs(s)
                     /\ \A x \in Seqs(s) : sessions[s].first <= x /\ x <= sessions[s].last

HasCursor(row) ==
  /\ {"first", "last", "bytes", "truncated", "midTurn", "dropped", "stamp"} \subseteq DOMAIN row
  /\ row.first \in Nat /\ row.last \in Nat

RowInv(s) ==
  /\ HasCursor(sessions[s])
  /\ Seqs(s) \subseteq Nat \ {0}
  /\ HasEnds(s)
  /\ s \notin DOMAIN Legacy => Agrees(s) /\ Seqs(s) = 1..sessions[s].last
  /\ Up /\ ~DiskFails => Agrees(s)

CursorInv ==
  /\ sessions = [s \in DOMAIN sessions |-> sessions[s]]
  /\ \A e \in events : e.sid \in DOMAIN sessions
  /\ \A s \in DOMAIN sessions : RowInv(s)

(* A row whose cursor and log stay, under a store that does not come up,   *)
(* stays true.                                                             *)
LEMMA RowKept ==
  ASSUME NEW s, RowInv(s), HasCursor(sessions'[s]),
         sessions'[s].first = sessions[s].first, sessions'[s].last = sessions[s].last,
         Seqs(s)' = Seqs(s), Up' => Up
  PROVE  RowInv(s)'
  BY DEF RowInv, HasEnds, Agrees, HasCursor

(* A step that keeps every row and every event keeps the invariant.        *)
LEMMA TablesKept ==
  ASSUME CursorInv, UNCHANGED <<sessions, events>>, Up' => Up
  PROVE  CursorInv'
<1>1. ASSUME NEW s \in DOMAIN sessions PROVE RowInv(s)'
  <2>1. Seqs(s)' = Seqs(s)
    BY DEF Seqs, Log
  <2>2. HasCursor(sessions'[s])
    BY DEF CursorInv, RowInv
  <2> QED
    BY <2>1, <2>2, RowKept DEF CursorInv
<1> QED
  BY <1>1 DEF CursorInv

(* So does one that marks a row: its title's time, its truncation, its     *)
(* drops.                                                                  *)
LEMMA RowMarked ==
  ASSUME CursorInv, UNCHANGED events, Up' => Up, NEW s, NEW row,
         sessions' = [sessions EXCEPT ![s] = row],
         s \in DOMAIN sessions => /\ HasCursor(row)
                                  /\ row.first = sessions[s].first
                                  /\ row.last = sessions[s].last
  PROVE  CursorInv'
<1>1. /\ DOMAIN sessions' = DOMAIN sessions
      /\ sessions' = [r \in DOMAIN sessions' |-> sessions'[r]]
  BY DEF CursorInv
<1>2. ASSUME NEW r \in DOMAIN sessions PROVE RowInv(r)'
  <2>1. Seqs(r)' = Seqs(r)
    BY DEF Seqs, Log
  <2>2. /\ HasCursor(sessions'[r])
        /\ sessions'[r].first = sessions[r].first
        /\ sessions'[r].last = sessions[r].last
    BY DEF CursorInv, RowInv
  <2> QED
    BY <2>1, <2>2, RowKept DEF CursorInv
<1> QED
  BY <1>1, <1>2 DEF CursorInv
(* Deleting rows with what cascades from them.                             *)
LEMMA RowsDeleted ==
  ASSUME CursorInv, NEW gone, Cascade(gone), sessions' = Without(sessions, gone), Up' => Up
  PROVE  CursorInv'
<1>1. /\ DOMAIN sessions' = DOMAIN sessions \ gone
      /\ \A r \in DOMAIN sessions' : sessions'[r] = sessions[r]
      /\ sessions' = [r \in DOMAIN sessions' |-> sessions'[r]]
  BY DEF Without
<1>2. ASSUME NEW r \in DOMAIN sessions' PROVE RowInv(r)'
  <2>1. Log(r)' = Log(r)
    BY <1>1 DEF Log, Cascade
  <2>2. Seqs(r)' = Seqs(r)
    BY <2>1 DEF Seqs
  <2> QED
    BY <1>1, <2>2, RowKept DEF CursorInv, RowInv
<1>3. \A e \in events' : e.sid \in DOMAIN sessions'
  BY <1>1 DEF Cascade, CursorInv
<1> QED
  BY <1>1, <1>2, <1>3 DEF CursorInv

(* A new row begins with an empty log, and other rows do not notice.       *)
LEMMA RowCreated ==
  ASSUME CursorInv, NEW s, s \notin DOMAIN sessions, NEW gone, Cascade(gone),
         sessions' = With(Without(sessions, gone), s, NewRow), Up' => Up
  PROVE  CursorInv'
<1>1. DOMAIN Without(sessions, gone) = DOMAIN sessions \ gone
  BY WithoutDomain
<1>2. /\ DOMAIN sessions' = (DOMAIN sessions \ gone) \cup {s}
      /\ sessions' = [r \in DOMAIN sessions' |-> sessions'[r]]
      /\ sessions'[s] = NewRow
      /\ \A r \in DOMAIN sessions \ gone : sessions'[r] = sessions[r]
  BY <1>1 DEF With, Without
<1>3. Seqs(s)' = {}
  BY DEF Seqs, Log, Cascade, CursorInv
<1>4. RowInv(s)'
  <2>1. HasCursor(NewRow) /\ NewRow.first = 0 /\ NewRow.last = 0
    BY DEF HasCursor, NewRow
  <2>2. 1..0 = {}
    OBVIOUS
  <2>3. /\ HasCursor(sessions'[s])
        /\ sessions'[s].first = 0 /\ sessions'[s].last = 0
    BY <1>2, <2>1
  <2>4. HasEnds(s)' /\ Agrees(s)'
    BY <1>3, <2>3 DEF HasEnds, Agrees
  <2> QED
    BY <1>3, <2>2, <2>3, <2>4 DEF RowInv
<1>5. ASSUME NEW r \in DOMAIN sessions \ gone PROVE RowInv(r)'
  <2>1. Log(r)' = Log(r)
    BY <1>2 DEF Log, Cascade
  <2>2. Seqs(r)' = Seqs(r)
    BY <2>1 DEF Seqs
  <2> QED
    BY <1>2, <2>2, RowKept DEF CursorInv, RowInv
<1>6. \A e \in events' : e.sid \in DOMAIN sessions'
  BY <1>2 DEF Cascade, CursorInv
<1> QED
  BY <1>2, <1>4, <1>5, <1>6 DEF CursorInv

(* An imported directory is not vouched for until it is reconciled.        *)
LEMMA RowImported ==
  ASSUME CursorInv, NEW s \in Sids, s \notin DOMAIN sessions, ImportSession(s),
         s \in DOMAIN Legacy, ~Up'
  PROVE  sessions' = With(sessions, s, ImportedRow(s)) => CursorInv'
<1> SUFFICES ASSUME sessions' = With(sessions, s, ImportedRow(s)) PROVE CursorInv'
  OBVIOUS
<1>1. /\ DOMAIN sessions' = DOMAIN sessions \cup {s}
      /\ sessions' = [r \in DOMAIN sessions' |-> sessions'[r]]
      /\ sessions'[s] = ImportedRow(s)
      /\ \A r \in DOMAIN sessions : sessions'[r] = sessions[r]
  BY DEF With
<1>2. \/ events' = events \cup ImportedLog(s)
      \/ UNCHANGED sessions
  BY DEF ImportSession
<1>3. events' = events \cup ImportedLog(s)
  BY <1>1, <1>2
<1>4. Log(s)' = ImportedLog(s)
  BY <1>3 DEF Log, ImportedLog, CursorInv
<1>5. Seqs(s)' = {r.seq : r \in Legacy[s].records}
  <2>1. ASSUME NEW r \in Legacy[s].records
        PROVE  \E e \in ImportedLog(s) : e.seq = r.seq
    <3> DEFINE e == [sid |-> s, seq |-> r.seq, nr |-> 0, turn |-> r.turn, bytes |-> r.bytes]
    <3>1. e \in ImportedLog(s)
      BY DEF ImportedLog
    <3>2. e.seq = r.seq
      OBVIOUS
    <3> QED
      BY <3>1, <3>2
  <2>2. ASSUME NEW e \in ImportedLog(s)
        PROVE  \E r \in Legacy[s].records : e.seq = r.seq
    BY DEF ImportedLog
  <2> QED
    BY <1>4, <2>1, <2>2 DEF Seqs
<1>6. RowInv(s)'
  <2>1. HasCursor(ImportedRow(s))
    BY LegacyIsStored DEF HasCursor, ImportedRow
  <2>2. HasEnds(s)'
    <3> SUFFICES ASSUME Legacy[s].records # {}
                 PROVE  \E f, l \in Seqs(s)' : \A x \in Seqs(s)' : f <= x /\ x <= l
      BY <1>5 DEF HasEnds
    <3>1. PICK f \in Legacy[s].records, l \in Legacy[s].records :
             \A r \in Legacy[s].records : f.seq <= r.seq /\ r.seq <= l.seq
      BY LegacyIsStored
    <3>2. f.seq \in Seqs(s)' /\ l.seq \in Seqs(s)'
      BY <1>5
    <3>3. \A x \in Seqs(s)' : f.seq <= x /\ x <= l.seq
      BY <1>5, <3>1
    <3> QED
      BY <3>2, <3>3
  <2>3. Seqs(s)' \subseteq Nat \ {0}
    BY <1>5, LegacyIsStored
  <2> QED
    BY <1>1, <2>1, <2>2, <2>3 DEF RowInv
<1>7. ASSUME NEW r \in DOMAIN sessions PROVE RowInv(r)'
  <2>1. Log(r)' = Log(r)
    BY <1>3 DEF Log, ImportedLog
  <2>2. Seqs(r)' = Seqs(r)
    BY <2>1 DEF Seqs
  <2> QED
    BY <1>1, <2>2, RowKept DEF CursorInv, RowInv
<1>8. \A e \in events' : e.sid \in DOMAIN sessions'
  BY <1>1, <1>3 DEF ImportedLog, CursorInv
<1> QED
  BY <1>1, <1>6, <1>7, <1>8 DEF CursorInv
(* An event that is recorded takes the next number, and the row follows.   *)
LEMMA RowRecorded ==
  ASSUME CursorInv, NEW s \in DOMAIN sessions, NEW turn, NEW n, Record(s, turn, n), Up' => Up
  PROVE  CursorInv'
<1> DEFINE next == sessions[s].last + 1
<1>1. /\ HasCursor(sessions[s]) /\ RowInv(s)
      /\ DOMAIN sessions' = DOMAIN sessions
      /\ sessions' = [r \in DOMAIN sessions' |-> sessions'[r]]
      /\ \A r \in DOMAIN sessions \ {s} : sessions'[r] = sessions[r]
  BY DEF CursorInv, RowInv, Record
<1>2. /\ HasCursor(sessions'[s])
      /\ sessions'[s].last = next
      /\ sessions'[s].first = IF sessions[s].first = 0 THEN next ELSE sessions[s].first
  BY <1>1 DEF Record, NextSeq, HasCursor, CursorInv
<1>3. \E e : e.sid = s /\ e.seq = next /\ events' = events \cup {e}
  <2> DEFINE new == [sid |-> s, seq |-> NextSeq(s), nr |-> offered[s] + 1,
                     turn |-> turn, bytes |-> n]
  <2>1. events' = events \cup {new}
    BY DEF Record
  <2>2. new.sid = s /\ new.seq = next
    BY DEF NextSeq
  <2> QED
    BY <2>1, <2>2
<1>4. Seqs(s)' = Seqs(s) \cup {next}
  BY <1>3 DEF Seqs, Log
<1>5. RowInv(s)'
  <2>1. next \in Nat \ {0} /\ Seqs(s)' \subseteq Nat \ {0}
    BY <1>1, <1>4 DEF RowInv, HasCursor
  <2>2. HasEnds(s)'
    <3>1. CASE Seqs(s) = {}
      BY <1>4, <2>1, <3>1 DEF HasEnds
    <3>2. CASE Seqs(s) # {}
      <4>1. PICK f \in Seqs(s), l \in Seqs(s) : \A x \in Seqs(s) : f <= x /\ x <= l
        BY <1>1, <3>2 DEF RowInv, HasEnds
      <4> DEFINE f2 == IF next <= f THEN next ELSE f
                 l2 == IF next <= l THEN l ELSE next
      <4>2. f \in Nat /\ l \in Nat /\ Seqs(s) \subseteq Nat
        BY <1>1 DEF RowInv
      <4>3. f2 \in Seqs(s)' /\ l2 \in Seqs(s)'
        BY <1>4
      <4>4. \A x \in Seqs(s)' : f2 <= x /\ x <= l2
        BY <1>4, <2>1, <4>1, <4>2
      <4> QED
        BY <4>3, <4>4 DEF HasEnds
    <3> QED
      BY <3>1, <3>2
  <2>3. Agrees(s) => Agrees(s)'
    <3> SUFFICES ASSUME Agrees(s) PROVE Agrees(s)'
      OBVIOUS
    <3>1. CASE Seqs(s) = {}
      BY <1>2, <1>4, <2>1, <3>1 DEF Agrees
    <3>2. CASE Seqs(s) # {}
      <4>1. /\ sessions[s].first # 0 /\ sessions[s].first \in Nat
            /\ sessions[s].last \in Nat /\ Seqs(s) \subseteq Nat
        BY <1>1, <3>2 DEF Agrees, RowInv, HasCursor
      <4> QED
        BY <1>2, <1>4, <2>1, <3>2, <4>1 DEF Agrees
    <3> QED
      BY <3>1, <3>2
  <2>4. Seqs(s) = 1..sessions[s].last => Seqs(s)' = 1..sessions'[s].last
    BY <1>1, <1>2, <1>4 DEF HasCursor
  <2> QED
    BY <1>1, <1>2, <2>1, <2>2, <2>3, <2>4 DEF RowInv
<1>6. ASSUME NEW r \in DOMAIN sessions \ {s} PROVE RowInv(r)'
  <2>1. Log(r)' = Log(r)
    BY <1>3 DEF Log
  <2>2. Seqs(r)' = Seqs(r)
    BY <2>1 DEF Seqs
  <2> QED
    BY <1>1, <2>2, RowKept DEF CursorInv, RowInv
<1>7. \A e \in events' : e.sid \in DOMAIN sessions'
  BY <1>1, <1>3 DEF CursorInv
<1> QED
  BY <1>1, <1>5, <1>6, <1>7 DEF CursorInv

LEMMA EndsAreMinMax ==
  ASSUME NEW S, S \subseteq Nat, NEW f \in S, NEW l \in S, \A x \in S : f <= x /\ x <= l
  PROVE  Min(S) = f /\ Max(S) = l
<1>1. Min(S) \in S /\ \A y \in S : Min(S) <= y
  BY DEF Min
<1>2. Max(S) \in S /\ \A y \in S : Max(S) >= y
  BY DEF Max
<1>3. {f, l, Min(S), Max(S)} \subseteq Nat
  BY <1>1, <1>2
<1>4. Min(S) <= f /\ f <= Min(S) /\ Max(S) >= l /\ Max(S) <= l
  BY <1>1, <1>2
<1> QED
  BY <1>3, <1>4

(* What reconcileOne leaves on a row are the ends of its log.              *)
LEMMA RowRepaired ==
  ASSUME NEW s, RowInv(s)
  PROVE  /\ HasCursor(Reconciled(s))
         /\ Seqs(s) = {} => Reconciled(s).first = 0 /\ Reconciled(s).last = 0
         /\ Seqs(s) # {} => /\ Reconciled(s).first = Min(Seqs(s))
                            /\ Reconciled(s).last = Max(Seqs(s))
<1> DEFINE written ==
      [sessions[s] EXCEPT !.first = Min(Seqs(s)), !.last = Max(Seqs(s)),
                          !.bytes = Bytes(Log(s)),
                          !.truncated = sessions[s].truncated \/ EndsMidTurn(s),
                          !.midTurn = EndsMidTurn(s)]
<1>1. HasCursor(sessions[s]) /\ (Log(s) = {} <=> Seqs(s) = {})
  BY DEF RowInv, Seqs
<1>2. CASE Log(s) = {}
  <2>1. Reconciled(s) = IF sessions[s].first > 0 \/ sessions[s].last > 0
                          THEN Emptied(s) ELSE sessions[s]
    BY <1>2 DEF Reconciled
  <2>2. HasCursor(Emptied(s)) /\ Emptied(s).first = 0 /\ Emptied(s).last = 0
    BY <1>1 DEF Emptied, HasCursor
  <2> QED
    BY <1>1, <1>2, <2>1, <2>2 DEF HasCursor
<1>3. CASE Log(s) # {}
  <2>1. Min(Seqs(s)) \in Nat /\ Max(Seqs(s)) \in Nat
    BY <1>1, <1>3, EndsAreMinMax DEF RowInv, HasEnds
  <2>2. \/ Reconciled(s) = written
        \/ /\ Reconciled(s) = sessions[s]
           /\ sessions[s].first = Min(Seqs(s)) /\ sessions[s].last = Max(Seqs(s))
    BY <1>3 DEF Reconciled
  <2>3. /\ HasCursor(written)
        /\ written.first = Min(Seqs(s)) /\ written.last = Max(Seqs(s))
    BY <1>1, <2>1 DEF HasCursor
  <2> QED
    BY <1>1, <1>3, <2>2, <2>3
<1> QED
  BY <1>2, <1>3
(* The whole of reconcile: rows are rewritten, events are not.             *)
LEMMA RowsReconciled ==
  ASSUME CursorInv, FinishOpen
  PROVE  CursorInv'
<1>1. PICK unwritten \in SUBSET DOMAIN sessions :
        /\ unwritten # {} => DiskFails
        /\ sessions' = [s \in DOMAIN sessions |->
                          IF s \in unwritten THEN sessions[s] ELSE Reconciled(s)]
  BY DEF FinishOpen
<1>2. /\ DOMAIN sessions' = DOMAIN sessions
      /\ sessions' = [s \in DOMAIN sessions' |-> sessions'[s]]
      /\ events' = events
  BY <1>1 DEF FinishOpen
<1>3. ASSUME NEW s \in DOMAIN sessions PROVE RowInv(s)'
  <2>1. RowInv(s) /\ Seqs(s)' = Seqs(s)
    BY <1>2 DEF CursorInv, Seqs, Log
  <2>2. CASE s \in unwritten
    BY <1>1, <2>1, <2>2 DEF RowInv, HasEnds, Agrees
  <2>3. CASE s \notin unwritten
    <3>1. sessions'[s] = Reconciled(s)
      BY <1>1, <2>3
    <3>2. Agrees(s)'
      <4>1. CASE Seqs(s) = {}
        BY <2>1, <3>1, <4>1, RowRepaired DEF Agrees
      <4>2. CASE Seqs(s) # {}
        <5>1. PICK f \in Seqs(s), l \in Seqs(s) : \A x \in Seqs(s) : f <= x /\ x <= l
          BY <2>1, <4>2 DEF RowInv, HasEnds
        <5>2. f = Min(Seqs(s)) /\ l = Max(Seqs(s))
          BY <2>1, <5>1, EndsAreMinMax DEF RowInv
        <5> QED
          BY <2>1, <3>1, <4>2, <5>1, <5>2, RowRepaired DEF Agrees
      <4> QED
        BY <4>1, <4>2
    <3>3. s \notin DOMAIN Legacy => sessions'[s].last = sessions[s].last
      <4> SUFFICES ASSUME s \notin DOMAIN Legacy PROVE sessions'[s].last = sessions[s].last
        OBVIOUS
      <4>1. /\ Agrees(s) /\ Seqs(s) \subseteq Nat
            /\ sessions[s].last \in Nat /\ sessions'[s].last \in Nat
        BY <2>1, <3>1, RowRepaired DEF RowInv, HasCursor
      <4> QED
        BY <2>1, <3>2, <4>1 DEF Agrees
    <3> QED
      BY <2>1, <3>1, <3>2, <3>3, RowRepaired DEF RowInv, HasEnds
  <2> QED
    BY <2>2, <2>3
<1> QED
  BY <1>2, <1>3 DEF CursorInv

LEMMA CursorInvariant == Spec => []CursorInv
<1>1. Init => CursorInv
  BY DEF Init, CursorInv, Nothing
<1>2. GoneInv /\ CursorInv /\ [Next]_vars => CursorInv'
  <2> SUFFICES ASSUME GoneInv, CursorInv, [Next]_vars PROVE CursorInv'
    OBVIOUS
  <2> USE DEF tables, memory, world
  <2>1. UNCHANGED <<sessions, events>> /\ (Up' => Up) => CursorInv'
    BY TablesKept
  <2>2. CASE Open \/ MarkImported \/ Listen \/ Stop \/ NextDay
    <3>1. UNCHANGED <<sessions, events>> /\ (Up' => Up)
      BY <2>2 DEF Open, MarkImported, Listen, Stop, NextDay, Up
    <3> QED
      BY <2>1, <3>1
  <2>3. CASE FinishOpen
    BY <2>3, RowsReconciled
  <2>4. ASSUME NEW s \in Sids, ImportSession(s) PROVE CursorInv'
    <3>1. ~Up' /\ s \in DOMAIN Legacy
      BY <2>4 DEF ImportSession, Up
    <3>2. \/ UNCHANGED <<sessions, events>>
          \/ s \notin DOMAIN sessions /\ sessions' = With(sessions, s, ImportedRow(s))
      BY <2>4 DEF ImportSession
    <3> QED
      BY <2>1, <2>4, <3>1, <3>2, RowImported
  <2>5. ASSUME NEW s \in Sids, Create(s) PROVE CursorInv'
    <3>1. PICK E \in Pruned :
            /\ Cascade(E)
            /\ \/ sessions' = With(Without(sessions, E), s, NewRow)
               \/ sessions' = Without(sessions, E)
      BY <2>5 DEF Create
    <3>2. s \notin DOMAIN sessions /\ (Up' => Up)
      BY <2>5 DEF Create, GoneInv, Up
    <3> QED
      BY <3>1, <3>2, RowCreated, RowsDeleted
  <2>6. ASSUME NEW s \in Sids, Continue(s) \/ SeatEnds(s) \/ OfferUnknown(s)
        PROVE  CursorInv'
    <3>1. UNCHANGED <<sessions, events>> /\ (Up' => Up)
      BY <2>6 DEF Continue, SeatEnds, OfferUnknown, Up
    <3> QED
      BY <2>1, <3>1
  <2>7. ASSUME NEW s \in Sids, RemoveSession(s) PROVE CursorInv'
    <3>1. /\ Cascade({s}) /\ sessions' = Without(sessions, {s}) /\ (Up' => Up)
      BY <2>7 DEF RemoveSession, Up
    <3> QED
      BY <3>1, RowsDeleted
  <2>8. ASSUME NEW s \in Sids, NEW turn \in BOOLEAN, NEW n \in EventBytes,
               Offer(s, turn, n)
        PROVE  CursorInv'
    <3>1. s \in DOMAIN sessions /\ (Up' => Up)
      BY <2>8 DEF Offer, Up
    <3>2. HasCursor(sessions[s])
      BY <3>1 DEF CursorInv, RowInv
    <3>3. ASSUME UNCHANGED events, NoteDropped(s) PROVE CursorInv'
      <4> DEFINE row == [sessions[s] EXCEPT !.dropped = sessions[s].dropped + 1]
      <4>1. HasCursor(row) /\ row.first = sessions[s].first /\ row.last = sessions[s].last
        BY <3>2 DEF HasCursor
      <4>2. sessions' = [sessions EXCEPT ![s] = row] \/ UNCHANGED sessions
        BY <3>3 DEF NoteDropped
      <4> HIDE DEF row
      <4> QED
        BY <2>1, <3>1, <3>3, <4>1, <4>2, RowMarked
    <3>4. ASSUME UNCHANGED events, StopWriter(s) PROVE CursorInv'
      <4> DEFINE row == [sessions[s] EXCEPT !.truncated = TRUE]
      <4>1. HasCursor(row) /\ row.first = sessions[s].first /\ row.last = sessions[s].last
        BY <3>2 DEF HasCursor
      <4>2. sessions' = [sessions EXCEPT ![s] = row] \/ UNCHANGED sessions
        BY <3>4 DEF StopWriter, SetTruncated
      <4> HIDE DEF row
      <4> QED
        BY <2>1, <3>1, <3>4, <4>1, <4>2, RowMarked
    <3>5. \/ UNCHANGED <<sessions, events>>
          \/ UNCHANGED events /\ NoteDropped(s)
          \/ UNCHANGED events /\ StopWriter(s)
          \/ Record(s, turn, n)
      BY <2>8 DEF Offer
    <3> QED
      BY <2>1, <3>1, <3>3, <3>4, <3>5, RowRecorded
  <2>9. ASSUME NEW s \in Sids, NEW stamp \in 0..MaxDay, SetTitle(s, stamp)
        PROVE  CursorInv'
    <3> DEFINE row == [sessions[s] EXCEPT !.stamp = stamp]
    <3>1. s \in DOMAIN sessions /\ UNCHANGED events /\ (Up' => Up)
      BY <2>9 DEF SetTitle, Up
    <3>2. HasCursor(row) /\ row.first = sessions[s].first /\ row.last = sessions[s].last
      BY <3>1 DEF CursorInv, RowInv, HasCursor
    <3>3. sessions' = [sessions EXCEPT ![s] = row]
      BY <2>9 DEF SetTitle
    <3> HIDE DEF row
    <3> QED
      BY <3>1, <3>2, <3>3, RowMarked
  <2>10. ASSUME NEW s, NEW f, NEW n, SpoolAttachment(s, f, n) PROVE CursorInv'
    BY <2>10, <2>1 DEF SpoolAttachment, Up
  <2>11. ASSUME NEW a, DiscardAttachment(a) PROVE CursorInv'
    BY <2>11, <2>1 DEF DiscardAttachment, Up
  <2>12. CASE UNCHANGED vars
    BY <2>12, <2>1 DEF vars, Up
  <2> QED
    BY <2>2, <2>3, <2>4, <2>5, <2>6, <2>7, <2>8, <2>9, <2>10, <2>11, <2>12
       DEF Next, Boot
<1> QED
  BY <1>1, <1>2, GoneInvariant, PTL DEF Spec

(* With a disk that takes every write, each row is the cursor of its log,  *)
(* and no number of a session recorded here is skipped or used twice.      *)
THEOREM RowsStayTrue ==
  ASSUME DiskFails = FALSE
  PROVE  Spec => []RowsAgreeWithLog
<1>1. CursorInv => RowsAgreeWithLog
  <2> SUFFICES ASSUME CursorInv, Up, NEW s \in DOMAIN sessions
               PROVE  /\ Log(s) = {} => sessions[s].first = 0 /\ sessions[s].last = 0
                      /\ Log(s) # {} => /\ sessions[s].first = Min(Seqs(s))
                                        /\ sessions[s].last = Max(Seqs(s))
                      /\ s \notin DOMAIN Legacy => Seqs(s) = 1..sessions[s].last
    BY DEF RowsAgreeWithLog
  <2>1. /\ Agrees(s) /\ Seqs(s) \subseteq Nat
        /\ s \notin DOMAIN Legacy => Seqs(s) = 1..sessions[s].last
    BY DEF CursorInv, RowInv
  <2>2. Log(s) = {} <=> Seqs(s) = {}
    BY DEF Seqs
  <2>3. CASE Seqs(s) = {}
    BY <2>1, <2>2, <2>3 DEF Agrees
  <2>4. CASE Seqs(s) # {}
    BY <2>1, <2>2, <2>4, EndsAreMinMax DEF Agrees
  <2> QED
    BY <2>3, <2>4
<1> QED
  BY <1>1, CursorInvariant, PTL

----------------------------------------------------------------------------
(* Sums over finite sets *)

(* What holds of a set whenever it holds of the smaller ones holds of every *)
(* finite set: the induction that the sums rest on, over a family of sets.  *)
LEMMA FiniteInduction ==
  ASSUME NEW S, IsFiniteSet(S), NEW F,
         \A T \in SUBSET S : (\A U \in SUBSET T : U # T => U \in F) => T \in F
  PROVE  S \in F
<1> DEFINE bad == {T \in SUBSET S : T \notin F}
<1> SUFFICES ASSUME S \notin F PROVE FALSE
  OBVIOUS
<1>1. IsWellFoundedOn(StrictSubsetOrdering(S), FiniteSubsetsOf(S))
  BY FS_StrictSubsetOrderingWellFounded
<1>2. bad \subseteq FiniteSubsetsOf(S) /\ bad # {}
  BY FS_FiniteSubsetsOfFinite
<1>3. PICK T \in bad : \A U \in bad : ~(<<U, T>> \in StrictSubsetOrdering(S))
  <2> HIDE DEF bad
  <2> QED
    BY <1>1, <1>2, WFMin
<1>4. ASSUME NEW U \in SUBSET T, U # T PROVE U \in F
  <2>1. <<U, T>> \in StrictSubsetOrdering(S)
    BY <1>4 DEF StrictSubsetOrdering
  <2> QED
    BY <1>3, <2>1
<1> QED
  BY <1>4

(* g counts up S, one element at a time, with the weights w.               *)
Counts(g, w, S) ==
  g = [T \in SUBSET S |->
         IF T = {} THEN 0
         ELSE w[CHOOSE x \in T : TRUE] + g[T \ {CHOOSE x \in T : TRUE}]]
Total(w, S) == (CHOOSE g : Counts(g, w, S))[S]

(* Two counts agree on what both have counted.                             *)
LEMMA CountsAgree ==
  ASSUME NEW S, NEW T, NEW R, IsFiniteSet(R), R \subseteq S, R \subseteq T,
         NEW w,
         NEW g, NEW h, Counts(g, w, S), Counts(h, w, T)
  PROVE  g[R] = h[R]
<1> DEFINE F == {Q \in SUBSET R : g[Q] = h[Q]}
<1>1. ASSUME NEW Q \in SUBSET R, \A U \in SUBSET Q : U # Q => U \in F
      PROVE  Q \in F
  <2>0. Q \in SUBSET S /\ Q \in SUBSET T
    OBVIOUS
  <2>1. CASE Q = {}
    <3>1. g[Q] = 0 /\ h[Q] = 0
      BY <2>0, <2>1 DEF Counts
    <3> QED
      BY <3>1
  <2>2. CASE Q # {}
    <3> DEFINE c == CHOOSE y \in Q : TRUE
    <3>1. c \in Q
      BY <2>2
    <3>2. g[Q] = w[c] + g[Q \ {c}] /\ h[Q] = w[c] + h[Q \ {c}]
      BY <2>0, <2>2 DEF Counts
    <3> HIDE DEF c
    <3>3. g[Q \ {c}] = h[Q \ {c}]
      BY <1>1, <3>1
    <3> QED
      BY <3>1, <3>2, <3>3
  <2> QED
    BY <2>1, <2>2
<1>2. R \in F
  <2> HIDE DEF F
  <2> QED
    BY <1>1, FiniteInduction
<1> QED
  BY <1>2

LEMMA CountExists ==
  ASSUME NEW S, IsFiniteSet(S), NEW w
  PROVE  \E g : Counts(g, w, S)
<1> DEFINE F == {T \in SUBSET S : \E g : Counts(g, w, T)}
<1>1. ASSUME NEW T \in SUBSET S, \A U \in SUBSET T : U # T => U \in F
      PROVE  T \in F
  <2> DEFINE h == [P \in SUBSET T |->
                     IF P = {} THEN 0
                     ELSE w[CHOOSE x \in P : TRUE]
                            + Total(w, P \ {CHOOSE x \in P : TRUE})]
  <2>1. ASSUME NEW P \in SUBSET T, P # T PROVE h[P] = Total(w, P)
    <3>1. PICK g : Counts(g, w, P)
      BY <1>1, <2>1
    <3> DEFINE f == CHOOSE k : Counts(k, w, P)
               c == CHOOSE x \in P : TRUE
    <3>2. Counts(f, w, P)
      BY <3>1
    <3>3. CASE P = {}
      <4>1. f[P] = 0
        BY <3>2, <3>3 DEF Counts
      <4> QED
        BY <3>3, <4>1 DEF Total
    <3>4. CASE P # {}
      <4>1. c \in P
        BY <3>4
      <4>2. f[P] = w[c] + f[P \ {c}]
        BY <3>2, <3>4 DEF Counts
      <4>3. \E k : Counts(k, w, P \ {c})
        <5>1. P \ {c} \in SUBSET T /\ P \ {c} # T
          BY <2>1, <4>1
        <5> QED
          BY <1>1, <5>1
      <4>4. f[P \ {c}] = Total(w, P \ {c})
        <5> DEFINE k == CHOOSE k : Counts(k, w, P \ {c})
        <5>1. Counts(k, w, P \ {c})
          BY <4>3
        <5>2. IsFiniteSet(P \ {c})
          BY FS_Subset
        <5> HIDE DEF f, c, k
        <5>3. f[P \ {c}] = k[P \ {c}]
          BY <3>2, <5>1, <5>2, CountsAgree
        <5> QED
          BY <5>3 DEF Total, k
      <4>5. h[P] = w[c] + Total(w, P \ {c})
        BY <3>4
      <4>6. f[P] = Total(w, P)
        BY DEF Total
      <4> QED
        BY <4>2, <4>4, <4>5, <4>6
    <3> QED
      BY <3>3, <3>4
  <2>2. Counts(h, w, T)
    <3>1. ASSUME NEW P \in SUBSET T, P # {}
          PROVE  h[P \ {CHOOSE x \in P : TRUE}] = Total(w, P \ {CHOOSE x \in P : TRUE})
      <4> DEFINE Q == P \ {CHOOSE x \in P : TRUE}
      <4>1. Q \in SUBSET T /\ Q # T
        BY <3>1
      <4> HIDE DEF Q, h
      <4>2. h[Q] = Total(w, Q)
        BY <4>1, <2>1
      <4> QED
        BY <4>2 DEF Q
    <3> DEFINE one(P) == IF P = {} THEN 0 ELSE w[CHOOSE x \in P : TRUE]
                            + Total(w, P \ {CHOOSE x \in P : TRUE})
               two(P) == IF P = {} THEN 0 ELSE w[CHOOSE x \in P : TRUE]
                            + h[P \ {CHOOSE x \in P : TRUE}]
    <3>2. \A P \in SUBSET T : one(P) = two(P)
      <4> HIDE DEF h
      <4> QED
        BY <3>1
    <3>3. h = [P \in SUBSET T |-> one(P)]
      OBVIOUS
    <3> HIDE DEF one, two, h
    <3>4. h = [P \in SUBSET T |-> two(P)]
      BY <3>2, <3>3
    <3> QED
      BY <3>4 DEF Counts, two
  <2> QED
    BY <2>2
<1>2. S \in F
  <2> HIDE DEF F
  <2> QED
    BY <1>1, FiniteInduction
<1> QED
  BY <1>2

(* The equation of the sum, and what it says of the whole and its parts.   *)
LEMMA TotalCounts ==
  ASSUME NEW S, IsFiniteSet(S), NEW w, NEW T \in SUBSET S
  PROVE  /\ Counts(CHOOSE g : Counts(g, w, S), w, S)
         /\ (CHOOSE g : Counts(g, w, S))[T] = Total(w, T)
<1> DEFINE f == CHOOSE g : Counts(g, w, S)
           k == CHOOSE g : Counts(g, w, T)
<1>1. Counts(f, w, S)
  BY CountExists
<1>2. IsFiniteSet(T)
  BY FS_Subset
<1>3. Counts(k, w, T)
  BY <1>2, CountExists
<1> HIDE DEF f, k
<1>4. f[T] = k[T]
  BY <1>1, <1>2, <1>3, CountsAgree
<1> QED
  BY <1>1, <1>4 DEF Total, f, k

LEMMA TotalEquation ==
  ASSUME NEW S, IsFiniteSet(S), NEW w
  PROVE  /\ S = {} => Total(w, S) = 0
         /\ S # {} => LET c == CHOOSE x \in S : TRUE
                      IN  c \in S /\ Total(w, S) = w[c] + Total(w, S \ {c})
<1> DEFINE f == CHOOSE g : Counts(g, w, S)
           c == CHOOSE x \in S : TRUE
<1>1. Counts(f, w, S) /\ \A T \in SUBSET S : f[T] = Total(w, T)
  BY TotalCounts
<1> HIDE DEF f
<1>2. f = [T \in SUBSET S |->
         IF T = {} THEN 0
         ELSE w[CHOOSE x \in T : TRUE] + f[T \ {CHOOSE x \in T : TRUE}]]
  BY <1>1 DEF Counts
<1>3. f[S] = IF S = {} THEN 0 ELSE w[c] + f[S \ {c}]
  BY <1>2
<1>4. f[S] = Total(w, S) /\ f[S \ {c}] = Total(w, S \ {c})
  BY <1>1
<1> QED
  BY <1>3, <1>4

Naturals(w, S) == \A x \in S : w[x] \in Nat

LEMMA TotalType ==
  ASSUME NEW S, IsFiniteSet(S), NEW w, Naturals(w, S)
  PROVE  Total(w, S) \in Nat
<1> DEFINE F == {T \in SUBSET S : Total(w, T) \in Nat}
<1>1. ASSUME NEW T \in SUBSET S, \A U \in SUBSET T : U # T => U \in F
      PROVE  T \in F
  <2>1. IsFiniteSet(T)
    BY FS_Subset
  <2>2. CASE T # {}
    <3>1. PICK c \in T : Total(w, T) = w[c] + Total(w, T \ {c})
      BY <2>1, <2>2, TotalEquation
    <3>2. Total(w, T \ {c}) \in Nat
      BY <1>1
    <3> QED
      BY <3>1, <3>2 DEF Naturals
  <2> QED
    BY <2>1, <2>2, TotalEquation
<1>2. S \in F
  <2> HIDE DEF F
  <2> QED
    BY <1>1, FiniteInduction
<1> QED
  BY <1>2

(* The order does not matter: any element can be taken out first.          *)
LEMMA TotalRemove ==
  ASSUME NEW S, IsFiniteSet(S), NEW w, Naturals(w, S), NEW x \in S
  PROVE  Total(w, S) = w[x] + Total(w, S \ {x})
<1> DEFINE F == {T \in SUBSET S : \A y \in T : Total(w, T) = w[y] + Total(w, T \ {y})}
<1>1. ASSUME NEW T \in SUBSET S, \A U \in SUBSET T : U # T => U \in F
      PROVE  T \in F
  <2> SUFFICES ASSUME NEW y \in T PROVE Total(w, T) = w[y] + Total(w, T \ {y})
    OBVIOUS
  <2>1. IsFiniteSet(T)
    BY FS_Subset
  <2>2. PICK c \in T : Total(w, T) = w[c] + Total(w, T \ {c})
    BY <2>1, TotalEquation
  <2>3. CASE c # y
    <3> DEFINE rest == (T \ {c}) \ {y}
    <3>1. Total(w, T \ {c}) = w[y] + Total(w, rest)
      <4>1. T \ {c} \in F /\ y \in T \ {c}
        BY <1>1, <2>3
      <4> QED
        BY <4>1
    <3>2. Total(w, T \ {y}) = w[c] + Total(w, rest)
      <4>1. T \ {y} \in F /\ c \in T \ {y} /\ (T \ {y}) \ {c} = rest
        BY <1>1, <2>3
      <4> HIDE DEF rest
      <4>2. Total(w, T \ {y}) = w[c] + Total(w, (T \ {y}) \ {c})
        BY <4>1
      <4> QED
        BY <4>1, <4>2
    <3>3. Total(w, rest) \in Nat /\ w[c] \in Nat /\ w[y] \in Nat
      <4>1. IsFiniteSet(rest) /\ Naturals(w, rest)
        BY <2>1, FS_Subset DEF Naturals
      <4> HIDE DEF rest
      <4> QED
        BY <4>1, TotalType DEF Naturals
    <3> HIDE DEF rest
    <3> QED
      BY <2>2, <3>1, <3>2, <3>3
  <2> QED
    BY <2>2, <2>3
<1>2. S \in F
  <2> HIDE DEF F
  <2> QED
    BY <1>1, FiniteInduction
<1> QED
  BY <1>2

LEMMA TotalAdd ==
  ASSUME NEW S, IsFiniteSet(S), NEW x, x \notin S, NEW w, Naturals(w, S \cup {x})
  PROVE  Total(w, S \cup {x}) = Total(w, S) + w[x]
<1> DEFINE T == S \cup {x}
<1>1. IsFiniteSet(T) /\ T \ {x} = S /\ x \in T
  BY FS_AddElement
<1>2. Total(w, T) = w[x] + Total(w, T \ {x})
  <2> HIDE DEF T
  <2> QED
    BY <1>1, TotalRemove DEF T
<1>3. Total(w, S) \in Nat /\ w[x] \in Nat
  BY TotalType DEF Naturals
<1> HIDE DEF T
<1>4. Total(w, T) = w[x] + Total(w, S)
  BY <1>1, <1>2
<1>5. Total(w, T) = Total(w, S) + w[x]
  BY <1>3, <1>4
<1> QED
  BY <1>5 DEF T

(* Only the weights of the elements matter.                                *)
LEMMA TotalSame ==
  ASSUME NEW S, IsFiniteSet(S), NEW w, NEW v, \A x \in S : w[x] = v[x]
  PROVE  Total(w, S) = Total(v, S)
<1> DEFINE F == {T \in SUBSET S : Total(w, T) = Total(v, T)}
<1>1. ASSUME NEW T \in SUBSET S, \A U \in SUBSET T : U # T => U \in F
      PROVE  T \in F
  <2>1. IsFiniteSet(T)
    BY FS_Subset
  <2>2. CASE T # {}
    <3> DEFINE c == CHOOSE x \in T : TRUE
    <3>1. /\ c \in T
          /\ Total(w, T) = w[c] + Total(w, T \ {c})
          /\ Total(v, T) = v[c] + Total(v, T \ {c})
      BY <2>1, <2>2, TotalEquation
    <3> HIDE DEF c
    <3>2. Total(w, T \ {c}) = Total(v, T \ {c})
      BY <1>1, <3>1
    <3>3. w[c] = v[c]
      BY <3>1
    <3> QED
      BY <3>1, <3>2, <3>3
  <2>3. CASE T = {}
    BY <2>1, <2>3, TotalEquation
  <2> QED
    BY <2>2, <2>3
<1>2. S \in F
  <2> HIDE DEF F
  <2> QED
    BY <1>1, FiniteInduction
<1> QED
  BY <1>2

(* Weights add up pointwise.                                               *)
LEMMA TotalPlus ==
  ASSUME NEW S, IsFiniteSet(S), NEW w, NEW v, NEW u, Naturals(w, S), Naturals(v, S),
         \A x \in S : u[x] = w[x] + v[x]
  PROVE  Total(u, S) = Total(w, S) + Total(v, S)
<1> DEFINE F == {T \in SUBSET S : Total(u, T) = Total(w, T) + Total(v, T)}
<1>1. ASSUME NEW T \in SUBSET S, \A U \in SUBSET T : U # T => U \in F
      PROVE  T \in F
  <2>1. IsFiniteSet(T) /\ Naturals(w, T) /\ Naturals(v, T) /\ Naturals(u, T)
    BY FS_Subset DEF Naturals
  <2>2. CASE T # {}
    <3>1. PICK c \in T : TRUE
      BY <2>2
    <3>2. /\ Total(u, T) = u[c] + Total(u, T \ {c})
          /\ Total(w, T) = w[c] + Total(w, T \ {c})
          /\ Total(v, T) = v[c] + Total(v, T \ {c})
      BY <2>1, TotalRemove
    <3>3. Total(u, T \ {c}) = Total(w, T \ {c}) + Total(v, T \ {c})
      BY <1>1
    <3>4. /\ Total(w, T \ {c}) \in Nat /\ Total(v, T \ {c}) \in Nat
          /\ w[c] \in Nat /\ v[c] \in Nat /\ u[c] = w[c] + v[c]
      <4>1. IsFiniteSet(T \ {c}) /\ Naturals(w, T \ {c}) /\ Naturals(v, T \ {c})
        BY <2>1, FS_Subset DEF Naturals
      <4> QED
        BY <4>1, TotalType DEF Naturals
    <3> QED
      BY <3>2, <3>3, <3>4
  <2>3. CASE T = {}
    BY <2>1, <2>3, TotalEquation
  <2> QED
    BY <2>2, <2>3
<1>2. S \in F
  <2> HIDE DEF F
  <2> QED
    BY <1>1, FiniteInduction
<1> QED
  BY <1>2

(* A sum over a set is the sums over two halves of it.                     *)
LEMMA TotalSplit ==
  ASSUME NEW S, IsFiniteSet(S), NEW T, T \subseteq S, NEW w, Naturals(w, S)
  PROVE  Total(w, S) = Total(w, T) + Total(w, S \ T)
<1> DEFINE F == {U \in SUBSET T : Total(w, S) = Total(w, U) + Total(w, S \ U)}
<1>1. ASSUME NEW U \in SUBSET T, \A R \in SUBSET U : R # U => R \in F
      PROVE  U \in F
  <2>1. IsFiniteSet(U) /\ IsFiniteSet(S \ U) /\ Naturals(w, U) /\ Naturals(w, S \ U)
    BY FS_Subset DEF Naturals
  <2>2. CASE U # {}
    <3>1. PICK c \in U : TRUE
      BY <2>2
    <3> DEFINE R == U \ {c}
    <3>2. Total(w, S) = Total(w, R) + Total(w, S \ R)
      BY <1>1
    <3>3. Total(w, U) = w[c] + Total(w, R)
      BY <2>1, TotalRemove
    <3>4. Total(w, S \ R) = w[c] + Total(w, S \ U)
      <4>1. c \in S \ R /\ (S \ R) \ {c} = S \ U
        BY <3>1
      <4>2. IsFiniteSet(S \ R) /\ Naturals(w, S \ R)
        BY FS_Subset DEF Naturals
      <4> HIDE DEF R
      <4> QED
        BY <4>1, <4>2, TotalRemove
    <3>5. Total(w, R) \in Nat /\ Total(w, S \ U) \in Nat /\ w[c] \in Nat
      <4>1. IsFiniteSet(R) /\ Naturals(w, R)
        BY <2>1, FS_Subset DEF Naturals
      <4> HIDE DEF R
      <4> QED
        BY <2>1, <4>1, TotalType DEF Naturals
    <3> HIDE DEF R
    <3> QED
      BY <3>2, <3>3, <3>4, <3>5
  <2>3. CASE U = {}
    <3>1. Total(w, S) \in Nat /\ S \ U = S
      BY <2>3, TotalType
    <3> QED
      BY <2>1, <2>3, <3>1, TotalEquation
  <2> QED
    BY <2>2, <2>3
<1>2. T \in F
  <2>1. IsFiniteSet(T)
    BY FS_Subset
  <2> HIDE DEF F
  <2> QED
    BY <1>1, <2>1, FiniteInduction
<1> QED
  BY <1>2

----------------------------------------------------------------------------
(* The sums of the store are such sums *)

LEMMA BytesAreTotal ==
  ASSUME NEW S
  PROVE  Bytes(S) = Total([e \in S |-> e.bytes], S)
<1> DEFINE body(g, s) == IF s = {} THEN 0 ELSE (CHOOSE y \in s : TRUE).bytes
                                               + g[s \ {CHOOSE y \in s : TRUE}]
<1>1. ASSUME NEW g
      PROVE  Counts(g, [e \in S |-> e.bytes], S) <=> g = [s \in SUBSET S |-> body(g, s)]
  <2>1. \A s \in SUBSET S : s # {} => (CHOOSE x \in s : TRUE) \in S
    OBVIOUS
  <2> QED
    BY <2>1 DEF Counts
<1>2. Bytes(S) = (CHOOSE g : g = [s \in SUBSET S |-> body(g, s)])[S]
  BY DEF Bytes, MapThenSumSet, MapThenFoldSet
<1> QED
  BY <1>1, <1>2 DEF Total

LEMMA ChargeIsTotal ==
  ASSUME NEW S
  PROVE  Charge(S) = Total([a \in S |-> ChargeOf(a)], S)
<1> DEFINE body(g, s) == IF s = {} THEN 0 ELSE ChargeOf(CHOOSE y \in s : TRUE)
                                               + g[s \ {CHOOSE y \in s : TRUE}]
<1>1. ASSUME NEW g
      PROVE  Counts(g, [a \in S |-> ChargeOf(a)], S) <=> g = [s \in SUBSET S |-> body(g, s)]
  <2>1. \A s \in SUBSET S : s # {} => (CHOOSE x \in s : TRUE) \in S
    OBVIOUS
  <2> QED
    BY <2>1 DEF Counts
<1>2. Charge(S) = (CHOOSE g : g = [s \in SUBSET S |-> body(g, s)])[S]
  BY DEF Charge, MapThenSumSet, MapThenFoldSet
<1> QED
  BY <1>1, <1>2 DEF Total

LEMMA RowBytesAreTotal ==
  ASSUME NEW rows
  PROVE  RowBytes(rows) = Total([s \in DOMAIN rows |-> rows[s].bytes], DOMAIN rows)
<1> DEFINE S == DOMAIN rows
           body(g, s) == IF s = {} THEN 0 ELSE rows[CHOOSE y \in s : TRUE].bytes
                                               + g[s \ {CHOOSE y \in s : TRUE}]
<1>1. ASSUME NEW g
      PROVE  Counts(g, [s \in S |-> rows[s].bytes], S) <=> g = [s \in SUBSET S |-> body(g, s)]
  <2>1. \A s \in SUBSET S : s # {} => (CHOOSE x \in s : TRUE) \in S
    OBVIOUS
  <2> QED
    BY <2>1 DEF Counts
<1>2. RowBytes(rows) = (CHOOSE g : g = [s \in SUBSET S |-> body(g, s)])[S]
  BY DEF RowBytes, MapThenSumSet, MapThenFoldSet
<1> DEFINE w == [s \in S |-> rows[s].bytes]
<1>3. \A g : Counts(g, w, S) <=> g = [s \in SUBSET S |-> body(g, s)]
  BY <1>1
<1> HIDE DEF w, body, S
<1>4. RowBytes(rows) = Total(w, S)
  BY <1>2, <1>3 DEF Total
<1> QED
  BY <1>4 DEF w, S

LEMMA HeldIsTotal ==
  ASSUME NEW S
  PROVE  MapThenSumSet(Held, S) = Total([s \in S |-> Held(s)], S)
<1> DEFINE body(g, s) == IF s = {} THEN 0 ELSE Held(CHOOSE y \in s : TRUE)
                                               + g[s \ {CHOOSE y \in s : TRUE}]
<1>1. ASSUME NEW g
      PROVE  Counts(g, [s \in S |-> Held(s)], S) <=> g = [s \in SUBSET S |-> body(g, s)]
  <2>1. \A s \in SUBSET S : s # {} => (CHOOSE x \in s : TRUE) \in S
    OBVIOUS
  <2> QED
    BY <2>1 DEF Counts
<1>2. MapThenSumSet(Held, S) = (CHOOSE g : g = [s \in SUBSET S |-> body(g, s)])[S]
  BY DEF MapThenSumSet, MapThenFoldSet
<1> QED
  BY <1>1, <1>2 DEF Total

Sized(S) == IsFiniteSet(S) /\ \A e \in S : e.bytes \in Nat
Measured(S) == IsFiniteSet(S) /\ \A a \in S : a.size \in Nat
Weighed(rows) == IsFiniteSet(DOMAIN rows) /\ \A s \in DOMAIN rows : rows[s].bytes \in Nat

LEMMA BytesOfMore ==
  ASSUME NEW S, Sized(S)
  PROVE  /\ Bytes(S) \in Nat
         /\ Bytes({}) = 0
         /\ \A x : x \notin S /\ x.bytes \in Nat => Bytes(S \cup {x}) = Bytes(S) + x.bytes
<1>1. Bytes(S) \in Nat
  <2>1. Naturals([e \in S |-> e.bytes], S)
    BY DEF Naturals, Sized
  <2> QED
    BY <2>1, BytesAreTotal, TotalType DEF Sized
<1>2. Bytes({}) = 0
  BY BytesAreTotal, TotalEquation, FS_EmptySet
<1>3. ASSUME NEW x, x \notin S, x.bytes \in Nat
      PROVE  Bytes(S \cup {x}) = Bytes(S) + x.bytes
  <2> DEFINE w == [e \in S \cup {x} |-> e.bytes]
             v == [e \in S |-> e.bytes]
  <2>1. Naturals(w, S \cup {x}) /\ w[x] = x.bytes /\ \A e \in S : w[e] = v[e]
    BY <1>3 DEF Naturals, Sized
  <2>2. Bytes(S \cup {x}) = Total(w, S \cup {x}) /\ Bytes(S) = Total(v, S)
    BY BytesAreTotal
  <2> HIDE DEF w, v
  <2>3. Total(w, S \cup {x}) = Total(w, S) + w[x]
    BY <1>3, <2>1, TotalAdd DEF Sized
  <2>4. Total(w, S) = Total(v, S)
    BY <2>1, TotalSame DEF Sized
  <2> QED
    BY <2>1, <2>2, <2>3, <2>4
<1> QED
  BY <1>1, <1>2, <1>3

LEMMA ChargeOfMore ==
  ASSUME NEW S, Measured(S)
  PROVE  /\ Charge(S) \in Nat
         /\ Charge({}) = 0
         /\ \A x : x \notin S /\ x.size \in Nat => Charge(S \cup {x}) = Charge(S) + ChargeOf(x)
<1>0. \A a : a.size \in Nat => ChargeOf(a) \in Nat
  BY CapsAreNatural DEF ChargeOf
<1>1. Charge(S) \in Nat
  <2>1. Naturals([e \in S |-> ChargeOf(e)], S)
    BY <1>0 DEF Naturals, Measured
  <2> QED
    BY <2>1, ChargeIsTotal, TotalType DEF Measured
<1>2. Charge({}) = 0
  BY ChargeIsTotal, TotalEquation, FS_EmptySet
<1>3. ASSUME NEW x, x \notin S, x.size \in Nat
      PROVE  Charge(S \cup {x}) = Charge(S) + ChargeOf(x)
  <2> DEFINE w == [e \in S \cup {x} |-> ChargeOf(e)]
             v == [e \in S |-> ChargeOf(e)]
  <2>1. Naturals(w, S \cup {x}) /\ w[x] = ChargeOf(x) /\ \A e \in S : w[e] = v[e]
    BY <1>0, <1>3 DEF Naturals, Measured
  <2>2. Charge(S \cup {x}) = Total(w, S \cup {x}) /\ Charge(S) = Total(v, S)
    BY ChargeIsTotal
  <2> HIDE DEF w, v
  <2>3. Total(w, S \cup {x}) = Total(w, S) + w[x]
    BY <1>3, <2>1, TotalAdd DEF Measured
  <2>4. Total(w, S) = Total(v, S)
    BY <2>1, TotalSame DEF Measured
  <2> QED
    BY <2>1, <2>2, <2>3, <2>4
<1> QED
  BY <1>1, <1>2, <1>3

(* What the files of some sessions are charged is what each session's are. *)
LEMMA ChargeBySession ==
  ASSUME NEW A, Measured(A), NEW G, IsFiniteSet(G)
  PROVE  /\ Charge({a \in A : a.sid \in G}) = Total([s \in G |-> Charge({a \in A : a.sid = s})], G)
         /\ Charge(A) = Charge({a \in A : a.sid \in G}) + Charge({a \in A : a.sid \notin G})
         /\ \A s \in G : Charge({a \in A : a.sid = s}) \in Nat
<1> DEFINE w == [a \in A |-> ChargeOf(a)]
           v == [s \in G |-> Charge({a \in A : a.sid = s})]
           Of(U) == {a \in A : a.sid \in U}
<1>1. Naturals(w, A) /\ IsFiniteSet(A)
  BY CapsAreNatural DEF Naturals, Measured, ChargeOf
<1>2. ASSUME NEW S \in SUBSET A PROVE Charge(S) = Total(w, S) /\ Charge(S) \in Nat
  <2>1. IsFiniteSet(S) /\ Measured(S)
    BY <1>1, FS_Subset DEF Measured
  <2>2. \A a \in S : w[a] = [x \in S |-> ChargeOf(x)][a]
    OBVIOUS
  <2> HIDE DEF w
  <2>3. Total(w, S) = Total([x \in S |-> ChargeOf(x)], S)
    BY <2>1, <2>2, TotalSame
  <2> QED
    BY <2>1, <2>3, ChargeIsTotal, ChargeOfMore
<1>3. Charge(A) = Charge(Of(G)) + Charge({a \in A : a.sid \notin G})
  <2>1. A \ Of(G) = {a \in A : a.sid \notin G} /\ Of(G) \subseteq A
    OBVIOUS
  <2> HIDE DEF w, Of
  <2>2. Total(w, A) = Total(w, Of(G)) + Total(w, A \ Of(G))
    BY <1>1, <2>1, TotalSplit
  <2> QED
    BY <1>2, <2>1, <2>2
<1>4. Naturals(v, G)
  <2>1. ASSUME NEW s \in G PROVE Charge({a \in A : a.sid = s}) \in Nat
    <3>1. {a \in A : a.sid = s} \in SUBSET A
      OBVIOUS
    <3> QED
      BY <1>2, <3>1
  <2> QED
    BY <2>1 DEF Naturals
<1>5. ASSUME NEW U \in SUBSET G, NEW s \in U
      PROVE  Charge(Of(U)) = v[s] + Charge(Of(U \ {s}))
  <2> DEFINE T == {a \in A : a.sid = s}
  <2>1. T \subseteq Of(U) /\ Of(U) \ T = Of(U \ {s}) /\ Of(U) \in SUBSET A /\ v[s] = Charge(T)
    OBVIOUS
  <2>2. IsFiniteSet(Of(U)) /\ Naturals(w, Of(U))
    BY <1>1, <2>1, FS_Subset DEF Naturals
  <2> HIDE DEF w, Of, T, v
  <2>3. Total(w, Of(U)) = Total(w, T) + Total(w, Of(U) \ T)
    BY <2>1, <2>2, TotalSplit
  <2>4. T \in SUBSET A /\ Of(U \ {s}) \in SUBSET A
    BY <2>1
  <2> QED
    BY <1>2, <2>1, <2>3, <2>4
<1> DEFINE F == {U \in SUBSET G : Charge(Of(U)) = Total(v, U)}
<1>6. ASSUME NEW U \in SUBSET G, \A R \in SUBSET U : R # U => R \in F
      PROVE  U \in F
  <2>1. IsFiniteSet(U)
    BY FS_Subset
  <2>2. CASE U # {}
    <3> DEFINE c == CHOOSE x \in U : TRUE
    <3> HIDE DEF v
    <3>1. c \in U /\ Total(v, U) = v[c] + Total(v, U \ {c})
      BY <2>1, <2>2, TotalEquation
    <3> HIDE DEF c
    <3>2. Charge(Of(U)) = v[c] + Charge(Of(U \ {c}))
      BY <1>5, <3>1
    <3>3. Charge(Of(U \ {c})) = Total(v, U \ {c})
      BY <1>6, <3>1
    <3> QED
      BY <3>1, <3>2, <3>3
  <2>3. CASE U = {}
    <3>1. Of(U) = {}
      BY <2>3
    <3>2. Charge(Of(U)) = 0
      BY <3>1, ChargeOfMore
    <3> HIDE DEF v
    <3> QED
      BY <2>1, <2>3, <3>2, TotalEquation
  <2> QED
    BY <2>2, <2>3
<1>7. G \in F
  <2> HIDE DEF F
  <2> QED
    BY <1>6, FiniteInduction
<1> QED
  BY <1>3, <1>4, <1>7 DEF Naturals

(* Rows are added and deleted with their bytes.                            *)
LEMMA RowBytesOfRow ==
  ASSUME NEW rows, Weighed(rows)
  PROVE  /\ RowBytes(rows) \in Nat
         /\ \A new, s : /\ DOMAIN new = DOMAIN rows /\ s \in DOMAIN rows /\ new[s].bytes \in Nat
                        /\ \A r \in DOMAIN rows \ {s} : new[r].bytes = rows[r].bytes
              => RowBytes(new) = RowBytes(rows) - rows[s].bytes + new[s].bytes
         /\ \A new, s : /\ s \notin DOMAIN rows /\ DOMAIN new = DOMAIN rows \cup {s}
                        /\ new[s].bytes \in Nat
                        /\ \A r \in DOMAIN rows : new[r].bytes = rows[r].bytes
              => RowBytes(new) = RowBytes(rows) + new[s].bytes
<1> DEFINE D == DOMAIN rows
           w == [s \in D |-> rows[s].bytes]
<1>1. IsFiniteSet(D) /\ Naturals(w, D) /\ RowBytes(rows) = Total(w, D)
  BY RowBytesAreTotal DEF Weighed, Naturals
<1>2. RowBytes(rows) \in Nat
  <2> HIDE DEF w, D
  <2> QED
    BY <1>1, TotalType
<1>3. ASSUME NEW new, NEW s, s \notin D, DOMAIN new = D \cup {s}, new[s].bytes \in Nat,
             \A r \in D : new[r].bytes = rows[r].bytes
      PROVE  RowBytes(new) = RowBytes(rows) + new[s].bytes
  <2> DEFINE v == [r \in D \cup {s} |-> new[r].bytes]
  <2>1. RowBytes(new) = Total(v, D \cup {s})
    BY <1>3, RowBytesAreTotal
  <2>2. Naturals(v, D \cup {s}) /\ v[s] = new[s].bytes /\ \A r \in D : v[r] = w[r]
    BY <1>1, <1>3 DEF Naturals
  <2> HIDE DEF v, w, D
  <2>3. Total(v, D \cup {s}) = Total(v, D) + v[s]
    BY <1>1, <1>3, <2>2, TotalAdd
  <2>4. Total(v, D) = Total(w, D)
    BY <1>1, <2>2, TotalSame
  <2> QED
    BY <1>1, <2>1, <2>2, <2>3, <2>4
<1>4. ASSUME NEW new, NEW s, s \in D, DOMAIN new = D, new[s].bytes \in Nat,
             \A r \in D \ {s} : new[r].bytes = rows[r].bytes
      PROVE  RowBytes(new) = RowBytes(rows) - rows[s].bytes + new[s].bytes
  <2> DEFINE v == [r \in D |-> new[r].bytes]
  <2>1. RowBytes(new) = Total(v, D)
    BY <1>4, RowBytesAreTotal
  <2>2. /\ Naturals(v, D) /\ v[s] = new[s].bytes /\ w[s] = rows[s].bytes
        /\ \A r \in D \ {s} : v[r] = w[r]
    BY <1>1, <1>4 DEF Naturals
  <2>3. s \in D
    BY <1>4
  <2> HIDE DEF v, w, D
  <2>4. Total(v, D) = v[s] + Total(v, D \ {s}) /\ Total(w, D) = w[s] + Total(w, D \ {s})
    BY <1>1, <2>2, <2>3, TotalRemove
  <2>5. IsFiniteSet(D \ {s}) /\ Naturals(w, D \ {s}) /\ w[s] \in Nat
    BY <1>1, <2>3, FS_Subset DEF Naturals
  <2>6. Total(v, D \ {s}) = Total(w, D \ {s}) /\ Total(w, D \ {s}) \in Nat
    BY <2>2, <2>5, TotalSame, TotalType
  <2>7. v[s] \in Nat
    BY <2>2, <2>3 DEF Naturals
  <2> QED
    BY <1>1, <2>1, <2>2, <2>4, <2>5, <2>6, <2>7
<1> QED
  BY <1>2, <1>3, <1>4

LEMMA DeletedIsPaidBack ==
  ASSUME Weighed(sessions), Measured(attachments), NEW gone \in SUBSET DOMAIN sessions
  PROVE  /\ MapThenSumSet(Held, gone) \in Nat
         /\ RowBytes(sessions) + Charge(attachments) =
              MapThenSumSet(Held, gone) + RowBytes(Without(sessions, gone))
                + Charge({a \in attachments : a.sid \notin gone})
         /\ Weighed(Without(sessions, gone)) /\ Measured({a \in attachments : a.sid \notin gone})
<1>0. IsFiniteSet(gone)
  BY FS_Subset DEF Weighed
<1>a. Charge(attachments) = Charge({a \in attachments : a.sid \in gone})
                             + Charge({a \in attachments : a.sid \notin gone})
  BY <1>0, ChargeBySession
<1>b. ASSUME NEW s \in gone PROVE Charge({a \in attachments : a.sid = s}) \in Nat
  <2>1. Measured({a \in attachments : a.sid = s})
    BY FS_Subset DEF Measured
  <2> QED
    BY <2>1, ChargeOfMore
<1>c. Charge({a \in attachments : a.sid \in gone})
        = Total([s \in gone |-> Charge({a \in attachments : a.sid = s})], gone)
  BY <1>0, ChargeBySession
<1> DEFINE D == DOMAIN sessions
           rest == Without(sessions, gone)
           kept == {a \in attachments : a.sid \notin gone}
           w == [s \in D |-> sessions[s].bytes]
           c == [s \in gone |-> Charge({a \in attachments : a.sid = s})]
           h == [s \in gone |-> Held(s)]
<1>1. IsFiniteSet(D) /\ IsFiniteSet(gone) /\ IsFiniteSet(D \ gone) /\ Naturals(w, D)
  BY FS_Subset DEF Weighed, Naturals
<1>2. /\ Charge({a \in attachments : a.sid \in gone}) = Total(c, gone)
      /\ Charge(attachments) = Charge({a \in attachments : a.sid \in gone}) + Charge(kept)
      /\ Naturals(c, gone)
  <2>1. /\ Charge({a \in attachments : a.sid \in gone}) = Total(c, gone)
        /\ Charge(attachments) = Charge({a \in attachments : a.sid \in gone}) + Charge(kept)
        /\ \A s \in gone : Charge({a \in attachments : a.sid = s}) \in Nat
    BY <1>a, <1>b, <1>c
  <2> QED
    BY <2>1 DEF Naturals
<1>3. MapThenSumSet(Held, gone) = Total(h, gone)
  BY HeldIsTotal
<1>4. Naturals(w, gone) /\ \A s \in gone : h[s] = w[s] + c[s]
  BY <1>1 DEF Naturals, Held, Spooled
<1>5. RowBytes(sessions) = Total(w, D)
  BY RowBytesAreTotal
<1>6. DOMAIN rest = D \ gone /\ \A s \in D \ gone : rest[s] = sessions[s]
  BY DEF Without
<1>7. RowBytes(rest) = Total(w, D \ gone)
  <2> DEFINE v == [s \in DOMAIN rest |-> rest[s].bytes]
  <2>1. RowBytes(rest) = Total(v, DOMAIN rest)
    BY RowBytesAreTotal
  <2>2. \A s \in D \ gone : v[s] = w[s]
    BY <1>6
  <2> HIDE DEF v, w, rest, D
  <2> QED
    BY <1>1, <1>6, <2>1, <2>2, TotalSame
<1>8. Weighed(rest)
  BY <1>1, <1>6 DEF Weighed
<1>9. Measured(kept)
  BY FS_Subset DEF Measured
<1>10. Charge(kept) \in Nat /\ RowBytes(rest) \in Nat
  BY <1>8, <1>9, ChargeOfMore, RowBytesOfRow
<1> HIDE DEF D, rest, kept, w, c, h
<1>11. Total(h, gone) = Total(w, gone) + Total(c, gone)
  BY <1>1, <1>2, <1>4, TotalPlus
<1>12. Total(w, D) = Total(w, gone) + Total(w, D \ gone)
  BY <1>1, TotalSplit DEF D
<1>13. Total(w, gone) \in Nat /\ Total(c, gone) \in Nat
  BY <1>1, <1>2, <1>4, TotalType
<1>14. /\ MapThenSumSet(Held, gone) \in Nat
       /\ RowBytes(sessions) + Charge(attachments) =
            MapThenSumSet(Held, gone) + RowBytes(rest) + Charge(kept)
  BY <1>2, <1>3, <1>5, <1>7, <1>10, <1>11, <1>12, <1>13
<1> QED
  BY <1>8, <1>9, <1>14 DEF rest, kept

(* max(0, x) as the code writes it.                                        *)
LEMMA MaxOfTwo ==
  ASSUME NEW a \in Int, NEW b \in Int
  PROVE  Max({a, b}) = IF a <= b THEN b ELSE a
BY DEF Max

----------------------------------------------------------------------------
(* The byte budget *)

(* The running total is what the tables add up to, and the row of a session *)
(* recorded here what its log does.                                         *)
BudgetInv ==
  /\ Weighed(sessions) /\ Sized(events) /\ Measured(attachments)
  /\ Up => storeBytes = RowBytes(sessions) + Charge(attachments)
  /\ \A s \in DOMAIN sessions \ DOMAIN Legacy : sessions[s].bytes = Bytes(Log(s))

LEMMA LogIsSized ==
  ASSUME Sized(events), NEW s
  PROVE  Sized(Log(s)) /\ Bytes(Log(s)) \in Nat
<1>1. Sized(Log(s))
  BY FS_Subset DEF Sized, Log
<1> QED
  BY <1>1, BytesOfMore

(* Rows whose bytes stay, with their logs and files.                       *)
LEMMA BudgetKept ==
  ASSUME BudgetInv, DOMAIN sessions' = DOMAIN sessions,
         \A s \in DOMAIN sessions : sessions'[s].bytes = sessions[s].bytes,
         UNCHANGED <<events, attachments>>, Up' => Up /\ UNCHANGED storeBytes
  PROVE  BudgetInv'
<1>1. Weighed(sessions') /\ RowBytes(sessions') = RowBytes(sessions)
  <2>1. Weighed(sessions) /\ Weighed(sessions')
    BY DEF BudgetInv, Weighed
  <2> DEFINE D == DOMAIN sessions
             w == [s \in D |-> sessions[s].bytes]
             v == [s \in D |-> sessions'[s].bytes]
  <2>2. RowBytes(sessions) = Total(w, D) /\ RowBytes(sessions') = Total(v, D)
    BY RowBytesAreTotal
  <2>3. v = w
    OBVIOUS
  <2> QED
    BY <2>1, <2>2, <2>3
<1>2. \A s : Log(s)' = Log(s)
  BY DEF Log
<1> QED
  BY <1>1, <1>2 DEF BudgetInv

(* Sessions are deleted and what they held is taken off the total.         *)
LEMMA BudgetDeleted ==
  ASSUME BudgetInv, NEW gone \in SUBSET DOMAIN sessions, Cascade(gone), Up,
         storeBytes' = LessHeld(gone)
  PROVE  /\ storeBytes' = RowBytes(Without(sessions, gone)) + Charge(attachments')
         /\ Weighed(Without(sessions, gone)) /\ Sized(events') /\ Measured(attachments')
         /\ \A s \in DOMAIN sessions \ gone : Log(s)' = Log(s)
<1>1. attachments' = {a \in attachments : a.sid \notin gone}
  BY DEF Cascade
<1>2. /\ MapThenSumSet(Held, gone) \in Nat
      /\ RowBytes(sessions) + Charge(attachments) =
           MapThenSumSet(Held, gone) + RowBytes(Without(sessions, gone)) + Charge(attachments')
      /\ Weighed(Without(sessions, gone)) /\ Measured(attachments')
  BY <1>1, DeletedIsPaidBack DEF BudgetInv
<1>3. Sized(events')
  BY FS_Subset DEF Sized, Cascade, BudgetInv
<1>4. RowBytes(Without(sessions, gone)) \in Nat /\ Charge(attachments') \in Nat
  BY <1>2, RowBytesOfRow, ChargeOfMore
<1>5. storeBytes = MapThenSumSet(Held, gone) + RowBytes(Without(sessions, gone))
                     + Charge(attachments')
  BY <1>2 DEF BudgetInv
<1> DEFINE held == MapThenSumSet(Held, gone)
           kept == RowBytes(Without(sessions, gone)) + Charge(attachments')
<1>6. held \in Nat /\ kept \in Nat /\ storeBytes = held + kept
  BY <1>2, <1>4, <1>5
<1>7. storeBytes' = Max({0, storeBytes - held})
  BY DEF LessHeld
<1> HIDE DEF held, kept
<1>8. storeBytes' = kept
  BY <1>6, <1>7, MaxOfTwo
<1>9. \A s \in DOMAIN sessions \ gone : Log(s)' = Log(s)
  BY DEF Log, Cascade
<1> QED
  BY <1>2, <1>3, <1>8, <1>9 DEF kept

LEMMA BudgetRecorded ==
  ASSUME BudgetInv, NEW s \in DOMAIN sessions, NEW turn, NEW n \in EventBytes,
         HasCursor(sessions[s]), Up, Up', ~SeqTaken(s), Record(s, turn, n),
         UNCHANGED attachments
  PROVE  BudgetInv'
<1> DEFINE e == [sid |-> s, seq |-> NextSeq(s), nr |-> offered[s] + 1,
                 turn |-> turn, bytes |-> n]
<1>1. events' = events \cup {e} /\ storeBytes' = storeBytes + n
  BY DEF Record
<1>2. e.sid = s /\ e.bytes = n /\ n \in Nat /\ e.seq = NextSeq(s)
  BY CapsAreNatural
<1> HIDE DEF e
<1>3. e \notin events
  BY <1>2 DEF SeqTaken, Seqs, Log
<1>4. Sized(events')
  <2>1. IsFiniteSet(events \cup {e})
    BY FS_AddElement DEF BudgetInv, Sized
  <2> QED
    BY <1>1, <1>2, <2>1 DEF BudgetInv, Sized
<1>5. /\ DOMAIN sessions' = DOMAIN sessions
      /\ sessions'[s].bytes = sessions[s].bytes + n
      /\ \A r \in DOMAIN sessions \ {s} : sessions'[r] = sessions[r]
  BY DEF Record, HasCursor
<1>6. sessions[s].bytes \in Nat
  BY DEF BudgetInv, Weighed
<1>7. RowBytes(sessions') = RowBytes(sessions) + n /\ Weighed(sessions')
  <2>1. RowBytes(sessions') = RowBytes(sessions) - sessions[s].bytes + sessions'[s].bytes
    BY <1>2, <1>5, <1>6, RowBytesOfRow DEF BudgetInv
  <2>2. RowBytes(sessions) \in Nat
    BY RowBytesOfRow DEF BudgetInv
  <2>3. RowBytes(sessions') = RowBytes(sessions) + n
    BY <1>2, <1>5, <1>6, <2>1, <2>2
  <2>4. Weighed(sessions')
    BY <1>2, <1>5, <1>6 DEF Weighed, BudgetInv
  <2> QED
    BY <2>3, <2>4
<1>8. storeBytes' = RowBytes(sessions') + Charge(attachments')
  <2>1. RowBytes(sessions) \in Nat /\ Charge(attachments) \in Nat
    BY RowBytesOfRow, ChargeOfMore DEF BudgetInv
  <2> QED
    BY <1>1, <1>2, <1>7, <2>1 DEF BudgetInv
<1>9. ASSUME NEW r \in DOMAIN sessions' \ DOMAIN Legacy
      PROVE  sessions'[r].bytes = Bytes(Log(r)')
  <2>1. CASE r = s
    <3>1. Log(s)' = Log(s) \cup {e} /\ e \notin Log(s)
      BY <1>1, <1>2, <1>3 DEF Log
    <3>2. Bytes(Log(s) \cup {e}) = Bytes(Log(s)) + n
      BY <1>2, <3>1, LogIsSized, BytesOfMore DEF BudgetInv
    <3> QED
      BY <1>5, <1>9, <2>1, <3>1, <3>2 DEF BudgetInv
  <2>2. CASE r # s
    <3>1. Log(r)' = Log(r)
      BY <1>1, <1>2, <2>2 DEF Log
    <3> QED
      BY <1>5, <1>9, <2>2, <3>1 DEF BudgetInv
  <2> QED
    BY <2>1, <2>2
<1> QED
  BY <1>4, <1>7, <1>8, <1>9 DEF BudgetInv

(* What reconcileOne leaves as the bytes of a row.                         *)
LEMMA BytesRepaired ==
  ASSUME NEW s, HasCursor(sessions[s]), sessions[s].bytes \in Nat, Sized(events)
  PROVE  /\ Reconciled(s).bytes \in Nat
         /\ sessions[s].bytes = Bytes(Log(s)) => Reconciled(s).bytes = Bytes(Log(s))
<1>1. Bytes(Log(s)) \in Nat /\ (Log(s) = {} => Bytes(Log(s)) = 0)
  BY LogIsSized, BytesOfMore
<1>2. Emptied(s).bytes = 0
  BY DEF Emptied, HasCursor
<1> DEFINE written ==
      [sessions[s] EXCEPT !.first = Min(Seqs(s)), !.last = Max(Seqs(s)),
                          !.bytes = Bytes(Log(s)),
                          !.truncated = sessions[s].truncated \/ EndsMidTurn(s),
                          !.midTurn = EndsMidTurn(s)]
<1>3. written.bytes = Bytes(Log(s))
  BY DEF HasCursor
<1>4. \/ Log(s) = {} /\ Reconciled(s) = Emptied(s)
      \/ Reconciled(s) = written
      \/ Reconciled(s) = sessions[s]
  BY DEF Reconciled
<1> HIDE DEF written
<1> QED
  BY <1>1, <1>2, <1>3, <1>4

LEMMA BudgetReconciled ==
  ASSUME CursorInv, BudgetInv, FinishOpen
  PROVE  BudgetInv'
<1>1. PICK unwritten \in SUBSET DOMAIN sessions :
        LET rows == [s \in DOMAIN sessions |->
                       IF s \in unwritten THEN sessions[s] ELSE Reconciled(s)]
        IN  sessions' = rows /\ storeBytes' = Charged(rows)
  BY DEF FinishOpen
<1>2. /\ storeBytes' = RowBytes(sessions') + Charge(attachments')
      /\ UNCHANGED <<events, attachments>> /\ DOMAIN sessions' = DOMAIN sessions
  BY <1>1 DEF FinishOpen, Charged
<1>3. ASSUME NEW s \in DOMAIN sessions
      PROVE  /\ sessions'[s].bytes \in Nat
             /\ s \notin DOMAIN Legacy => sessions'[s].bytes = Bytes(Log(s))
  <2>1. sessions'[s] = IF s \in unwritten THEN sessions[s] ELSE Reconciled(s)
    BY <1>1
  <2>2. HasCursor(sessions[s]) /\ sessions[s].bytes \in Nat /\ Sized(events)
    BY DEF CursorInv, RowInv, BudgetInv, Weighed
  <2>3. s \notin DOMAIN Legacy => sessions[s].bytes = Bytes(Log(s))
    BY DEF BudgetInv
  <2> QED
    BY <2>1, <2>2, <2>3, BytesRepaired
<1>4. \A s : Log(s)' = Log(s)
  BY <1>2 DEF Log
<1> QED
  BY <1>2, <1>3, <1>4 DEF BudgetInv, Weighed

LEMMA BudgetCreated ==
  ASSUME GoneInv, CursorInv, BudgetInv, NEW s \in Sids, Create(s)
  PROVE  BudgetInv'
<1>1. PICK E \in Pruned :
        /\ Cascade(E)
        /\ storeBytes' = LessHeld(E)
        /\ \/ sessions' = With(Without(sessions, E), s, NewRow)
           \/ sessions' = Without(sessions, E)
  BY DEF Create
<1>2. E \in SUBSET DOMAIN sessions
  BY DEF Pruned
<1>3. Up /\ s \notin DOMAIN sessions /\ s \notin DOMAIN Legacy
  BY DEF Create, GoneInv, Up, Running
<1> DEFINE rest == Without(sessions, E)
<1>4. /\ storeBytes' = RowBytes(rest) + Charge(attachments')
      /\ Weighed(rest) /\ Sized(events') /\ Measured(attachments')
      /\ \A r \in DOMAIN sessions \ E : Log(r)' = Log(r)
  BY <1>1, <1>2, <1>3, BudgetDeleted
<1>5. DOMAIN rest = DOMAIN sessions \ E /\ \A r \in DOMAIN sessions \ E : rest[r] = sessions[r]
  BY DEF Without
<1>6. \A r \in DOMAIN rest \ DOMAIN Legacy : rest[r].bytes = Bytes(Log(r)')
  BY <1>4, <1>5 DEF BudgetInv
<1> HIDE DEF rest
<1>7. CASE sessions' = rest
  BY <1>4, <1>6, <1>7 DEF BudgetInv
<1>8. CASE sessions' = With(rest, s, NewRow)
  <2>1. /\ DOMAIN sessions' = DOMAIN rest \cup {s} /\ s \notin DOMAIN rest
        /\ sessions'[s].bytes = 0 /\ \A r \in DOMAIN rest : sessions'[r] = rest[r]
    BY <1>3, <1>5, <1>8 DEF With, NewRow
  <2>2. RowBytes(sessions') = RowBytes(rest) + 0
    BY <1>4, <2>1, RowBytesOfRow
  <2>3. RowBytes(rest) \in Nat
    BY <1>4, RowBytesOfRow
  <2>4. IsFiniteSet(DOMAIN rest \cup {s})
    BY <1>4, FS_AddElement DEF Weighed
  <2>5. Weighed(sessions')
    BY <1>4, <2>1, <2>4 DEF Weighed
  <2>6. Log(s)' = {}
    BY <1>1, <1>3 DEF Log, Cascade, CursorInv
  <2>7. Bytes(Log(s)') = 0
    BY <2>6, FS_EmptySet, BytesOfMore DEF Sized
  <2>8. storeBytes' = RowBytes(sessions') + Charge(attachments')
    BY <1>4, <2>2, <2>3
  <2> QED
    BY <1>4, <1>6, <2>1, <2>5, <2>7, <2>8 DEF BudgetInv
<1> QED
  BY <1>1, <1>7, <1>8 DEF rest

LEMMA BudgetRemoved ==
  ASSUME BudgetInv, NEW s, RemoveSession(s)
  PROVE  BudgetInv'
<1>1. /\ Cascade({s}) /\ sessions' = Without(sessions, {s}) /\ storeBytes' = LessHeld({s})
      /\ {s} \in SUBSET DOMAIN sessions /\ Up
  BY DEF RemoveSession, Running, Up
<1>2. /\ storeBytes' = RowBytes(sessions') + Charge(attachments')
      /\ Weighed(sessions') /\ Sized(events') /\ Measured(attachments')
      /\ \A r \in DOMAIN sessions \ {s} : Log(r)' = Log(r)
  BY <1>1, BudgetDeleted
<1>3. /\ DOMAIN sessions' = DOMAIN sessions \ {s}
      /\ \A r \in DOMAIN sessions' : sessions'[r] = sessions[r]
  BY <1>1 DEF Without
<1> QED
  BY <1>2, <1>3 DEF BudgetInv

LEMMA BudgetImported ==
  ASSUME BudgetInv, CursorInv, NEW s \in Sids, ImportSession(s)
  PROVE  BudgetInv'
<1>1. ~Up' /\ s \in DOMAIN Legacy /\ UNCHANGED attachments
  BY DEF ImportSession, Up
<1>2. CASE UNCHANGED <<sessions, events>>
  BY <1>1, <1>2, BudgetKept
<1>3. CASE /\ s \notin DOMAIN sessions /\ sessions' = With(sessions, s, ImportedRow(s))
           /\ events' = events \cup ImportedLog(s)
  <2>1. Sized(ImportedLog(s))
    <3> DEFINE ev(r) == [sid |-> s, seq |-> r.seq, nr |-> 0, turn |-> r.turn, bytes |-> r.bytes]
           f == [r \in Legacy[s].records |-> ev(r)]
    <3>1. IsFiniteSet(ImportedLog(s))
      <4>1. IsFiniteSet(Legacy[s].records)
        BY <1>1, LegacyIsStored
      <4>2. ImportedLog(s) = {ev(r) : r \in Legacy[s].records}
        BY DEF ImportedLog
      <4> HIDE DEF ev
      <4>3. f \in Surjection(Legacy[s].records, ImportedLog(s))
        BY <4>2 DEF Surjection
      <4> QED
        BY <4>1, <4>3, FS_Surjection
    <3>2. \A r \in Legacy[s].records : ev(r).bytes \in Nat
      BY <1>1, LegacyIsStored
    <3> QED
      BY <3>1, <3>2 DEF Sized, ImportedLog
  <2>2. IsFiniteSet(events \cup ImportedLog(s))
    BY <2>1, FS_Union DEF BudgetInv, Sized
  <2>3. Sized(events')
    BY <1>3, <2>1, <2>2 DEF BudgetInv, Sized
  <2>4. /\ DOMAIN sessions' = DOMAIN sessions \cup {s}
        /\ sessions'[s].bytes = Legacy[s].bytes
        /\ \A r \in DOMAIN sessions : sessions'[r] = sessions[r]
    BY <1>3 DEF With, ImportedRow
  <2>5. IsFiniteSet(DOMAIN sessions \cup {s})
    BY FS_AddElement DEF BudgetInv, Weighed
  <2>6. Legacy[s].bytes \in Nat
    BY <1>1, LegacyIsStored
  <2>7. Weighed(sessions')
    BY <2>4, <2>5, <2>6 DEF BudgetInv, Weighed
  <2>8. \A r \in DOMAIN sessions : r # s => Log(r)' = Log(r)
    BY <1>3 DEF Log, ImportedLog
  <2> QED
    BY <1>1, <1>3, <2>3, <2>4, <2>7, <2>8 DEF BudgetInv
<1> QED
  BY <1>2, <1>3 DEF ImportSession

LEMMA BudgetSpooled ==
  ASSUME BudgetInv, NEW s, NEW f, NEW n \in FileBytes, SpoolAttachment(s, f, n)
  PROVE  BudgetInv'
<1> DEFINE a == [sid |-> s, file |-> f, size |-> n]
<1>1. /\ Up /\ a \notin attachments /\ attachments' = attachments \cup {a}
      /\ storeBytes' = storeBytes + ChargeOf(a) /\ UNCHANGED <<sessions, events>>
      /\ a.size = n
  BY DEF SpoolAttachment, Running, Up
<1>2. n \in Nat
  BY CapsAreNatural
<1> HIDE DEF a
<1>3. /\ Charge(attachments') = Charge(attachments) + ChargeOf(a)
      /\ Charge(attachments) \in Nat
  BY <1>1, <1>2, ChargeOfMore DEF BudgetInv
<1>4. IsFiniteSet(attachments \cup {a})
  BY FS_AddElement DEF BudgetInv, Measured
<1>5. Measured(attachments')
  BY <1>1, <1>2, <1>4 DEF BudgetInv, Measured
<1>6. RowBytes(sessions) \in Nat /\ ChargeOf(a) \in Nat
  BY <1>1, <1>2, RowBytesOfRow, CapsAreNatural DEF BudgetInv, ChargeOf
<1>7. storeBytes' = RowBytes(sessions') + Charge(attachments')
  BY <1>1, <1>3, <1>6 DEF BudgetInv
<1>8. \A r : Log(r)' = Log(r)
  BY <1>1 DEF Log
<1> QED
  BY <1>1, <1>5, <1>7, <1>8 DEF BudgetInv

LEMMA BudgetDiscarded ==
  ASSUME BudgetInv, NEW a \in attachments, DiscardAttachment(a)
  PROVE  BudgetInv'
<1>1. /\ Up /\ attachments' = attachments \ {a} /\ UNCHANGED <<sessions, events>>
      /\ storeBytes' = Max({0, storeBytes - ChargeOf(a)})
  BY DEF DiscardAttachment, Running, Up
<1>2. a.size \in Nat /\ ChargeOf(a) \in Nat
  BY CapsAreNatural DEF BudgetInv, Measured, ChargeOf
<1>3. Measured(attachments')
  BY <1>1, FS_Subset DEF BudgetInv, Measured
<1>4. a \notin attachments' /\ attachments' \cup {a} = attachments
  BY <1>1
<1>5. Charge(attachments) = Charge(attachments') + ChargeOf(a) /\ Charge(attachments') \in Nat
  BY <1>2, <1>3, <1>4, ChargeOfMore
<1>6. RowBytes(sessions) \in Nat
  BY RowBytesOfRow DEF BudgetInv
<1>7. storeBytes = RowBytes(sessions) + Charge(attachments)
  BY <1>1 DEF BudgetInv
<1> DEFINE rest == storeBytes - ChargeOf(a)
<1>8. rest = RowBytes(sessions') + Charge(attachments') /\ rest \in Nat
  BY <1>1, <1>2, <1>5, <1>6, <1>7
<1>9. storeBytes' = rest
  <2> HIDE DEF rest
  <2>1. Max({0, rest}) = rest
    BY <1>8, MaxOfTwo
  <2> QED
    BY <1>1, <2>1 DEF rest
<1>10. \A r : Log(r)' = Log(r)
  BY <1>1 DEF Log
<1> QED
  BY <1>1, <1>3, <1>8, <1>9, <1>10 DEF BudgetInv

LEMMA BudgetOffered ==
  ASSUME CursorInv, BudgetInv, NEW s \in Sids, NEW turn, NEW n \in EventBytes,
         Offer(s, turn, n)
  PROVE  BudgetInv'
<1>1. s \in DOMAIN sessions /\ Up /\ Up' /\ UNCHANGED attachments
  BY DEF Offer, Running, Up
<1>2. HasCursor(sessions[s])
  BY <1>1 DEF CursorInv, RowInv
<1>3. \/ UNCHANGED <<sessions, events, storeBytes>>
      \/ UNCHANGED <<events, storeBytes>> /\ (NoteDropped(s) \/ SetTruncated(s))
      \/ ~SeqTaken(s) /\ Record(s, turn, n)
  BY DEF Offer, memory, StopWriter
<1>4. ASSUME NoteDropped(s) \/ SetTruncated(s)
      PROVE  /\ DOMAIN sessions' = DOMAIN sessions
             /\ \A r \in DOMAIN sessions : sessions'[r].bytes = sessions[r].bytes
  BY <1>1, <1>2, <1>4 DEF NoteDropped, SetTruncated, HasCursor
<1> QED
  BY <1>1, <1>2, <1>3, <1>4, BudgetKept, BudgetRecorded

LEMMA BudgetInvariant == Spec => []BudgetInv
<1>1. Init => BudgetInv
  BY FS_EmptySet DEF Init, BudgetInv, Nothing, Weighed, Sized, Measured, Up
<1>2. GoneInv /\ CursorInv /\ BudgetInv /\ [Next]_vars => BudgetInv'
  <2> SUFFICES ASSUME GoneInv, CursorInv, BudgetInv, [Next]_vars PROVE BudgetInv'
    OBVIOUS
  <2> USE DEF tables, memory, world
  <2>1. UNCHANGED <<sessions, events, attachments>> /\ (Up' => Up /\ UNCHANGED storeBytes)
          => BudgetInv'
    BY BudgetKept
  <2>2. CASE Open \/ MarkImported \/ Listen \/ Stop \/ NextDay
    <3>1. UNCHANGED <<sessions, events, attachments>> /\ (Up' => Up /\ UNCHANGED storeBytes)
      BY <2>2 DEF Open, MarkImported, Listen, Stop, NextDay, Up
    <3> QED
      BY <2>1, <3>1
  <2>3. ASSUME NEW s \in Sids, Continue(s) \/ SeatEnds(s) \/ OfferUnknown(s)
        PROVE  BudgetInv'
    <3>1. UNCHANGED <<sessions, events, attachments>> /\ (Up' => Up /\ UNCHANGED storeBytes)
      BY <2>3 DEF Continue, SeatEnds, OfferUnknown, Up
    <3> QED
      BY <2>1, <3>1
  <2>4. ASSUME NEW s \in Sids, NEW stamp \in 0..MaxDay, SetTitle(s, stamp)
        PROVE  BudgetInv'
    <3>1. /\ UNCHANGED <<events, attachments>> /\ (Up' => Up /\ UNCHANGED storeBytes)
          /\ DOMAIN sessions' = DOMAIN sessions
          /\ \A r \in DOMAIN sessions : sessions'[r].bytes = sessions[r].bytes
      BY <2>4 DEF SetTitle, Up, CursorInv, RowInv, HasCursor
    <3> QED
      BY <3>1, BudgetKept
  <2>5. CASE UNCHANGED vars
    BY <2>5, <2>1 DEF vars, Up
  <2> QED
    BY <2>2, <2>3, <2>4, <2>5, BudgetReconciled, BudgetCreated, BudgetRemoved,
       BudgetImported, BudgetSpooled, BudgetDiscarded, BudgetOffered DEF Next, Boot
<1> QED
  BY <1>1, <1>2, GoneInvariant, CursorInvariant, PTL DEF Spec

(* The running total of the budget never drifts: through creates, cascading *)
(* deletes, discards, refused and failed writes, and what reconcile charges *)
(* at boot, it is what the rows and the spooled files add up to, and the    *)
(* bytes of a row recorded here are those of its events.                    *)
THEOREM BudgetStaysExact == Spec => []BudgetIsExact
<1>1. BudgetInv => BudgetIsExact
  BY DEF BudgetInv, BudgetIsExact
<1> QED
  BY <1>1, BudgetInvariant, PTL

----------------------------------------------------------------------------
(* The ceiling of the whole store *)

LEMMA SameBytesSameTotal ==
  ASSUME DOMAIN sessions' = DOMAIN sessions,
         \A s \in DOMAIN sessions : sessions'[s].bytes = sessions[s].bytes
  PROVE  RowBytes(sessions') = RowBytes(sessions)
<1> DEFINE D == DOMAIN sessions
           w == [s \in D |-> sessions[s].bytes]
           v == [s \in D |-> sessions'[s].bytes]
<1>1. RowBytes(sessions) = Total(w, D) /\ RowBytes(sessions') = Total(v, D)
  BY RowBytesAreTotal
<1>2. v = w
  OBVIOUS
<1> QED
  BY <1>1, <1>2

(* What the tables hold, whether or not anybody has counted it yet.        *)
Stored == RowBytes(sessions) + Charge(attachments)
CeilingInv == Legacy = Nothing => Stored <= MaxStoreBytes + ManifestBytes

LEMMA HeldIsNatural ==
  ASSUME BudgetInv, NEW gone \in SUBSET DOMAIN sessions, Up
  PROVE  LessHeld(gone) <= storeBytes /\ storeBytes \in Nat
<1>1. MapThenSumSet(Held, gone) \in Nat
  BY DeletedIsPaidBack DEF BudgetInv
<1>2. storeBytes \in Nat
  <2>1. RowBytes(sessions) \in Nat /\ Charge(attachments) \in Nat
    BY RowBytesOfRow, ChargeOfMore DEF BudgetInv
  <2> QED
    BY <2>1 DEF BudgetInv
<1> DEFINE held == MapThenSumSet(Held, gone)
<1>3. LessHeld(gone) = Max({0, storeBytes - held})
  BY DEF LessHeld
<1> HIDE DEF held
<1> QED
  BY <1>1, <1>2, <1>3, MaxOfTwo DEF held

LEMMA CeilingInvariant == Spec => []CeilingInv
<1>1. Init => CeilingInv
  <2> SUFFICES ASSUME Init PROVE CeilingInv
    OBVIOUS
  <2>1. Measured(attachments) /\ attachments = {}
    BY FS_EmptySet DEF Init, Measured
  <2>2. Charge(attachments) = 0
    BY <2>1, ChargeOfMore
  <2>3. RowBytes(sessions) = Total([s \in DOMAIN sessions |-> sessions[s].bytes], {})
    BY RowBytesAreTotal DEF Init, Nothing
  <2>4. RowBytes(sessions) = 0
    BY <2>3, TotalEquation, FS_EmptySet
  <2> QED
    BY <2>2, <2>4, CapsAreNatural DEF CeilingInv, Stored
<1>2. GoneInv /\ CursorInv /\ BudgetInv /\ BudgetInv' /\ CeilingInv /\ [Next]_vars => CeilingInv'
  <2> SUFFICES ASSUME GoneInv, CursorInv, BudgetInv, BudgetInv', CeilingInv, [Next]_vars,
                      Legacy = Nothing
               PROVE  Stored' <= MaxStoreBytes + ManifestBytes
    BY DEF CeilingInv
  <2> DEFINE Goal == Stored' <= MaxStoreBytes + ManifestBytes
  <2> HIDE DEF Goal
  <2>1. Stored <= MaxStoreBytes + ManifestBytes /\ DOMAIN Legacy = {}
    BY DEF CeilingInv, Nothing
  <2>2. MaxStoreBytes \in Nat /\ ManifestBytes \in Nat
    BY CapsAreNatural
  <2>3. /\ DOMAIN sessions' = DOMAIN sessions /\ UNCHANGED attachments
        /\ \A s \in DOMAIN sessions : sessions'[s].bytes = sessions[s].bytes
        => Goal
    BY <2>1, SameBytesSameTotal DEF Stored, Goal
  <2>4. UNCHANGED <<sessions, attachments>> => Goal
    BY <2>3
  <2>5. Up => Stored = storeBytes /\ storeBytes \in Nat
    <3>1. RowBytes(sessions) \in Nat /\ Charge(attachments) \in Nat
      BY RowBytesOfRow, ChargeOfMore DEF BudgetInv
    <3> QED
      BY <3>1 DEF BudgetInv, Stored
  <2>6. Up' => Stored' = storeBytes'
    BY DEF BudgetInv, Stored
  <2>7. ASSUME Up, Up', storeBytes' <= storeBytes, storeBytes' \in Int PROVE Goal
    BY <2>1, <2>2, <2>5, <2>6, <2>7 DEF Goal
  <2>8. Stored' \in Nat
    <3>1. RowBytes(sessions') \in Nat /\ Charge(attachments') \in Nat
      BY RowBytesOfRow, ChargeOfMore DEF BudgetInv
    <3> QED
      BY <3>1 DEF Stored
  <2>9. CASE FinishOpen
    <3>1. DOMAIN sessions' = DOMAIN sessions /\ UNCHANGED <<events, attachments>>
      BY <2>9 DEF FinishOpen
    <3>2. ASSUME NEW s \in DOMAIN sessions PROVE sessions'[s].bytes = sessions[s].bytes
      <4>1. Log(s)' = Log(s)
        BY <3>1 DEF Log
      <4>2. sessions[s].bytes = Bytes(Log(s)) /\ sessions'[s].bytes = Bytes(Log(s)')
        BY <2>1, <3>1 DEF BudgetInv
      <4> QED
        BY <4>1, <4>2
    <3> QED
      BY <2>3, <3>1, <3>2 DEF Goal
  <2>10. ASSUME NEW s \in Sids, ImportSession(s) PROVE Goal
    BY <2>1, <2>10 DEF ImportSession
  <2>11. ASSUME NEW s \in Sids, Create(s) PROVE Goal
    <3>1. PICK E \in Pruned : storeBytes' = LessHeld(E)
      BY <2>11 DEF Create
    <3>2. E \in SUBSET DOMAIN sessions /\ Up /\ Up'
      BY <2>11 DEF Pruned, Create, Up, Running
    <3>3. storeBytes' <= storeBytes
      BY <3>1, <3>2, HeldIsNatural
    <3> QED
      BY <2>6, <2>7, <2>8, <3>2, <3>3
  <2>12. ASSUME NEW s \in Sids, RemoveSession(s) PROVE Goal
    <3>1. storeBytes' = LessHeld({s}) /\ {s} \in SUBSET DOMAIN sessions /\ Up /\ Up'
      BY <2>12 DEF RemoveSession, Up, Running
    <3>2. storeBytes' <= storeBytes
      BY <3>1, HeldIsNatural
    <3> QED
      BY <2>6, <2>7, <2>8, <3>1, <3>2
  <2>13. ASSUME NEW s \in Sids, NEW turn \in BOOLEAN, NEW n \in EventBytes,
                Offer(s, turn, n)
         PROVE  Goal
    <3>1. Up /\ Up'
      BY <2>13 DEF Offer, Running, Up
    <3>2. CASE UNCHANGED storeBytes
      BY <2>5, <2>7, <3>1, <3>2
    <3>3. CASE ~OverStore(n) /\ Record(s, turn, n)
      <4>1. storeBytes' = storeBytes + n /\ ~(storeBytes + n > MaxStoreBytes)
        BY <3>3 DEF Record, OverStore
      <4>2. n \in Nat
        BY CapsAreNatural
      <4> QED
        BY <2>2, <2>5, <2>6, <3>1, <4>1, <4>2 DEF Goal
    <3> QED
      BY <2>13, <3>2, <3>3 DEF Offer, memory
  <2>14. ASSUME NEW s, NEW f, NEW n \in FileBytes, SpoolAttachment(s, f, n) PROVE Goal
    <3>1. Up /\ Up'
      BY <2>14 DEF SpoolAttachment, Running, Up
    <3>2. storeBytes' = storeBytes + (n + ManifestBytes) /\ ~(storeBytes + n > MaxStoreBytes)
      BY <2>14 DEF SpoolAttachment, ChargeOf, OverStore
    <3>3. n \in Nat
      BY CapsAreNatural
    <3> QED
      BY <2>2, <2>5, <2>6, <3>1, <3>2, <3>3 DEF Goal
  <2>15. ASSUME NEW a \in attachments, DiscardAttachment(a) PROVE Goal
    <3>1. Up /\ Up' /\ storeBytes' = Max({0, storeBytes - ChargeOf(a)})
      BY <2>15 DEF DiscardAttachment, Running, Up
    <3>2. ChargeOf(a) \in Nat
      BY <2>2 DEF BudgetInv, Measured, ChargeOf
    <3>3. storeBytes' <= storeBytes
      BY <2>5, <3>1, <3>2, MaxOfTwo
    <3> QED
      BY <2>6, <2>7, <2>8, <3>1, <3>3
  <2>16. ASSUME NEW s, NEW stamp, SetTitle(s, stamp) PROVE Goal
    <3>1. /\ DOMAIN sessions' = DOMAIN sessions /\ UNCHANGED attachments
          /\ \A r \in DOMAIN sessions : sessions'[r].bytes = sessions[r].bytes
      BY <2>16 DEF SetTitle, CursorInv, RowInv, HasCursor
    <3> QED
      BY <2>3, <3>1
  <2>17. CASE UNCHANGED vars
    BY <2>4, <2>17 DEF vars, tables, Goal
  <2>18. CASE Open \/ MarkImported \/ Listen \/ Stop \/ NextDay
    BY <2>4, <2>18 DEF Open, MarkImported, Listen, Stop, NextDay, tables, Goal
  <2>19. ASSUME NEW s, Continue(s) \/ SeatEnds(s) \/ OfferUnknown(s) PROVE Goal
    BY <2>4, <2>19 DEF Continue, SeatEnds, OfferUnknown, tables
  <2> QED
    BY <2>9, <2>10, <2>11, <2>12, <2>13, <2>14, <2>15, <2>16, <2>17, <2>18, <2>19
       DEF Next, Boot, Goal
<1> QED
  BY <1>1, <1>2, GoneInvariant, CursorInvariant, BudgetInvariant, PTL DEF Spec

(* The ceiling is checked before the manifest is charged: without an        *)
(* imported store it is passed by one manifest, never by two.               *)
THEOREM OvershootStaysBounded == Spec => []OvershootBounded
<1>1. BudgetInv /\ CeilingInv => OvershootBounded
  BY DEF BudgetInv, CeilingInv, Stored, OvershootBounded
<1> QED
  BY <1>1, BudgetInvariant, CeilingInvariant, PTL

----------------------------------------------------------------------------
(* What is lost is counted *)

Kept(s) == {e \in Log(s) : e.nr > 0}

(* A row that does not call itself a prefix counts what it lost.           *)
CountsLoss(s) ==
  /\ sessions[s].dropped \in Nat
  /\ s \in stopped => sessions[s].truncated
  /\ ~sessions[s].truncated => offered[s] - Cardinality(Kept(s)) <= sessions[s].dropped

LossInv ==
  /\ used \subseteq Sids /\ stopped \subseteq DOMAIN sessions
  /\ offered \in [Sids -> Nat] /\ drifted \in [Sids -> Nat]
  /\ \A s \in Sids \ used : offered[s] = 0
  /\ \A s \in DOMAIN sessions : CountsLoss(s)

LEMMA LossKept ==
  ASSUME LossInv, UNCHANGED <<used, offered>>,
         \/ UNCHANGED <<stopped, drifted>>
         \/ stopped' = {} /\ drifted' = [s \in Sids |-> 0],
         DOMAIN sessions' = DOMAIN sessions, UNCHANGED events,
         \A s \in DOMAIN sessions :
           /\ sessions'[s].dropped = sessions[s].dropped
           /\ sessions[s].truncated => sessions'[s].truncated
  PROVE  LossInv'
<1>1. drifted' \in [Sids -> Nat] /\ stopped' \subseteq stopped
  BY DEF LossInv
<1>2. ASSUME NEW s \in DOMAIN sessions PROVE CountsLoss(s)'
  <2>1. Kept(s)' = Kept(s)
    BY DEF Kept, Log
  <2> QED
    BY <1>1, <2>1 DEF LossInv, CountsLoss
<1> QED
  BY <1>1, <1>2 DEF LossInv

LEMMA LossReconciled ==
  ASSUME CursorInv, LossInv, FinishOpen
  PROVE  LossInv'
<1>1. PICK unwritten \in SUBSET DOMAIN sessions :
        sessions' = [s \in DOMAIN sessions |->
                       IF s \in unwritten THEN sessions[s] ELSE Reconciled(s)]
  BY DEF FinishOpen
<1>2. ASSUME NEW s \in DOMAIN sessions
      PROVE  /\ sessions'[s].dropped = sessions[s].dropped
             /\ sessions[s].truncated => sessions'[s].truncated
  <2>1. HasCursor(sessions[s])
    BY DEF CursorInv, RowInv
  <2> DEFINE written ==
        [sessions[s] EXCEPT !.first = Min(Seqs(s)), !.last = Max(Seqs(s)),
                            !.bytes = Bytes(Log(s)),
                            !.truncated = sessions[s].truncated \/ EndsMidTurn(s),
                            !.midTurn = EndsMidTurn(s)]
  <2>2. \/ Reconciled(s) = Emptied(s) \/ Reconciled(s) = written
        \/ Reconciled(s) = sessions[s]
    BY DEF Reconciled
  <2>3. Emptied(s).dropped = sessions[s].dropped /\ Emptied(s).truncated = TRUE
    BY <2>1 DEF HasCursor, Emptied
  <2>4. /\ written.dropped = sessions[s].dropped
        /\ written.truncated = (sessions[s].truncated \/ EndsMidTurn(s))
    BY <2>1 DEF HasCursor
  <2> HIDE DEF written
  <2> QED
    BY <1>1, <2>2, <2>3, <2>4
<1>3. DOMAIN sessions' = DOMAIN sessions
  BY <1>1
<1>4. UNCHANGED <<used, offered, stopped, drifted, events>>
  BY DEF FinishOpen, world
<1> QED
  BY <1>2, <1>3, <1>4, LossKept

(* What is deleted takes its marks with it.                                *)
LEMMA LossDeleted ==
  ASSUME LossInv, NEW gone, Cascade(gone), NEW s \in DOMAIN sessions \ gone,
         UNCHANGED offered, sessions'[s] = sessions[s]
  PROVE  CountsLoss(s)'
<1>1. Kept(s)' = Kept(s)
  BY DEF Kept, Log, Cascade
<1> QED
  BY <1>1 DEF LossInv, CountsLoss, Cascade

LEMMA NothingKept ==
  ASSUME NEW s, Kept(s) = {}
  PROVE  Cardinality(Kept(s)) = 0
  BY FS_EmptySet

LEMMA LossCreated ==
  ASSUME GoneInv, CursorInv, LossInv, NEW s \in Sids, Create(s)
  PROVE  LossInv'
<1>1. PICK E \in Pruned :
        /\ Cascade(E)
        /\ \/ /\ sessions' = With(Without(sessions, E), s, NewRow)
              /\ used' = used \cup {s}
           \/ /\ sessions' = Without(sessions, E)
              /\ used' = used
  BY DEF Create
<1>2. s \notin used /\ s \notin DOMAIN sessions /\ UNCHANGED <<drifted, offered>>
  BY DEF Create, GoneInv
<1>3. stopped' = stopped \ E
  BY <1>1 DEF Cascade
<1>4. ASSUME NEW r \in DOMAIN sessions', r # s \/ sessions' = Without(sessions, E)
      PROVE  CountsLoss(r)'
  <2>1. r \in DOMAIN sessions \ E /\ sessions'[r] = sessions[r]
    BY <1>1, <1>4 DEF With, Without
  <2> QED
    BY <1>1, <1>2, <2>1, LossDeleted
<1>5. ASSUME sessions' = With(Without(sessions, E), s, NewRow)
      PROVE  CountsLoss(s)'
  <2>1. sessions'[s].dropped = 0 /\ sessions'[s].truncated = FALSE
    BY <1>5 DEF With, NewRow
  <2>2. Kept(s)' = {}
    BY <1>1, <1>2 DEF Kept, Log, Cascade, CursorInv
  <2>3. Cardinality(Kept(s)') = 0
    BY <2>2, FS_EmptySet
  <2>4. offered'[s] = 0 /\ s \notin stopped'
    BY <1>2, <1>3 DEF LossInv
  <2> QED
    BY <2>1, <2>3, <2>4 DEF CountsLoss
<1>6. stopped' \subseteq DOMAIN sessions'
  BY <1>1, <1>3 DEF LossInv, With, Without
<1>7. \A r \in DOMAIN sessions' : CountsLoss(r)'
  BY <1>1, <1>4, <1>5
<1> QED
  BY <1>1, <1>2, <1>6, <1>7 DEF LossInv

LEMMA LossRemoved ==
  ASSUME LossInv, NEW s \in Sids, RemoveSession(s)
  PROVE  LossInv'
<1>1. /\ Cascade({s}) /\ sessions' = Without(sessions, {s})
      /\ drifted' = [drifted EXCEPT ![s] = 0] /\ UNCHANGED <<used, offered>>
  BY DEF RemoveSession, world
<1>2. /\ DOMAIN sessions' = DOMAIN sessions \ {s}
      /\ \A r \in DOMAIN sessions' : sessions'[r] = sessions[r]
  BY <1>1 DEF Without
<1>3. \A r \in DOMAIN sessions' : CountsLoss(r)'
  BY <1>1, <1>2, LossDeleted
<1> QED
  BY <1>1, <1>2, <1>3 DEF LossInv, Cascade

LEMMA LossImported ==
  ASSUME GoneInv, CursorInv, LossInv, NEW s \in Sids, ImportSession(s)
  PROVE  LossInv'
<1>1. s \in DOMAIN Legacy /\ ~imported /\ UNCHANGED <<offered, stopped, drifted>>
  BY DEF ImportSession, ImportDue, memory
<1>2. CASE UNCHANGED <<sessions, events, used>>
  BY <1>1, <1>2, LossKept
<1>3. CASE /\ s \notin DOMAIN sessions /\ sessions' = With(sessions, s, ImportedRow(s))
           /\ events' = events \cup ImportedLog(s) /\ used' = used \cup {s}
  <2>1. /\ DOMAIN sessions' = DOMAIN sessions \cup {s}
        /\ sessions'[s].dropped = Legacy[s].skipped
        /\ \A r \in DOMAIN sessions : sessions'[r] = sessions[r]
    BY <1>3 DEF With, ImportedRow
  <2>2. s \notin used
    BY <1>1, <1>3 DEF GoneInv, NothingGoneBeforeImport
  <2>3. Kept(s)' = {}
    BY <1>3 DEF Kept, Log, ImportedLog, CursorInv
  <2>4. Cardinality(Kept(s)') = 0
    BY <2>3, FS_EmptySet
  <2>5. CountsLoss(s)'
    <3>1. offered'[s] = 0 /\ s \notin stopped' /\ Legacy[s].skipped \in Nat
      BY <1>1, <1>3, <2>2, LegacyIsStored DEF LossInv
    <3> QED
      BY <2>1, <2>4, <3>1 DEF CountsLoss
  <2>6. ASSUME NEW r \in DOMAIN sessions PROVE CountsLoss(r)'
    <3>1. r # s
      BY <1>3
    <3>2. Kept(r)' = Kept(r)
      BY <1>3, <3>1 DEF Kept, Log, ImportedLog
    <3> QED
      BY <1>1, <2>1, <3>2 DEF LossInv, CountsLoss
  <2> QED
    BY <1>1, <1>3, <2>1, <2>5, <2>6 DEF LossInv
<1> QED
  BY <1>2, <1>3 DEF ImportSession

(* An event that is offered is recorded, counted, or the end of a prefix.  *)
LEMMA LossOffered ==
  ASSUME MarksFail = FALSE, GoneInv, CursorInv, BudgetInv, LossInv, NEW s \in Sids,
         NEW turn, NEW n, Offer(s, turn, n)
  PROVE  LossInv'
<1>1. /\ s \in DOMAIN sessions /\ UNCHANGED used
      /\ offered' = [offered EXCEPT ![s] = @ + 1]
  BY DEF Offer
<1>2. HasCursor(sessions[s]) /\ sessions[s].dropped \in Nat
  BY <1>1 DEF CursorInv, RowInv, LossInv, CountsLoss
<1>3. /\ offered' \in [Sids -> Nat] /\ offered'[s] = offered[s] + 1
      /\ \A r \in Sids \ {s} : offered'[r] = offered[r]
      /\ offered[s] \in Nat
  BY <1>1 DEF LossInv
<1>4. DOMAIN sessions' = DOMAIN sessions
  BY OfferKeepsRows
<1>5. IsFiniteSet(Kept(s)) /\ Cardinality(Kept(s)) \in Nat
  BY FS_Subset, FS_CardinalityType DEF BudgetInv, Sized, Kept, Log
<1>6. /\ drifted' \in [Sids -> Nat] /\ stopped' \subseteq DOMAIN sessions'
      /\ stopped' \ {s} = stopped \ {s}
      /\ \A r \in DOMAIN sessions \ {s} :
           sessions'[r] = sessions[r] /\ Kept(r)' = Kept(r)
      /\ CountsLoss(s)'
  <2>0. CASE s \in stopped
    <3>1. UNCHANGED <<sessions, events, stopped, drifted>>
      BY <2>0 DEF Offer, memory
    <3>2. \A r : Kept(r)' = Kept(r)
      BY <3>1 DEF Kept, Log
    <3> QED
      BY <1>1, <2>0, <3>1, <3>2 DEF LossInv, CountsLoss
  <2>1. CASE s \notin stopped /\ NoteDropped(s) /\ UNCHANGED <<events, stopped>>
    <3>1. /\ sessions' = [sessions EXCEPT ![s].dropped = @ + 1]
          /\ drifted' = [drifted EXCEPT ![s] = @ + 1]
      BY <2>1 DEF NoteDropped
    <3>2. /\ sessions'[s].dropped = sessions[s].dropped + 1
          /\ sessions'[s].truncated = sessions[s].truncated
          /\ \A r \in DOMAIN sessions \ {s} : sessions'[r] = sessions[r]
      BY <1>1, <1>2, <3>1 DEF HasCursor
    <3>3. \A r : Kept(r)' = Kept(r)
      BY <2>1 DEF Kept, Log
    <3>4. drifted' \in [Sids -> Nat]
      BY <3>1 DEF LossInv
    <3>5. CountsLoss(s)'
      BY <1>1, <1>2, <1>3, <1>5, <2>1, <3>2, <3>3 DEF LossInv, CountsLoss
    <3> QED
      BY <1>4, <2>1, <3>2, <3>3, <3>4, <3>5 DEF LossInv
  <2>2. CASE s \notin stopped /\ StopWriter(s) /\ UNCHANGED <<events, drifted>>
    <3>1. /\ sessions' = [sessions EXCEPT ![s].truncated = TRUE]
          /\ stopped' = stopped \cup {s}
      BY <2>2 DEF StopWriter, SetTruncated
    <3>2. /\ sessions'[s].dropped = sessions[s].dropped
          /\ sessions'[s].truncated = TRUE
          /\ \A r \in DOMAIN sessions \ {s} : sessions'[r] = sessions[r]
      BY <1>1, <1>2, <3>1 DEF HasCursor
    <3>3. \A r : Kept(r)' = Kept(r)
      BY <2>2 DEF Kept, Log
    <3> QED
      BY <1>1, <1>2, <1>4, <2>2, <3>1, <3>2, <3>3 DEF LossInv, CountsLoss
  <2>3. CASE /\ s \notin stopped /\ ~SeqTaken(s) /\ Record(s, turn, n)
             /\ UNCHANGED <<stopped, drifted>>
    <3> DEFINE e == [sid |-> s, seq |-> NextSeq(s), nr |-> offered[s] + 1,
                     turn |-> turn, bytes |-> n]
    <3>1. /\ events' = events \cup {e}
          /\ sessions'[s].dropped = sessions[s].dropped
          /\ sessions'[s].truncated = sessions[s].truncated
          /\ \A r \in DOMAIN sessions \ {s} : sessions'[r] = sessions[r]
      BY <1>1, <1>2, <2>3 DEF Record, HasCursor
    <3>2. e \notin events
      BY <2>3 DEF SeqTaken, Seqs, Log
    <3>3. Kept(s)' = Kept(s) \cup {e} /\ e \notin Kept(s)
      BY <1>3, <3>1, <3>2 DEF Kept, Log
    <3>4. \A r \in DOMAIN sessions \ {s} : Kept(r)' = Kept(r)
      BY <3>1 DEF Kept, Log
    <3> HIDE DEF e
    <3>5. Cardinality(Kept(s)') = Cardinality(Kept(s)) + 1
      BY <1>5, <3>3, FS_AddElement
    <3>6. CountsLoss(s)'
      BY <1>1, <1>2, <1>3, <1>5, <2>3, <3>1, <3>5 DEF LossInv, CountsLoss
    <3> QED
      BY <1>4, <2>3, <3>1, <3>4, <3>6 DEF LossInv
  <2> QED
    BY <2>0, <2>1, <2>2, <2>3 DEF Offer
<1>7. ASSUME NEW r \in DOMAIN sessions \ {s} PROVE CountsLoss(r)'
  <2>1. offered'[r] = offered[r]
    BY <1>1, <1>3 DEF LossInv
  <2> QED
    BY <1>6, <2>1 DEF LossInv, CountsLoss
<1>8. \A r \in Sids \ used' : offered'[r] = 0
  BY <1>1, <1>3 DEF LossInv, GoneInv
<1>9. \A r \in DOMAIN sessions' : CountsLoss(r)'
  BY <1>4, <1>6, <1>7
<1> QED
  BY <1>1, <1>3, <1>6, <1>8, <1>9 DEF LossInv

LEMMA LossInvariant ==
  ASSUME MarksFail = FALSE
  PROVE  Spec => []LossInv
<1>1. Init => LossInv
  BY DEF Init, LossInv, Nothing
<1>2. GoneInv /\ CursorInv /\ BudgetInv /\ LossInv /\ [Next]_vars => LossInv'
  <2> SUFFICES ASSUME GoneInv, CursorInv, BudgetInv, LossInv, [Next]_vars PROVE LossInv'
    OBVIOUS
  <2>1. UNCHANGED <<sessions, events, stopped, drifted, used, offered>> => LossInv'
    BY LossKept
  <2>2. CASE Stop
    BY <2>2, LossKept DEF Stop, tables
  <2>3. CASE Open \/ MarkImported \/ Listen \/ NextDay
    BY <2>1, <2>3 DEF Open, MarkImported, Listen, NextDay, tables, memory, world
  <2>4. ASSUME NEW s, Continue(s) \/ SeatEnds(s) \/ OfferUnknown(s) PROVE LossInv'
    BY <2>1, <2>4 DEF Continue, SeatEnds, OfferUnknown, tables, memory
  <2>5. ASSUME NEW s, NEW f, NEW n, SpoolAttachment(s, f, n) PROVE LossInv'
    BY <2>1, <2>5 DEF SpoolAttachment, world
  <2>6. ASSUME NEW a, DiscardAttachment(a) PROVE LossInv'
    BY <2>1, <2>6 DEF DiscardAttachment, world
  <2>7. ASSUME NEW s, NEW stamp, SetTitle(s, stamp) PROVE LossInv'
    <3>1. /\ UNCHANGED <<events, stopped, drifted, used, offered>>
          /\ DOMAIN sessions' = DOMAIN sessions
      BY <2>7 DEF SetTitle, memory, world
    <3>2. ASSUME NEW r \in DOMAIN sessions
          PROVE  /\ sessions'[r].dropped = sessions[r].dropped
                 /\ sessions'[r].truncated = sessions[r].truncated
      BY <2>7 DEF SetTitle, CursorInv, RowInv, HasCursor
    <3> QED
      BY <3>1, <3>2, LossKept
  <2>8. CASE UNCHANGED vars
    BY <2>1, <2>8 DEF vars, tables, memory, world
  <2> QED
    BY <2>2, <2>3, <2>4, <2>5, <2>6, <2>7, <2>8, LossReconciled, LossCreated,
       LossRemoved, LossImported, LossOffered DEF Next, Boot
<1> QED
  BY <1>1, <1>2, GoneInvariant, CursorInvariant, BudgetInvariant, PTL DEF Spec

(* While the marks themselves can be written, a transcript that is not      *)
(* marked as a prefix owns up to every event noteDropped let go.            *)
THEOREM LossStaysCounted ==
  ASSUME MarksFail = FALSE
  PROVE  Spec => []LossIsCounted
<1>1. GoneInv /\ LossInv /\ BudgetInv => LossIsCounted
  <2> SUFFICES ASSUME GoneInv, LossInv, BudgetInv, NEW s \in DOMAIN sessions,
                      ~sessions[s].truncated
               PROVE  Lost(s) <= Max({drifted[s], sessions[s].dropped})
    BY DEF LossIsCounted
  <2>1. /\ s \in Sids /\ drifted[s] \in Nat /\ sessions[s].dropped \in Nat
        /\ offered[s] \in Nat
        /\ offered[s] - Cardinality(Kept(s)) <= sessions[s].dropped
    BY DEF GoneInv, LossInv, CountsLoss
  <2>2. Cardinality(Kept(s)) \in Nat
    BY FS_Subset, FS_CardinalityType DEF BudgetInv, Sized, Kept, Log
  <2>3. Lost(s) = offered[s] - Cardinality(Kept(s))
    BY DEF Lost, Kept
  <2>4. /\ Max({drifted[s], sessions[s].dropped}) \in Nat
        /\ sessions[s].dropped <= Max({drifted[s], sessions[s].dropped})
    BY <2>1, MaxOfTwo
  <2> QED
    BY <2>1, <2>2, <2>3, <2>4
<1> QED
  BY <1>1, GoneInvariant, LossInvariant, BudgetInvariant, PTL

----------------------------------------------------------------------------
(* What eviction takes *)

LEMMA OneOfTwo ==
  ASSUME NEW a \in Int, NEW b \in Int
  PROVE  Min({a, b}) = IF a <= b THEN a ELSE b
BY DEF Min

(* A row is last used on a day of the clock. *)
StampInv ==
  /\ day \in Nat
  /\ \A s \in DOMAIN sessions : sessions[s].stamp \in Nat

LEMMA StampKept ==
  ASSUME StampInv, UNCHANGED day, DOMAIN sessions' \subseteq DOMAIN sessions,
         \A s \in DOMAIN sessions' : sessions'[s].stamp = sessions[s].stamp
  PROVE  StampInv'
  BY DEF StampInv

LEMMA StampInvariant == Spec => []StampInv
<1>1. Init => StampInv
  BY DEF Init, StampInv, Nothing
<1>2. CursorInv /\ StampInv /\ [Next]_vars => StampInv'
  <2> SUFFICES ASSUME CursorInv, StampInv, [Next]_vars PROVE StampInv'
    OBVIOUS
  <2>1. UNCHANGED <<sessions, day>> => StampInv'
    BY StampKept
  <2>2. CASE Open \/ MarkImported \/ Listen \/ Stop
    BY <2>1, <2>2 DEF Open, MarkImported, Listen, Stop, tables, world
  <2>3. CASE NextDay
    BY <2>3 DEF NextDay, tables, StampInv
  <2>4. CASE FinishOpen
    <3>1. PICK unwritten \in SUBSET DOMAIN sessions :
            sessions' = [s \in DOMAIN sessions |->
                           IF s \in unwritten THEN sessions[s] ELSE Reconciled(s)]
      BY <2>4 DEF FinishOpen
    <3>2. ASSUME NEW s \in DOMAIN sessions PROVE Reconciled(s).stamp = sessions[s].stamp
      <4>1. HasCursor(sessions[s])
        BY DEF CursorInv, RowInv
      <4> DEFINE written ==
            [sessions[s] EXCEPT !.first = Min(Seqs(s)), !.last = Max(Seqs(s)),
                                !.bytes = Bytes(Log(s)),
                                !.truncated = sessions[s].truncated \/ EndsMidTurn(s),
                                !.midTurn = EndsMidTurn(s)]
      <4>2. Emptied(s).stamp = sessions[s].stamp /\ written.stamp = sessions[s].stamp
        BY <4>1 DEF HasCursor, Emptied
      <4>3. \/ Reconciled(s) = Emptied(s) \/ Reconciled(s) = written
            \/ Reconciled(s) = sessions[s]
        BY DEF Reconciled
      <4> HIDE DEF written
      <4> QED
        BY <4>2, <4>3
    <3> QED
      BY <2>4, <3>1, <3>2, StampKept DEF FinishOpen, world
  <2>5. ASSUME NEW s \in Sids, ImportSession(s) PROVE StampInv'
    <3>1. s \in DOMAIN Legacy /\ UNCHANGED day
      BY <2>5 DEF ImportSession
    <3>2. Legacy[s].stamp \in Nat
      BY <3>1, LegacyIsStored, CapsAreNatural
    <3>3. CASE UNCHANGED sessions
      BY <2>1, <3>1, <3>3
    <3>4. CASE sessions' = With(sessions, s, ImportedRow(s))
      BY <3>1, <3>2, <3>4 DEF StampInv, With, ImportedRow
    <3> QED
      BY <2>5, <3>3, <3>4 DEF ImportSession
  <2>6. ASSUME NEW s \in Sids, Create(s) PROVE StampInv'
    <3>1. PICK E \in Pruned :
            \/ sessions' = With(Without(sessions, E), s, NewRow)
            \/ sessions' = Without(sessions, E)
      BY <2>6 DEF Create
    <3>2. UNCHANGED day
      BY <2>6 DEF Create
    <3>3. Without(sessions, E) = [r \in DOMAIN sessions \ E |-> sessions[r]]
      BY DEF Without
    <3>4. ASSUME NEW r \in DOMAIN sessions' PROVE sessions'[r].stamp \in Nat
      <4>1. CASE sessions' = Without(sessions, E)
        BY <3>3, <4>1 DEF StampInv
      <4>2. CASE sessions' = With(Without(sessions, E), s, NewRow)
        <5>1. \/ r = s /\ sessions'[r] = NewRow
              \/ r \in DOMAIN sessions \ E /\ sessions'[r] = sessions[r]
          BY <3>3, <4>2 DEF With
        <5>2. NewRow.stamp = day
          BY DEF NewRow
        <5> QED
          BY <5>1, <5>2 DEF StampInv
      <4> QED
        BY <3>1, <4>1, <4>2
    <3> QED
      BY <3>2, <3>4 DEF StampInv
  <2>7. ASSUME NEW s, Continue(s) \/ SeatEnds(s) \/ OfferUnknown(s) PROVE StampInv'
    BY <2>1, <2>7 DEF Continue, SeatEnds, OfferUnknown, tables
  <2>8. ASSUME NEW s, RemoveSession(s) PROVE StampInv'
    BY <2>8 DEF RemoveSession, world, StampInv, Without
  <2>9. ASSUME NEW s \in Sids, NEW turn, NEW n, Offer(s, turn, n) PROVE StampInv'
    <3>0. DOMAIN sessions' = DOMAIN sessions
      BY <2>9, OfferKeepsRows
    <3>1. UNCHANGED day /\ DOMAIN sessions' = DOMAIN sessions /\ s \in DOMAIN sessions
      BY <2>9, <3>0 DEF Offer
    <3>2. HasCursor(sessions[s])
      BY <3>1 DEF CursorInv, RowInv
    <3>3. \/ UNCHANGED sessions \/ NoteDropped(s) \/ SetTruncated(s) \/ Record(s, turn, n)
      BY <2>9 DEF Offer, StopWriter
    <3>4. ASSUME NEW r \in DOMAIN sessions
          PROVE  sessions'[r].stamp = sessions[r].stamp \/ sessions'[r].stamp = day
      BY <3>1, <3>2, <3>3 DEF NoteDropped, SetTruncated, Record, HasCursor
    <3> QED
      BY <3>1, <3>4 DEF StampInv
  <2>10. ASSUME NEW s, NEW stamp \in 0..MaxDay, SetTitle(s, stamp) PROVE StampInv'
    <3>1. s \in DOMAIN sessions /\ UNCHANGED day /\ DOMAIN sessions' = DOMAIN sessions
      BY <2>10 DEF SetTitle, world
    <3>2. HasCursor(sessions[s])
      BY <3>1 DEF CursorInv, RowInv
    <3>3. \A r \in DOMAIN sessions :
            sessions'[r].stamp = sessions[r].stamp \/ sessions'[r].stamp = stamp
      BY <2>10, <3>2 DEF SetTitle, HasCursor
    <3>4. stamp \in Nat
      BY CapsAreNatural
    <3> QED
      BY <3>1, <3>3, <3>4 DEF StampInv
  <2>11. ASSUME NEW s, NEW f, NEW n, SpoolAttachment(s, f, n) PROVE StampInv'
    BY <2>1, <2>11 DEF SpoolAttachment, world
  <2>12. ASSUME NEW a, DiscardAttachment(a) PROVE StampInv'
    BY <2>1, <2>12 DEF DiscardAttachment, world
  <2>13. CASE UNCHANGED vars
    BY <2>1, <2>13 DEF vars, tables, world
  <2> QED
    BY <2>2, <2>3, <2>4, <2>5, <2>6, <2>7, <2>8, <2>9, <2>10, <2>11, <2>12, <2>13
       DEF Next, Boot
<1> QED
  BY <1>1, <1>2, CursorInvariant, PTL DEF Spec

(* The oldest that may go; and one that is not idle only to make room.     *)
LEMMA PrunedForCause ==
  ASSUME StampInv, IsFiniteSet(DOMAIN sessions), NEW E \in Pruned, NEW s \in E
  PROVE  /\ s \in DOMAIN sessions
         /\ \A r \in DOMAIN sessions \ E : r \in Pinned \/ sessions[s].stamp <= sessions[r].stamp
         /\ Idle(s) \/ Cardinality(DOMAIN sessions \ E) + 1 >= MaxSessions
<1> DEFINE can  == DOMAIN sessions \ Pinned
           over == Cardinality(DOMAIN sessions) + 1 - MaxSessions
           room == Max({0, over})
           idle == {r \in can : Idle(r)}
<1>1. /\ E \subseteq can /\ can \subseteq DOMAIN sessions /\ idle \subseteq can
      /\ \A t \in E, r \in can \ E : sessions[t].stamp <= sessions[r].stamp
      /\ Cardinality(E) = Max({Cardinality(idle), Min({Cardinality(can), room})})
  BY DEF Pruned
<1>2. /\ \A r \in idle : Idle(r)
      /\ \A r \in can : Idle(r) => r \in idle
      /\ \A r \in DOMAIN sessions : r \in Pinned \/ r \in can
  OBVIOUS
<1> HIDE DEF can, idle
<1>3. IsFiniteSet(can) /\ IsFiniteSet(idle) /\ IsFiniteSet(E)
  BY <1>1, FS_Subset
<1>4. /\ Cardinality(can) \in Nat /\ Cardinality(idle) \in Nat /\ Cardinality(E) \in Nat
      /\ Cardinality(DOMAIN sessions) \in Nat
  BY <1>3, FS_CardinalityType
<1>5. over \in Int /\ room \in Nat /\ room = IF over <= 0 THEN 0 ELSE over
  <2>1. over \in Int
    BY <1>4, CapsAreNatural
  <2> HIDE DEF over
  <2> QED
    BY <2>1, MaxOfTwo
<1>6. Idle(s) \/ Cardinality(DOMAIN sessions \ E) + 1 >= MaxSessions
  <2> SUFFICES ASSUME ~Idle(s) PROVE Cardinality(DOMAIN sessions \ E) + 1 >= MaxSessions
    OBVIOUS
  <2>1. idle \subseteq E
    <3> SUFFICES ASSUME NEW r \in idle, r \notin E PROVE FALSE
      OBVIOUS
    <3>1. sessions[s].stamp <= sessions[r].stamp
      BY <1>1
    <3>2. /\ sessions[s].stamp \in Nat /\ sessions[r].stamp \in Nat /\ day \in Nat
          /\ IdleEvict \in Nat
      BY <1>1, CapsAreNatural DEF StampInv
    <3>3. day - sessions[r].stamp > IdleEvict
      BY <1>2 DEF Idle
    <3>4. day - sessions[s].stamp > IdleEvict
      BY <3>1, <3>2, <3>3
    <3> QED
      BY <3>4 DEF Idle
  <2>2. s \notin idle
    BY <1>2
  <2>3. Cardinality(idle) < Cardinality(E)
    <3>1. Cardinality(idle) <= Cardinality(E) /\ (Cardinality(idle) = Cardinality(E) => idle = E)
      BY <1>3, <2>1, FS_Subset
    <3> QED
      BY <1>4, <2>2, <3>1
  <2>4. Cardinality(E) <= room /\ room > 0
    <3> HIDE DEF room
    <3>1. Min({Cardinality(can), room}) \in Nat /\ Min({Cardinality(can), room}) <= room
      BY <1>4, <1>5, OneOfTwo
    <3>2. Cardinality(E) = Min({Cardinality(can), room})
      <4> DEFINE m == Min({Cardinality(can), room})
                 i == Cardinality(idle)
      <4>1. m \in Nat /\ i \in Nat /\ Cardinality(E) = Max({i, m}) /\ i < Cardinality(E)
        BY <1>1, <1>4, <2>3, <3>1
      <4> HIDE DEF m, i
      <4>2. Max({i, m}) = IF i <= m THEN m ELSE i
        BY <4>1, MaxOfTwo
      <4> QED
        BY <4>1, <4>2 DEF m
    <3> QED
      BY <1>4, <1>5, <2>3, <3>1, <3>2
  <2>5. Cardinality(E) <= Cardinality(DOMAIN sessions) + 1 - MaxSessions
    BY <1>4, <1>5, <2>4
  <2>6. Cardinality(DOMAIN sessions \ E) = Cardinality(DOMAIN sessions) - Cardinality(E)
    <3>1. DOMAIN sessions \cap E = E
      BY <1>1
    <3> QED
      BY <3>1, FS_Difference
  <2> QED
    BY <1>4, <2>5, <2>6, CapsAreNatural
<1> QED
  BY <1>1, <1>2, <1>6

(* evict() deletes nothing while an older session that may go stays, and    *)
(* nothing that is not idle unless the cap asks for room.                   *)
THEOREM EvictionTakesTheOldest == Spec => EvictsOldestForCause
<1>1. BudgetInv /\ StampInv /\ GoneInv /\ [Next]_vars => EvictionHasACause
  <2> SUFFICES ASSUME BudgetInv, StampInv, GoneInv, [Next]_vars PROVE EvictionHasACause
    OBVIOUS
  <2>1. DOMAIN sessions \subseteq DOMAIN sessions' => EvictionHasACause
    BY DEF EvictionHasACause
  <2>2. ASSUME NEW s \in Sids, Create(s) PROVE EvictionHasACause
    <3>1. PICK E \in Pruned :
            \/ sessions' = With(Without(sessions, E), s, NewRow)
            \/ sessions' = Without(sessions, E)
      BY <2>2 DEF Create
    <3>2. s \notin DOMAIN sessions
      BY <2>2 DEF Create, GoneInv
    <3>3. /\ DOMAIN sessions \cap DOMAIN sessions' = DOMAIN sessions \ E
          /\ DOMAIN sessions \ DOMAIN sessions' \subseteq E
      BY <3>1, <3>2 DEF With, Without
    <3> QED
      BY <3>3, PrunedForCause DEF EvictionHasACause, BudgetInv, Weighed
  <2>3. ASSUME NEW s, RemoveSession(s) PROVE EvictionHasACause
    BY <2>3 DEF EvictionHasACause, RemoveSession, Without
  <2>4. ASSUME NEW s \in Sids, ImportSession(s) PROVE EvictionHasACause
    BY <2>1, <2>4 DEF ImportSession, With
  <2>5. ASSUME NEW s \in Sids, NEW turn, NEW n, Offer(s, turn, n) PROVE EvictionHasACause
    BY <2>1, <2>5, OfferKeepsRows
  <2>6. CASE FinishOpen
    BY <2>1, <2>6 DEF FinishOpen
  <2>7. ASSUME NEW s, NEW stamp, SetTitle(s, stamp) PROVE EvictionHasACause
    BY <2>1, <2>7 DEF SetTitle
  <2>8. UNCHANGED sessions => EvictionHasACause
    BY <2>1
  <2>9. CASE UNCHANGED vars
    BY <2>8, <2>9 DEF vars, tables
  <2> QED
    BY <2>2, <2>3, <2>4, <2>5, <2>6, <2>7, <2>8, <2>9
       DEF Next, Boot, Open, MarkImported, Listen, Stop, NextDay, Continue, SeatEnds,
           OfferUnknown, SpoolAttachment, DiscardAttachment, tables
<1> QED
  BY <1>1, BudgetInvariant, StampInvariant, GoneInvariant, PTL DEF Spec, EvictsOldestForCause

----------------------------------------------------------------------------
(* The pins *)

Distinct(q) == \A i, j \in DOMAIN q : q[i] = q[j] => i = j

(* Dropping pins keeps the others, once each.                              *)
LEMMA PinsThatStay ==
  ASSUME NEW X, live \in Seq(X), NEW gone
  PROVE  /\ PinsWithout(gone) \in Seq(X)
         /\ Range(PinsWithout(gone)) = Range(live) \ gone
         /\ Len(PinsWithout(gone)) <= Len(live)
         /\ Distinct(live) => Distinct(PinsWithout(gone))
<1> DEFINE kept == {i \in DOMAIN live : live[i] \notin gone}
           n == Cardinality(kept)
           upto(i) == {k \in kept : k <= i}
           rank == [i \in kept |-> Cardinality(upto(i))]
           At(j) == CHOOSE i \in kept : Cardinality(upto(i)) = j
           q == [j \in 1..n |-> live[At(j)]]
<1>1. DOMAIN live = 1..Len(live) /\ Len(live) \in Nat
  OBVIOUS
<1>2. /\ IsFiniteSet(1..Len(live)) /\ Cardinality(1..Len(live)) = Len(live)
  BY <1>1, FS_Interval
<1>3. /\ kept \subseteq 1..Len(live) /\ IsFiniteSet(kept) /\ n \in Nat /\ n <= Len(live)
  <2>1. kept \subseteq 1..Len(live)
    BY <1>1
  <2> HIDE DEF kept
  <2> QED
    BY <1>2, <2>1, FS_Subset, FS_CardinalityType
<1>4. PinsWithout(gone) = q
  BY DEF PinsWithout
<1>5. ASSUME NEW i \in kept
      PROVE  /\ i \in upto(i) /\ upto(i) \subseteq kept /\ IsFiniteSet(upto(i))
             /\ rank[i] = Cardinality(upto(i)) /\ rank[i] \in 1..n
  <2>1. i \in upto(i) /\ upto(i) \subseteq kept
    BY <1>1, <1>3
  <2> HIDE DEF kept, upto
  <2>2. IsFiniteSet(upto(i)) /\ Cardinality(upto(i)) <= n /\ Cardinality(upto(i)) \in Nat
    BY <1>3, <2>1, FS_Subset, FS_CardinalityType
  <2>3. Cardinality(upto(i)) # 0
    BY <2>1, <2>2, FS_EmptySet
  <2> QED
    BY <1>3, <2>1, <2>2, <2>3
<1>6. ASSUME NEW i \in kept, NEW j \in kept, i < j
      PROVE  rank[i] < rank[j]
  <2>1. upto(i) \subseteq upto(j) /\ j \notin upto(i)
    BY <1>3, <1>6
  <2>2. j \in upto(j)
    BY <1>5
  <2> HIDE DEF kept, upto, rank
  <2>3. /\ Cardinality(upto(i)) <= Cardinality(upto(j))
        /\ Cardinality(upto(i)) = Cardinality(upto(j)) => upto(i) = upto(j)
    BY <1>5, <2>1, FS_Subset
  <2>4. rank[i] \in 1..n /\ rank[j] \in 1..n
    BY <1>5
  <2> QED
    BY <1>3, <1>5, <2>1, <2>2, <2>3, <2>4
<1>7. \A i, j \in kept : rank[i] = rank[j] => i = j
  <2> SUFFICES ASSUME NEW i \in kept, NEW j \in kept, rank[i] = rank[j] PROVE i = j
    OBVIOUS
  <2>1. i \in Nat /\ j \in Nat
    BY <1>3
  <2>2. rank[i] \in Nat /\ rank[j] \in Nat
    <3>1. rank[i] \in 1..n /\ rank[j] \in 1..n
      BY <1>5
    <3> HIDE DEF rank, n
    <3> QED
      BY <1>3, <3>1
  <2> HIDE DEF kept, rank
  <2> QED
    BY <1>6, <2>1, <2>2
<1>8. rank \in Injection(kept, 1..n)
  <2>1. rank = [i \in kept |-> rank[i]]
    OBVIOUS
  <2>2. rank \in [kept -> 1..n]
    <3>1. \A i \in kept : rank[i] \in 1..n
      BY <1>5
    <3> HIDE DEF kept, n, upto, rank
    <3> QED
      BY <2>1, <3>1
  <2> HIDE DEF kept, n, upto, rank
  <2> QED
    BY <1>7, <2>2 DEF Injection, IsInjective
<1>9. \A j \in 1..n : \E i \in kept : rank[i] = j
  <2>1. IsFiniteSet(1..n) /\ Cardinality(1..n) = n
    BY <1>3, FS_Interval
  <2> HIDE DEF upto, rank, kept
  <2>2. rank \in Surjection(kept, 1..n)
    BY <1>3, <1>8, <2>1, FS_Injection
  <2> QED
    BY <2>2 DEF Surjection
<1>10. ASSUME NEW j \in 1..n PROVE At(j) \in kept /\ rank[At(j)] = j
  <2>1. \E i \in kept : Cardinality(upto(i)) = j
    BY <1>5, <1>9
  <2>2. At(j) \in kept /\ Cardinality(upto(At(j))) = j
    <3> HIDE DEF kept, upto
    <3> QED
      BY <2>1
  <2> QED
    BY <1>5, <2>2
<1>11. ASSUME NEW i \in kept PROVE At(rank[i]) = i
  <2>1. rank[i] \in 1..n
    BY <1>5
  <2>2. At(rank[i]) \in kept /\ rank[At(rank[i])] = rank[i]
    BY <1>10, <2>1
  <2> HIDE DEF At, rank, kept
  <2> QED
    BY <1>7, <2>2
<1>12. \A j \in 1..n : live[At(j)] \in X /\ live[At(j)] \notin gone /\ At(j) \in DOMAIN live
  <2>1. \A i \in kept : live[i] \in X /\ live[i] \notin gone /\ i \in DOMAIN live
    OBVIOUS
  <2>2. \A j \in 1..n : At(j) \in kept
    BY <1>10
  <2> HIDE DEF kept, At, n
  <2> QED
    BY <2>1, <2>2
<1>13. \A i \in DOMAIN live : live[i] \notin gone => \E j \in 1..n : At(j) = i
  <2> SUFFICES ASSUME NEW i \in DOMAIN live, live[i] \notin gone
               PROVE  \E j \in 1..n : At(j) = i
    OBVIOUS
  <2>1. i \in kept
    OBVIOUS
  <2>2. rank[i] \in 1..n /\ At(rank[i]) = i
    BY <1>5, <1>11, <2>1
  <2> HIDE DEF rank, At, n
  <2> QED
    BY <2>2
<1>14. \A i, j \in 1..n : At(i) = At(j) => i = j
  <2> SUFFICES ASSUME NEW i \in 1..n, NEW j \in 1..n, At(i) = At(j) PROVE i = j
    OBVIOUS
  <2>1. rank[At(i)] = i /\ rank[At(j)] = j
    BY <1>10
  <2> HIDE DEF rank, At
  <2> QED
    BY <2>1
<1> HIDE DEF kept, n, upto, rank, At
<1>15. q \in Seq(X) /\ Len(q) = n /\ DOMAIN q = 1..n
  BY <1>3, <1>12
<1>16. Range(q) = Range(live) \ gone
  BY <1>12, <1>13 DEF Range
<1>17. Distinct(live) => Distinct(q)
  BY <1>12, <1>14 DEF Distinct
<1> QED
  BY <1>3, <1>4, <1>15, <1>16, <1>17

(* Every pin is a session, once, and there are no more pins than the cap.  *)
PinInv ==
  /\ live \in Seq(DOMAIN sessions) /\ Distinct(live)
  /\ Len(live) <= MaxSessions

LEMMA PinsAreFew ==
  ASSUME NEW X, IsFiniteSet(X), NEW q \in Seq(X), Distinct(q)
  PROVE  Len(q) <= Cardinality(X)
<1>1. DOMAIN q = 1..Len(q) /\ Len(q) \in Nat /\ q \in [1..Len(q) -> X]
  OBVIOUS
<1>2. q \in Injection(1..Len(q), X)
  BY <1>1 DEF Distinct, Injection, IsInjective
<1>3. Cardinality(1..Len(q)) = Len(q) /\ IsFiniteSet(1..Len(q))
  BY <1>1, FS_Interval
<1> QED
  BY <1>2, <1>3, FS_Injection

LEMMA PinsKept ==
  ASSUME PinInv, DOMAIN sessions' = DOMAIN sessions, UNCHANGED live
  PROVE  PinInv'
  BY DEF PinInv, Distinct

(* A pin is written to, and is the last to go.                             *)
LEMMA PinsWritten ==
  ASSUME PinInv, NEW s \in DOMAIN sessions, PinLive(s), DOMAIN sessions' = DOMAIN sessions
  PROVE  /\ live' \in Seq(DOMAIN sessions') /\ Distinct(live')
         /\ Len(live') <= MaxSessions
         /\ IsFiniteSet(DOMAIN sessions) /\ Cardinality(DOMAIN sessions) <= MaxSessions
              => Range(live') = Range(live) \cup {s}
<1> DEFINE q == PinsWithout({s})
           pins == Append(q, s)
<1>1. /\ q \in Seq(DOMAIN sessions) /\ Range(q) = Range(live) \ {s}
      /\ Len(q) <= Len(live) /\ Distinct(q)
  BY PinsThatStay DEF PinInv
<1>2. live' = IF Len(pins) > MaxSessions THEN Tail(pins) ELSE pins
  BY DEF PinLive
<1> HIDE DEF q
<1>3. /\ pins \in Seq(DOMAIN sessions) /\ Len(pins) = Len(q) + 1 /\ Len(q) \in Nat
      /\ \A i \in 1..Len(q) : pins[i] = q[i]
      /\ pins[Len(q) + 1] = s
      /\ DOMAIN pins = 1..(Len(q) + 1) /\ DOMAIN q = 1..Len(q)
  BY <1>1
<1>4. \A i \in 1..Len(q) : q[i] # s
  BY <1>1, <1>3 DEF Range
<1> HIDE DEF pins
<1>5. Distinct(pins)
  <2> SUFFICES ASSUME NEW i \in 1..(Len(q) + 1), NEW j \in 1..(Len(q) + 1), pins[i] = pins[j]
               PROVE  i = j
    BY <1>3 DEF Distinct
  <2>1. (i \in 1..Len(q) \/ i = Len(q) + 1) /\ (j \in 1..Len(q) \/ j = Len(q) + 1)
    BY <1>3
  <2> QED
    BY <1>1, <1>3, <1>4, <2>1 DEF Distinct
<1>6. /\ Tail(pins) \in Seq(DOMAIN sessions) /\ Len(Tail(pins)) = Len(q)
      /\ DOMAIN Tail(pins) = 1..Len(q)
      /\ \A i \in 1..Len(q) : Tail(pins)[i] = pins[i + 1]
  <2>1. pins # <<>>
    BY <1>3
  <2> QED
    BY <1>3, <2>1
<1>7. Distinct(Tail(pins))
  <2> SUFFICES ASSUME NEW i \in 1..Len(q), NEW j \in 1..Len(q), Tail(pins)[i] = Tail(pins)[j]
               PROVE  i = j
    BY <1>6 DEF Distinct
  <2>1. pins[i + 1] = pins[j + 1] /\ i + 1 \in DOMAIN pins /\ j + 1 \in DOMAIN pins
    BY <1>3, <1>6
  <2>2. i + 1 = j + 1
    BY <1>5, <2>1 DEF Distinct
  <2> QED
    BY <2>2
<1>8. Len(live') <= MaxSessions
  <2>1. Len(live) \in Nat /\ MaxSessions \in Nat /\ Len(live) <= MaxSessions
    BY CapsAreNatural DEF PinInv
  <2> QED
    BY <1>1, <1>2, <1>3, <1>6, <2>1
<1>9. ASSUME IsFiniteSet(DOMAIN sessions), Cardinality(DOMAIN sessions) <= MaxSessions
      PROVE  Range(live') = Range(live) \cup {s}
  <2>1. Len(pins) <= Cardinality(DOMAIN sessions)
    BY <1>3, <1>5, <1>9, PinsAreFew
  <2>2. Cardinality(DOMAIN sessions) \in Nat
    BY <1>9, FS_CardinalityType
  <2>3. live' = pins
    BY <1>2, <1>3, <1>9, <2>1, <2>2, CapsAreNatural
  <2>4. Range(pins) = Range(q) \cup {s}
    <3>1. Range(pins) = {pins[i] : i \in 1..(Len(q) + 1)} /\ Range(q) = {q[i] : i \in 1..Len(q)}
      BY <1>3 DEF Range
    <3>2. 1..(Len(q) + 1) = 1..Len(q) \cup {Len(q) + 1}
      BY <1>3
    <3> QED
      BY <1>3, <3>1, <3>2
  <2> QED
    BY <1>1, <2>3, <2>4
<1> QED
  BY <1>2, <1>3, <1>5, <1>6, <1>7, <1>8, <1>9

LEMMA PinsDropped ==
  ASSUME PinInv, NEW gone, Cascade(gone), DOMAIN sessions \ gone \subseteq DOMAIN sessions'
  PROVE  PinInv' /\ Range(live') = Range(live) \ gone
<1>1. live' = PinsWithout(gone)
  BY DEF Cascade
<1>2. /\ PinsWithout(gone) \in Seq(DOMAIN sessions)
      /\ Range(PinsWithout(gone)) = Range(live) \ gone
      /\ Len(PinsWithout(gone)) <= Len(live) /\ Distinct(PinsWithout(gone))
  BY PinsThatStay DEF PinInv
<1> DEFINE q == PinsWithout(gone)
<1> HIDE DEF q
<1>3. \A i \in 1..Len(q) : q[i] \in DOMAIN sessions'
  BY <1>2 DEF Range, q
<1>4. q \in Seq(DOMAIN sessions')
  BY <1>2, <1>3 DEF q
<1>5. Len(q) <= MaxSessions
  <2>1. Len(q) \in Nat /\ Len(live) \in Nat /\ MaxSessions \in Nat
    BY <1>4, CapsAreNatural DEF PinInv
  <2> QED
    BY <1>2, <2>1 DEF q, PinInv
<1> QED
  BY <1>1, <1>2, <1>4, <1>5 DEF PinInv, Distinct, q

LEMMA PinInvariant == Spec => []PinInv
<1>1. Init => PinInv
  BY CapsAreNatural DEF Init, PinInv, Distinct
<1>2. GoneInv /\ PinInv /\ [Next]_vars => PinInv'
  <2> SUFFICES ASSUME GoneInv, PinInv, [Next]_vars PROVE PinInv'
    OBVIOUS
  <2>1. DOMAIN sessions' = DOMAIN sessions /\ UNCHANGED live => PinInv'
    BY PinsKept
  <2>2. CASE Open \/ MarkImported \/ FinishOpen \/ Listen \/ NextDay
    BY <2>1, <2>2 DEF Open, MarkImported, FinishOpen, Listen, NextDay, tables, memory
  <2>3. CASE Stop
    BY <2>3, CapsAreNatural DEF Stop, PinInv, Distinct
  <2>4. ASSUME NEW s \in Sids, ImportSession(s) PROVE PinInv'
    <3>1. UNCHANGED live /\ DOMAIN sessions \subseteq DOMAIN sessions'
      BY <2>4 DEF ImportSession, With, memory
    <3>2. live \in Seq(DOMAIN sessions')
      BY <3>1 DEF PinInv
    <3> QED
      BY <3>1, <3>2 DEF PinInv, Distinct
  <2>5. ASSUME NEW s \in Sids, Create(s) PROVE PinInv'
    <3>1. PICK E \in Pruned :
            /\ Cascade(E)
            /\ \/ sessions' = With(Without(sessions, E), s, NewRow)
               \/ sessions' = Without(sessions, E)
      BY <2>5 DEF Create
    <3>2. DOMAIN sessions \ E \subseteq DOMAIN sessions'
      BY <3>1 DEF With, Without
    <3> QED
      BY <3>1, <3>2, PinsDropped
  <2>6. ASSUME NEW s, Continue(s) \/ SeatEnds(s) \/ OfferUnknown(s) PROVE PinInv'
    BY <2>1, <2>6 DEF Continue, SeatEnds, OfferUnknown, tables, memory
  <2>7. ASSUME NEW s, RemoveSession(s) PROVE PinInv'
    <3>1. Cascade({s}) /\ DOMAIN sessions \ {s} \subseteq DOMAIN sessions'
      BY <2>7 DEF RemoveSession, Without
    <3> QED
      BY <3>1, PinsDropped
  <2>8. ASSUME NEW s \in Sids, NEW turn, NEW n, Offer(s, turn, n) PROVE PinInv'
    <3>1. DOMAIN sessions' = DOMAIN sessions
      BY <2>8, OfferKeepsRows
    <3>2. s \in DOMAIN sessions /\ (UNCHANGED live \/ PinLive(s))
      BY <2>8 DEF Offer, memory
    <3> QED
      BY <2>1, <3>1, <3>2, PinsWritten DEF PinInv
  <2>9. ASSUME NEW s, NEW stamp, SetTitle(s, stamp) PROVE PinInv'
    BY <2>1, <2>9 DEF SetTitle, memory
  <2>10. ASSUME NEW s, NEW f, NEW n, SpoolAttachment(s, f, n) PROVE PinInv'
    BY <2>1, <2>10 DEF SpoolAttachment
  <2>11. ASSUME NEW a, DiscardAttachment(a) PROVE PinInv'
    BY <2>1, <2>11 DEF DiscardAttachment
  <2>12. CASE UNCHANGED vars
    BY <2>1, <2>12 DEF vars, tables, memory
  <2> QED
    BY <2>2, <2>3, <2>4, <2>5, <2>6, <2>7, <2>8, <2>9, <2>10, <2>11, <2>12
       DEF Next, Boot
<1> QED
  BY <1>1, <1>2, GoneInvariant, PTL DEF Spec

(* In a store of its own, every session a seat writes to is pinned from its *)
(* first append on, for there is a pin for every session.                   *)
SeatInv ==
  /\ IsFiniteSet(DOMAIN sessions) /\ Cardinality(DOMAIN sessions) <= MaxSessions
  /\ stopped \subseteq Range(live)
  /\ seats \cap DOMAIN sessions \subseteq Range(live) \cup {opening}
  /\ opening \in seats \cup {NoSid} /\ seats \subseteq Sids

LEMMA SeatsKept ==
  ASSUME SeatInv, DOMAIN sessions' = DOMAIN sessions,
         UNCHANGED <<live, stopped, seats, opening>>
  PROVE  SeatInv'
  BY DEF SeatInv, Range

LEMMA SeatInvariant ==
  ASSUME Legacy = Nothing
  PROVE  Spec => []SeatInv
<1>1. Init => SeatInv
  BY FS_EmptySet, CapsAreNatural DEF Init, SeatInv, Nothing, Range
<1>2. GoneInv /\ PinInv /\ SeatInv /\ [Next]_vars => SeatInv'
  <2> SUFFICES ASSUME GoneInv, PinInv, SeatInv, [Next]_vars PROVE SeatInv'
    OBVIOUS
  <2>1. /\ DOMAIN sessions' = DOMAIN sessions
        /\ UNCHANGED <<live, stopped, seats, opening>>
        => SeatInv'
    BY SeatsKept
  <2>2. CASE Open \/ MarkImported \/ FinishOpen \/ Listen \/ NextDay
    BY <2>1, <2>2
       DEF Open, MarkImported, FinishOpen, Listen, NextDay, tables, memory, world
  <2>3. CASE Stop
    BY <2>3 DEF Stop, SeatInv, Range, tables
  <2>4. ASSUME NEW s \in Sids, ImportSession(s) PROVE SeatInv'
    BY <2>4 DEF ImportSession, Nothing
  <2>5. ASSUME NEW s \in Sids, Create(s) PROVE SeatInv'
    <3>1. PICK E \in Pruned :
            /\ Cascade(E)
            /\ IF HasRoom(Cardinality(DOMAIN sessions \ E))
                 THEN /\ sessions' = With(Without(sessions, E), s, NewRow)
                      /\ seats' = seats \cup {s} /\ opening' = s
                 ELSE /\ sessions' = Without(sessions, E)
                      /\ UNCHANGED <<seats, opening>>
      BY <2>5 DEF Create
    <3>2. opening = NoSid /\ NoSid \notin Sids
      BY <2>5, NoSidIsNull DEF Create
    <3>3. Range(live') = Range(live) \ E /\ stopped' = stopped \ E
      <4>1. DOMAIN sessions \ E \subseteq DOMAIN sessions'
        BY <3>1 DEF With, Without
      <4> QED
        BY <3>1, <4>1, PinsDropped DEF Cascade
    <3>4. IsFiniteSet(DOMAIN sessions \ E) /\ Cardinality(DOMAIN sessions \ E) \in Nat
          /\ Cardinality(DOMAIN sessions \ E) <= Cardinality(DOMAIN sessions)
          /\ Cardinality(DOMAIN sessions) \in Nat
      BY FS_Subset, FS_CardinalityType DEF SeatInv
    <3>5. CASE HasRoom(Cardinality(DOMAIN sessions \ E))
      <4>1. DOMAIN sessions' = (DOMAIN sessions \ E) \cup {s}
        BY <3>1, <3>5 DEF With, Without
      <4>2. /\ IsFiniteSet(DOMAIN sessions') /\ Cardinality(DOMAIN sessions') <= MaxSessions
        <5>1. /\ IsFiniteSet((DOMAIN sessions \ E) \cup {s})
              /\ \/ Cardinality((DOMAIN sessions \ E) \cup {s}) = Cardinality(DOMAIN sessions \ E)
                 \/ Cardinality((DOMAIN sessions \ E) \cup {s}) = Cardinality(DOMAIN sessions \ E) + 1
          BY <3>4, FS_AddElement
        <5> QED
          BY <3>4, <3>5, <4>1, <5>1, CapsAreNatural DEF HasRoom
      <4> QED
        BY <3>1, <3>2, <3>3, <3>5, <4>1, <4>2 DEF SeatInv
    <3>6. CASE ~HasRoom(Cardinality(DOMAIN sessions \ E))
      <4>1. DOMAIN sessions' = DOMAIN sessions \ E
        BY <3>1, <3>6 DEF Without
      <4> QED
        BY <3>1, <3>2, <3>3, <3>4, <3>6, <4>1, CapsAreNatural DEF SeatInv
    <3> QED
      BY <3>5, <3>6
  <2>6. ASSUME NEW s \in Sids, Continue(s) PROVE SeatInv'
    <3>1. /\ DOMAIN sessions' = DOMAIN sessions /\ UNCHANGED <<live, stopped>>
          /\ seats' = seats \cup {s} /\ opening = NoSid /\ opening' = s
      BY <2>6 DEF Continue, tables, memory
    <3> QED
      BY <3>1, NoSidIsNull DEF SeatInv, Range
  <2>7. ASSUME NEW s, SeatEnds(s) PROVE SeatInv'
    BY <2>7, NoSidIsNull DEF SeatEnds, SeatInv, Range, tables, memory
  <2>8. ASSUME NEW s, OfferUnknown(s) PROVE SeatInv'
    BY <2>8 DEF OfferUnknown, SeatInv, Range, tables, memory
  <2>9. ASSUME NEW s, RemoveSession(s) PROVE SeatInv'
    <3>1. /\ Cascade({s}) /\ DOMAIN sessions' = DOMAIN sessions \ {s}
          /\ UNCHANGED <<seats, opening>>
      BY <2>9 DEF RemoveSession, Without, world
    <3>2. Range(live') = Range(live) \ {s} /\ stopped' = stopped \ {s}
      BY <3>1, PinsDropped DEF Cascade
    <3>3. /\ IsFiniteSet(DOMAIN sessions') /\ Cardinality(DOMAIN sessions') <= MaxSessions
      <4>1. DOMAIN sessions' \subseteq DOMAIN sessions
        BY <3>1
      <4>2. /\ IsFiniteSet(DOMAIN sessions')
            /\ Cardinality(DOMAIN sessions') <= Cardinality(DOMAIN sessions)
            /\ Cardinality(DOMAIN sessions) \in Nat /\ Cardinality(DOMAIN sessions') \in Nat
        BY <4>1, FS_Subset, FS_CardinalityType DEF SeatInv
      <4> QED
        BY <4>2, CapsAreNatural DEF SeatInv
    <3> QED
      BY <3>1, <3>2, <3>3 DEF SeatInv
  <2>10. ASSUME NEW s \in Sids, NEW turn, NEW n, Offer(s, turn, n) PROVE SeatInv'
    <3>1. DOMAIN sessions' = DOMAIN sessions
      BY <2>10, OfferKeepsRows
    <3>2. /\ s \in DOMAIN sessions /\ opening \in {NoSid, s} /\ opening' = NoSid
          /\ UNCHANGED seats
      BY <2>10 DEF Offer
    <3>3. CASE s \in stopped
      <4>1. UNCHANGED <<live, stopped>> /\ s \in Range(live)
        BY <2>10, <3>3 DEF Offer, memory, SeatInv
      <4> QED
        BY <3>1, <3>2, <4>1 DEF SeatInv, Range
    <3>4. CASE s \notin stopped
      <4>1. PinLive(s) /\ stopped' \subseteq stopped \cup {s}
        BY <2>10, <3>4 DEF Offer, StopWriter
      <4>2. Range(live') = Range(live) \cup {s}
        BY <3>1, <3>2, <4>1, PinsWritten DEF SeatInv
      <4> QED
        BY <3>1, <3>2, <4>1, <4>2 DEF SeatInv
    <3> QED
      BY <3>3, <3>4
  <2>11. ASSUME NEW s, NEW stamp, SetTitle(s, stamp) PROVE SeatInv'
    BY <2>1, <2>11 DEF SetTitle, memory, world
  <2>12. ASSUME NEW s, NEW f, NEW n, SpoolAttachment(s, f, n) PROVE SeatInv'
    BY <2>1, <2>12 DEF SpoolAttachment, world
  <2>13. ASSUME NEW a, DiscardAttachment(a) PROVE SeatInv'
    BY <2>1, <2>13 DEF DiscardAttachment, world
  <2>14. CASE UNCHANGED vars
    BY <2>1, <2>14 DEF vars, tables, memory, world
  <2> QED
    BY <2>2, <2>3, <2>4, <2>5, <2>6, <2>7, <2>8, <2>9, <2>10, <2>11, <2>12, <2>13, <2>14
       DEF Next, Boot
<1> QED
  BY <1>1, <1>2, GoneInvariant, PinInvariant, PTL DEF Spec

(* Eviction never deletes a session out from under its seat: in a store     *)
(* that imported nothing, only remove() deletes a session being written to. *)
THEOREM SeatedStaysKept ==
  ASSUME Legacy = Nothing
  PROVE  Spec => SeatedIsKept
<1>1. SeatInv /\ [Next]_vars => SeatedDeletedByRemove
  <2> SUFFICES ASSUME SeatInv, [Next]_vars PROVE SeatedDeletedByRemove
    OBVIOUS
  <2>1. DOMAIN sessions \subseteq DOMAIN sessions' => SeatedDeletedByRemove
    BY DEF SeatedDeletedByRemove
  <2>2. ASSUME NEW s \in Sids, Create(s) PROVE SeatedDeletedByRemove
    <3>1. PICK E \in Pruned :
            \/ sessions' = With(Without(sessions, E), s, NewRow)
            \/ sessions' = Without(sessions, E)
      BY <2>2 DEF Create
    <3>2. DOMAIN sessions \ E \subseteq DOMAIN sessions'
      BY <3>1 DEF With, Without
    <3>3. E \cap Range(live) = {} /\ opening = NoSid
      BY <2>2 DEF Pruned, Pinned, Create
    <3> QED
      BY <3>2, <3>3, NoSidIsNull DEF SeatInv, SeatedDeletedByRemove
  <2>3. ASSUME NEW s, RemoveSession(s) PROVE SeatedDeletedByRemove
    BY <2>3 DEF SeatedDeletedByRemove, RemoveSession, Without
  <2>4. ASSUME NEW s \in Sids, ImportSession(s) PROVE SeatedDeletedByRemove
    BY <2>1, <2>4 DEF ImportSession, With
  <2>5. ASSUME NEW s \in Sids, NEW turn, NEW n, Offer(s, turn, n)
        PROVE  SeatedDeletedByRemove
    BY <2>1, <2>5, OfferKeepsRows
  <2>6. CASE FinishOpen
    BY <2>1, <2>6 DEF FinishOpen
  <2>7. ASSUME NEW s, NEW stamp, SetTitle(s, stamp) PROVE SeatedDeletedByRemove
    BY <2>1, <2>7 DEF SetTitle
  <2>8. UNCHANGED sessions => SeatedDeletedByRemove
    BY <2>1
  <2>9. CASE UNCHANGED vars
    BY <2>8, <2>9 DEF vars, tables
  <2> QED
    BY <2>2, <2>3, <2>4, <2>5, <2>6, <2>7, <2>8, <2>9
       DEF Next, Boot, Open, MarkImported, Listen, Stop, NextDay, Continue, SeatEnds,
           OfferUnknown, SpoolAttachment, DiscardAttachment, tables
<1> QED
  BY <1>1, SeatInvariant, PTL DEF Spec, SeatedIsKept

----------------------------------------------------------------------------
(* Types *)

TypedTables ==
  /\ DOMAIN sessions \subseteq Sids /\ sessions \in [DOMAIN sessions -> Row]
  /\ events \subseteq Event /\ attachments \subseteq Attachment

LEMMA RowFields ==
  ASSUME NEW row \in Row
  PROVE  /\ \A n \in Nat : /\ [row EXCEPT !.dropped = n] \in Row
                           /\ [row EXCEPT !.bytes = n] \in Row
         /\ [row EXCEPT !.truncated = TRUE] \in Row
         /\ \A d \in 0..MaxDay : [row EXCEPT !.stamp = d] \in Row
         /\ \A f, l, b \in Nat, d \in 0..MaxDay :
              [row EXCEPT !.last = l, !.first = f, !.bytes = b, !.stamp = d] \in Row
         /\ \A f, l, b \in Nat, t, m \in BOOLEAN :
              [row EXCEPT !.first = f, !.last = l, !.bytes = b, !.midTurn = m,
                          !.truncated = t] \in Row
         /\ \A f, l, b \in Nat, t, m \in BOOLEAN :
              [row EXCEPT !.first = f, !.last = l, !.bytes = b, !.truncated = t,
                          !.midTurn = m] \in Row
  BY DEF Row

LEMMA TypesReconciled ==
  ASSUME CursorInv, BudgetInv, TypedTables, NEW s \in DOMAIN sessions
  PROVE  Reconciled(s) \in Row
<1>1. sessions[s] \in Row /\ sessions[s].truncated \in BOOLEAN
  BY DEF TypedTables, Row
<1>2. Bytes(Log(s)) \in Nat
  BY LogIsSized DEF BudgetInv
<1>3. EndsMidTurn(s) \in BOOLEAN /\ (sessions[s].truncated \/ EndsMidTurn(s)) \in BOOLEAN
  BY DEF EndsMidTurn
<1>4. Emptied(s) \in Row
  BY <1>1, RowFields DEF Emptied
<1>5. ASSUME Log(s) # {}
      PROVE  Min(Seqs(s)) \in Nat /\ Max(Seqs(s)) \in Nat
  <2>1. Seqs(s) # {} /\ Seqs(s) \subseteq Nat /\ HasEnds(s)
    BY <1>5 DEF CursorInv, RowInv, Seqs
  <2> QED
    BY <2>1, EndsAreMinMax DEF HasEnds
<1> DEFINE written ==
      [sessions[s] EXCEPT !.first = Min(Seqs(s)), !.last = Max(Seqs(s)),
                          !.bytes = Bytes(Log(s)),
                          !.truncated = sessions[s].truncated \/ EndsMidTurn(s),
                          !.midTurn = EndsMidTurn(s)]
<1>6. Log(s) # {} => written \in Row
  BY <1>1, <1>2, <1>3, <1>5, RowFields
<1>7. \/ Reconciled(s) = Emptied(s)
      \/ Log(s) # {} /\ Reconciled(s) = written
      \/ Reconciled(s) = sessions[s]
  BY DEF Reconciled
<1> HIDE DEF written
<1> QED
  BY <1>1, <1>4, <1>6, <1>7

LEMMA RowWritten ==
  ASSUME TypedTables, NEW s \in DOMAIN sessions, NEW row \in Row
  PROVE  /\ [sessions EXCEPT ![s] = row] \in [DOMAIN sessions -> Row]
         /\ DOMAIN [sessions EXCEPT ![s] = row] = DOMAIN sessions
  BY DEF TypedTables

LEMMA RowAdded ==
  ASSUME NEW rows, NEW D, rows \in [D -> Row], NEW s, NEW row \in Row
  PROVE  With(rows, s, row) \in [D \cup {s} -> Row]
  BY DEF With

LEMMA RowsTaken ==
  ASSUME NEW rows, NEW D, rows \in [D -> Row], NEW gone
  PROVE  Without(rows, gone) \in [D \ gone -> Row]
  BY DEF Without

TypedWorld ==
  /\ TypedTables
  /\ phase \in {"down", "importing", "booted", "ready"}
  /\ imported \in BOOLEAN /\ walked \subseteq DOMAIN Legacy
  /\ storeBytes \in Nat
  /\ stopped \subseteq DOMAIN sessions
  /\ drifted \in [Sids -> Nat]
  /\ seats \subseteq Sids /\ opening \in seats \cup {NoSid}
  /\ day \in 0..MaxDay /\ restarts \in 0..MaxRestarts
  /\ DOMAIN sessions \subseteq used /\ used \subseteq Sids
  /\ offered \in [Sids -> 0..MaxOffers]

LEMMA TypesKept ==
  ASSUME TypedWorld, UNCHANGED <<tables, memory>>,
         phase' \in {"down", "importing", "booted", "ready"},
         walked' \subseteq DOMAIN Legacy,
         seats' \subseteq Sids, opening' \in seats' \cup {NoSid},
         day' \in 0..MaxDay, UNCHANGED <<used, offered, restarts>>
  PROVE  TypedWorld'
  BY DEF TypedWorld, TypedTables, tables, memory

LEMMA TotalIsNatural ==
  ASSUME BudgetInv', Up'
  PROVE  storeBytes' \in Nat
<1>1. RowBytes(sessions') \in Nat /\ Charge(attachments') \in Nat
  BY RowBytesOfRow, ChargeOfMore DEF BudgetInv
<1> QED
  BY <1>1 DEF BudgetInv

LEMMA TypesCreated ==
  ASSUME TypedWorld, BudgetInv', NEW s \in Sids, Create(s)
  PROVE  TypedWorld'
<1>1. PICK E \in Pruned :
        /\ Cascade(E)
        /\ \/ /\ sessions' = With(Without(sessions, E), s, NewRow)
              /\ used' = used \cup {s} /\ seats' = seats \cup {s} /\ opening' = s
           \/ /\ sessions' = Without(sessions, E)
              /\ UNCHANGED <<used, seats, opening>>
  BY DEF Create
<1>2. /\ UNCHANGED <<imported, phase, walked, drifted, day, offered, restarts>>
      /\ Up'
  BY DEF Create, Up, Running
<1>3. storeBytes' \in Nat
  BY <1>2, TotalIsNatural
<1>4. NewRow \in Row
  BY DEF NewRow, Row, TypedWorld
<1>5. Without(sessions, E) \in [DOMAIN sessions \ E -> Row]
  BY RowsTaken DEF TypedWorld, TypedTables
<1>6. With(Without(sessions, E), s, NewRow) \in [(DOMAIN sessions \ E) \cup {s} -> Row]
  BY <1>4, <1>5, RowAdded
<1>7. /\ sessions' \in [DOMAIN sessions' -> Row]
      /\ \/ DOMAIN sessions' = (DOMAIN sessions \ E) \cup {s}
            /\ used' = used \cup {s} /\ seats' = seats \cup {s} /\ opening' = s
         \/ DOMAIN sessions' = DOMAIN sessions \ E /\ UNCHANGED <<used, seats, opening>>
  BY <1>1, <1>5, <1>6
<1>8. events' \subseteq events /\ attachments' \subseteq attachments /\ stopped' = stopped \ E
  BY <1>1 DEF Cascade
<1> QED
  BY <1>2, <1>3, <1>7, <1>8 DEF TypedWorld, TypedTables

LEMMA TypesOffered ==
  ASSUME TypedWorld, CursorInv, BudgetInv', NEW s \in Sids, NEW turn \in BOOLEAN,
         NEW n \in EventBytes, Offer(s, turn, n)
  PROVE  TypedWorld'
<1>1. /\ UNCHANGED <<attachments, imported, phase, walked, seats, day, used, restarts>>
      /\ Up' /\ opening' = NoSid /\ s \in DOMAIN sessions
      /\ offered' = [offered EXCEPT ![s] = @ + 1] /\ offered[s] < MaxOffers
  BY DEF Offer, Up, Running
<1>2. storeBytes' \in Nat
  BY <1>1, TotalIsNatural
<1>3. /\ offered[s] \in 0..MaxOffers /\ offered[s] + 1 \in 0..MaxOffers
      /\ offered' \in [Sids -> 0..MaxOffers]
  BY <1>1, CapsAreNatural DEF TypedWorld
<1>4. sessions[s] \in Row /\ n \in Nat /\ day \in 0..MaxDay
  BY <1>1, CapsAreNatural DEF TypedWorld, TypedTables
<1>5. /\ sessions[s].first \in Nat /\ sessions[s].last \in Nat /\ sessions[s].bytes \in Nat
      /\ sessions[s].dropped \in Nat
  BY <1>4 DEF Row
<1>6. drifted' \in [Sids -> Nat] /\ stopped' \subseteq DOMAIN sessions
  BY <1>1 DEF Offer, TypedWorld, memory, StopWriter, NoteDropped
<1>7. /\ events' \subseteq Event
  <2> DEFINE e == [sid |-> s, seq |-> NextSeq(s), nr |-> offered[s] + 1, turn |-> turn,
                   bytes |-> n]
  <2>1. e \in Event
    BY <1>3, <1>4, <1>5 DEF Event, NextSeq
  <2>2. events' = events \/ events' = events \cup {e}
    BY DEF Offer, Record
  <2> HIDE DEF e
  <2> QED
    BY <2>1, <2>2 DEF TypedWorld, TypedTables
<1>8. sessions' \in [DOMAIN sessions -> Row] /\ DOMAIN sessions' = DOMAIN sessions
  <2>1. \/ UNCHANGED sessions
        \/ \E row \in Row : sessions' = [sessions EXCEPT ![s] = row]
    <3>1. CASE NoteDropped(s)
      <4> DEFINE row == [sessions[s] EXCEPT !.dropped = sessions[s].dropped + 1]
      <4>0. sessions[s].dropped + 1 \in Nat
        BY <1>5
      <4>1. row \in Row
        BY <1>4, <4>0, RowFields
      <4>2. UNCHANGED sessions \/ sessions' = [sessions EXCEPT ![s] = row]
        BY <3>1 DEF NoteDropped
      <4> QED
        BY <4>1, <4>2
    <3>2. CASE SetTruncated(s)
      <4> DEFINE row == [sessions[s] EXCEPT !.truncated = TRUE]
      <4>1. row \in Row
        BY <1>4, RowFields
      <4>2. UNCHANGED sessions \/ sessions' = [sessions EXCEPT ![s] = row]
        BY <3>2 DEF SetTruncated
      <4> QED
        BY <4>1, <4>2
    <3>3. CASE Record(s, turn, n)
      <4> DEFINE f == IF sessions[s].first = 0 THEN NextSeq(s) ELSE sessions[s].first
                 row == [sessions[s] EXCEPT !.last = sessions[s].last + 1, !.first = f,
                                            !.bytes = sessions[s].bytes + n, !.stamp = day]
      <4>1. f \in Nat /\ sessions[s].last + 1 \in Nat /\ sessions[s].bytes + n \in Nat
        BY <1>4, <1>5 DEF NextSeq
      <4>2. sessions' = [sessions EXCEPT ![s] = row]
        BY <3>3, <1>1 DEF Record
      <4> HIDE DEF f
      <4>3. row \in Row
        BY <1>4, <4>1, RowFields
      <4> QED
        BY <4>2, <4>3
    <3> QED
      BY <3>1, <3>2, <3>3 DEF Offer, StopWriter
  <2> QED
    BY <1>1, <2>1, RowWritten DEF TypedWorld, TypedTables
<1> QED
  BY <1>1, <1>2, <1>3, <1>6, <1>7, <1>8 DEF TypedWorld, TypedTables

LEMMA TypesImported ==
  ASSUME TypedWorld, NEW s \in Sids, ImportSession(s)
  PROVE  TypedWorld'
<1>1. /\ s \in DOMAIN Legacy /\ walked' = walked \cup {s}
      /\ UNCHANGED <<attachments, imported, phase, memory, seats, opening, day, offered, restarts>>
  BY DEF ImportSession
<1>2. CASE UNCHANGED <<sessions, events, used>>
  BY <1>1, <1>2 DEF TypedWorld, TypedTables, memory
<1>3. CASE /\ sessions' = With(sessions, s, ImportedRow(s))
           /\ events' = events \cup ImportedLog(s) /\ used' = used \cup {s}
  <2>1. ImportedRow(s) \in Row
    BY <1>1, LegacyIsStored DEF ImportedRow, Row
  <2>2. sessions' \in [DOMAIN sessions \cup {s} -> Row]
    BY <1>3, <2>1, RowAdded DEF TypedWorld, TypedTables
  <2>3. ImportedLog(s) \subseteq Event
    <3>1. 0 \in 0..MaxOffers
      BY CapsAreNatural
    <3> QED
      BY <1>1, <3>1, LegacyIsStored DEF ImportedLog, Event
  <2>4. DOMAIN sessions' = DOMAIN sessions \cup {s}
    BY <2>2
  <2> QED
    BY <1>1, <1>3, <2>2, <2>3, <2>4 DEF TypedWorld, TypedTables, memory
<1> QED
  BY <1>2, <1>3 DEF ImportSession

LEMMA TypesInvariant == Spec => []TypedWorld
<1>0. 0 \in 0..MaxDay /\ 0 \in 0..MaxRestarts /\ 0 \in 0..MaxOffers
  BY CapsAreNatural
<1>1. Init => TypedWorld
  <2> SUFFICES ASSUME Init PROVE TypedWorld
    OBVIOUS
  <2>1. DOMAIN Nothing = {} /\ Nothing \in [{} -> Row]
    BY DEF Nothing
  <2>2. TypedTables
    BY <2>1 DEF Init, TypedTables
  <2>3. drifted \in [Sids -> Nat] /\ offered \in [Sids -> 0..MaxOffers]
    BY <1>0 DEF Init
  <2> QED
    BY <1>0, <2>1, <2>2, <2>3 DEF Init, TypedWorld
<1>2. CursorInv /\ BudgetInv /\ BudgetInv' /\ TypedWorld /\ [Next]_vars => TypedWorld'
  <2> SUFFICES ASSUME CursorInv, BudgetInv, BudgetInv', TypedWorld, [Next]_vars
               PROVE  TypedWorld'
    OBVIOUS
  <2>1. CASE Open \/ Listen
    BY <2>1, TypesKept DEF Open, Listen, TypedWorld, world
  <2>2. CASE MarkImported
    BY <2>2 DEF MarkImported, TypedWorld, TypedTables, memory, world
  <2>3. CASE FinishOpen
    <3>1. PICK unwritten \in SUBSET DOMAIN sessions :
            sessions' = [s \in DOMAIN sessions |->
                           IF s \in unwritten THEN sessions[s] ELSE Reconciled(s)]
      BY <2>3 DEF FinishOpen
    <3>2. \A s \in DOMAIN sessions : sessions[s] \in Row /\ Reconciled(s) \in Row
      BY TypesReconciled DEF TypedWorld, TypedTables
    <3>3. sessions' \in [DOMAIN sessions -> Row] /\ DOMAIN sessions' = DOMAIN sessions
      BY <3>1, <3>2
    <3>4. storeBytes' \in Nat
      BY <2>3, TotalIsNatural DEF FinishOpen, Up
    <3> QED
      BY <2>3, <3>3, <3>4 DEF FinishOpen, TypedWorld, TypedTables, world
  <2>4. ASSUME NEW s \in Sids, ImportSession(s) PROVE TypedWorld'
    BY <2>4, TypesImported
  <2>5. CASE Stop
    <3>1. restarts' \in 0..MaxRestarts
      BY <2>5, CapsAreNatural DEF Stop, TypedWorld
    <3>2. drifted' \in [Sids -> Nat] /\ storeBytes' \in Nat
      BY <2>5 DEF Stop
    <3> QED
      BY <2>5, <3>1, <3>2 DEF Stop, TypedWorld, TypedTables, tables
  <2>6. CASE NextDay
    <3>1. day' \in 0..MaxDay
      BY <2>6, CapsAreNatural DEF NextDay, TypedWorld
    <3> QED
      BY <2>6, <3>1, TypesKept DEF NextDay, TypedWorld
  <2>7. ASSUME NEW s \in Sids, Create(s) PROVE TypedWorld'
    BY <2>7, TypesCreated
  <2>8. ASSUME NEW s \in Sids, Continue(s) PROVE TypedWorld'
    BY <2>8, TypesKept DEF Continue, TypedWorld
  <2>9. ASSUME NEW s, SeatEnds(s) PROVE TypedWorld'
    BY <2>9, TypesKept, NoSidIsNull DEF SeatEnds, TypedWorld
  <2>10. ASSUME NEW s, OfferUnknown(s) PROVE TypedWorld'
    BY <2>10, TypesKept DEF OfferUnknown, TypedWorld
  <2>11. ASSUME NEW s, RemoveSession(s) PROVE TypedWorld'
    <3>1. /\ Cascade({s}) /\ sessions' = Without(sessions, {s})
          /\ drifted' = [drifted EXCEPT ![s] = 0]
          /\ UNCHANGED <<imported, phase, walked, world>> /\ Up'
      BY <2>11 DEF RemoveSession, Running, Up
    <3>2. sessions' \in [DOMAIN sessions \ {s} -> Row]
      BY <3>1, RowsTaken DEF TypedWorld, TypedTables
    <3>3. storeBytes' \in Nat
      BY <3>1, TotalIsNatural
    <3>4. DOMAIN sessions' = DOMAIN sessions \ {s}
      BY <3>2
    <3> QED
      BY <3>1, <3>2, <3>3, <3>4 DEF TypedWorld, TypedTables, world, Cascade
  <2>12. ASSUME NEW s \in Sids, NEW turn \in BOOLEAN, NEW n \in EventBytes,
                Offer(s, turn, n)
         PROVE  TypedWorld'
    BY <2>12, TypesOffered
  <2>13. ASSUME NEW s, NEW stamp \in 0..MaxDay, SetTitle(s, stamp) PROVE TypedWorld'
    <3> DEFINE row == [sessions[s] EXCEPT !.stamp = stamp]
    <3>1. s \in DOMAIN sessions /\ sessions[s] \in Row
      BY <2>13 DEF SetTitle, TypedWorld, TypedTables
    <3>2. row \in Row
      BY <3>1, RowFields
    <3>3. sessions' = [sessions EXCEPT ![s] = row]
      BY <2>13 DEF SetTitle
    <3> HIDE DEF row
    <3>4. sessions' \in [DOMAIN sessions -> Row] /\ DOMAIN sessions' = DOMAIN sessions
      BY <3>1, <3>2, <3>3, RowWritten DEF TypedWorld
    <3> QED
      BY <2>13, <3>4 DEF SetTitle, TypedWorld, TypedTables, memory, world
  <2>14. ASSUME NEW s \in Sids, NEW f \in Files, NEW n \in FileBytes,
                SpoolAttachment(s, f, n)
         PROVE  TypedWorld'
    <3>1. Up' /\ n \in Nat
      BY <2>14, CapsAreNatural DEF SpoolAttachment, Up, Running
    <3>2. storeBytes' \in Nat
      BY <3>1, TotalIsNatural
    <3>3. [sid |-> s, file |-> f, size |-> n] \in Attachment
      BY <3>1 DEF Attachment
    <3> QED
      BY <2>14, <3>2, <3>3 DEF SpoolAttachment, TypedWorld, TypedTables, world
  <2>15. ASSUME NEW a, DiscardAttachment(a) PROVE TypedWorld'
    <3>1. Up'
      BY <2>15 DEF DiscardAttachment, Up, Running
    <3>2. storeBytes' \in Nat
      BY <3>1, TotalIsNatural
    <3> QED
      BY <2>15, <3>2 DEF DiscardAttachment, TypedWorld, TypedTables, world
  <2>16. CASE UNCHANGED vars
    BY <2>16, TypesKept DEF vars, TypedWorld, world
  <2> QED
    BY <2>1, <2>2, <2>3, <2>4, <2>5, <2>6, <2>7, <2>8, <2>9, <2>10, <2>11, <2>12,
       <2>13, <2>14, <2>15, <2>16 DEF Next, Boot
<1> QED
  BY <1>1, <1>2, CursorInvariant, BudgetInvariant, PTL DEF Spec

(* Type correctness of the store, its tables and its memory.               *)
THEOREM StoreTypes == Spec => []TypeOK
<1>1. TypedWorld /\ PinInv => TypeOK
  BY DEF TypedWorld, TypedTables, PinInv, TypeOK
<1> QED
  BY <1>1, TypesInvariant, PinInvariant, PTL
=============================================================================
