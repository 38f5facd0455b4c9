---------------------------- MODULE BrowserProofs ----------------------------
(* Proofs about Browser, in this order: a submission is sent once (SentInv); *)
(* the steps by their kinds (StepReduces) and the types (Types); what is     *)
(* shown belongs to its session (HomeInv); the order of what is on the wire  *)
(* and what it leads to (AgreeInv); and the texts (TextInv).                 *)
EXTENDS Browser, FiniteSetTheorems, TLAPS

Fates == {"draft", "queued", "uploading", "flushing", "given", "back", "dropped"}

(* What has been sent was given up to the hook, for good.                  *)
SentInv ==
  /\ sub \in [Turns -> Fates]
  /\ prompted \in [Turns -> Nat]
  /\ \A t \in Turns : prompted[t] = 0 \/ (prompted[t] = 1 /\ sub[t] = "given")

LEMMA PromptSends ==
  ASSUME SentInv, NEW t \in Turns, Prompt(t)
  PROVE  prompted' \in {prompted, [prompted EXCEPT ![t] = @ + 1]}
BY DEF Prompt

(* A submission that was not given yet is given, and prompted.             *)
LEMMA GivenOnce ==
  ASSUME SentInv, NEW t \in Turns, sub[t] # "given",
         sub' = [sub EXCEPT ![t] = "given"], Prompt(t)
  PROVE  SentInv'
<1>1. prompted[t] = 0
  BY DEF SentInv
<1>2. \A u \in Turns : u # t => sub'[u] = sub[u]
  BY DEF SentInv
<1>3. sub' \in [Turns -> Fates] /\ sub'[t] = "given"
  BY DEF SentInv, Fates
<1>4. prompted' \in {prompted, [prompted EXCEPT ![t] = 1]}
  BY <1>1, PromptSends DEF SentInv
<1> QED
  BY <1>1, <1>2, <1>3, <1>4 DEF SentInv

(* It is moved on without being sent.                                      *)
LEMMA NotYetGiven ==
  ASSUME SentInv, UNCHANGED prompted, sub' \in [Turns -> Fates],
         \A t \in Turns : sub[t] = "given" => sub'[t] = "given"
  PROVE  SentInv'
BY DEF SentInv

LEMMA Delivered ==
  ASSUME SentInv, NEW t \in Turns, sub[t] # "given",
         NEW stage \in Fates, Deliver(t, stage)
  PROVE  SentInv'
<1>1. CASE t \in Attaching
  <2>1. sub' = [sub EXCEPT ![t] = stage] /\ UNCHANGED prompted
    BY <1>1 DEF Deliver
  <2> QED
    BY <2>1, NotYetGiven DEF SentInv
<1>2. CASE t \notin Attaching
  BY <1>2, GivenOnce DEF Deliver
<1> QED
  BY <1>1, <1>2

LEMMA StepKeepsSent ==
  ASSUME SentInv, [Next]_vars
  PROVE  SentInv'
<1>1. CASE UNCHANGED <<sub, prompted>>
  BY <1>1 DEF SentInv
<1>2. ASSUME NEW t \in Turns, FlushQueued(t) PROVE SentInv'
  BY <1>2, Delivered DEF FlushQueued, Flushed, Fates
<1>3. ASSUME NEW t \in Turns, SubmitNow(t) PROVE SentInv'
  BY <1>3, Delivered DEF SubmitNow, CanSubmit, Fates
<1>4. ASSUME NEW t \in Turns, SubmitQueued(t) PROVE SentInv'
  <2>1. sub[t] = "draft" /\ sub' = [sub EXCEPT ![t] = "queued"] /\ UNCHANGED prompted
    BY <1>4 DEF SubmitQueued, CanSubmit
  <2> QED
    BY <2>1, NotYetGiven DEF SentInv, Fates
<1>5. ASSUME NEW t \in Turns, HandBack(t) PROVE SentInv'
  <2>1. sub[t] = "queued" /\ sub' = [sub EXCEPT ![t] = "back"] /\ UNCHANGED prompted
    BY <1>5 DEF HandBack
  <2> QED
    BY <2>1, NotYetGiven DEF SentInv, Fates
<1>6. ASSUME NEW t \in Turns, Uploaded(t) PROVE SentInv'
  <2>1. sub[t] \in {"uploading", "flushing"}
    BY <1>6 DEF Uploaded
  <2>2. CASE sub' = [sub EXCEPT ![t] = "given"] /\ Prompt(t)
    BY <2>1, <2>2, GivenOnce
  <2>3. CASE sub' = [sub EXCEPT ![t] = "back"] /\ UNCHANGED prompted
    BY <2>1, <2>3, NotYetGiven DEF SentInv, Fates
  <2> QED
    BY <1>6, <2>2, <2>3 DEF Uploaded
<1>7. ASSUME NewTask PROVE SentInv'
  <2>1. /\ sub' = [t \in Turns |-> CASE sub[t] = "queued" -> "dropped"
                                     [] sub[t] = "uploading" -> "flushing"
                                     [] OTHER -> sub[t]]
        /\ UNCHANGED prompted
    BY <1>7 DEF NewTask
  <2> QED
    BY <2>1, NotYetGiven DEF SentInv, Fates
<1>8. ASSUME Receive \/ AnimationFrame PROVE UNCHANGED <<sub, prompted>>
  BY <1>8 DEF Receive, AnimationFrame
<1>9. ASSUME Net PROVE UNCHANGED <<sub, prompted>>
  BY <1>9 DEF Net, SocketOpens, OnClose, Retry, BudgetEnds, ReadLands, ReadFails, uiVars
<1>10. ASSUME Server \/ SocketDrops \/ IdleClose PROVE UNCHANGED <<sub, prompted>>
  BY <1>10 DEF Server, Serve, Stream, EndTurn, ServerSeesClose, SocketDrops, IdleClose, uiVars
<1>11. ASSUME Cancel \/ \E s \in Sessions : LoadSession(s) PROVE UNCHANGED <<sub, prompted>>
  BY <1>11 DEF Cancel, LoadSession
<1>12. ASSUME UNCHANGED vars PROVE UNCHANGED <<sub, prompted>>
  BY <1>12 DEF vars, uiVars
<1> QED
  BY <1>1, <1>2, <1>3, <1>4, <1>5, <1>6, <1>7, <1>8, <1>9, <1>10, <1>11, <1>12
  DEF Next, Tab, Clicks

(* No submission is prompted twice: not by the effect that flushes the     *)
(* queued one, not by its uploads, not after a reconnect or a new task     *)
(* (App.tsx's handleSend and its effects).                                 *)
THEOREM SubmissionsAreSentOnce == Spec => []SentOnce
<1>1. Init => SentInv
  BY DEF Init, SentInv, Fates
<1>2. SentInv /\ [Next]_vars => SentInv'
  BY StepKeepsSent
<1>3. SentInv => SentOnce
  BY DEF SentInv, SentOnce
<1> QED
  BY <1>1, <1>2, <1>3, PTL DEF Spec

----------------------------------------------------------------------------
(* Places of a sequence                                                      *)

(* What holds of 0, and of a number when it holds of the one before.         *)
LEMMA CountingUp ==
  ASSUME NEW n \in Nat, NEW F, 0 \in F, \A i \in 0..(n - 1) : i \in F => i + 1 \in F
  PROVE  n \in F
<1> DEFINE bad == {i \in 0..n : i \notin F}
           T == {X \in SUBSET Nat : \E i \in bad : X = 0..i}
<1> SUFFICES ASSUME n \notin F PROVE FALSE
  OBVIOUS
<1>1. \A i \in Nat : 0..i \in SUBSET Nat /\ IsFiniteSet(0..i)
  BY FS_Interval
<1>2. T \subseteq FiniteSubsetsOf(Nat)
  BY <1>1 DEF FiniteSubsetsOf
<1>3. n \in bad
  OBVIOUS
<1>4. T # {}
  BY <1>1, <1>3
<1>5. PICK X \in T : \A Y \in T : ~(<<Y, X>> \in StrictSubsetOrdering(Nat))
  <2> HIDE DEF T
  <2> QED
    BY <1>2, <1>4, FS_StrictSubsetOrderingWellFounded, WFMin
<1>6. PICK i \in bad : X = 0..i
  OBVIOUS
<1>7. i \in Nat /\ i # 0 /\ i <= n
  BY <1>6
<1>8. i - 1 \in 0..(n - 1) /\ i - 1 \in 0..n
  BY <1>7
<1>9. CASE i - 1 \in F
  BY <1>6, <1>7, <1>8, <1>9
<1>10. CASE i - 1 \notin F
  <2>1. 0..(i - 1) \in T
    BY <1>1, <1>8, <1>10
  <2>2. 0..(i - 1) \subseteq 0..i /\ 0..(i - 1) # 0..i
    <3>1. i \in 0..i /\ i \notin 0..(i - 1)
      BY <1>7
    <3>2. 0..(i - 1) \subseteq 0..i
      BY <1>7
    <3> QED
      BY <3>1, <3>2
  <2> QED
    BY <1>5, <1>6, <2>1, <2>2 DEF StrictSubsetOrdering
<1> QED
  BY <1>9, <1>10

(* Every place has a rank, and every rank its place.                         *)
LEMMA NthFacts ==
  ASSUME NEW m \in Nat, NEW places \in SUBSET (1..m)
  PROVE  /\ IsFiniteSet(places) /\ Cardinality(places) \in Nat
         /\ \A n \in 1..Cardinality(places) :
              /\ Nth(places, n) \in places
              /\ Cardinality({j \in places : j <= Nth(places, n)}) = n
         /\ \A i \in places :
              /\ Cardinality({j \in places : j <= i}) \in 1..Cardinality(places)
              /\ Nth(places, Cardinality({j \in places : j <= i})) = i
<1> DEFINE n == Cardinality(places)
           upto(i) == {k \in places : k <= i}
           rank == [i \in places |-> Cardinality(upto(i))]
<1>1. /\ IsFiniteSet(1..m) /\ Cardinality(1..m) = m
  BY FS_Interval
<1>2. /\ IsFiniteSet(places) /\ n \in Nat /\ n <= m
  BY <1>1, FS_Subset, FS_CardinalityType
<1>3. \A j : Nth(places, j) = CHOOSE i \in places : Cardinality(upto(i)) = j
  BY DEF Nth
<1>4. ASSUME NEW i \in places
      PROVE  /\ i \in upto(i) /\ upto(i) \subseteq places /\ IsFiniteSet(upto(i))
             /\ rank[i] = Cardinality(upto(i)) /\ rank[i] \in 1..n
  <2>1. i \in upto(i) /\ upto(i) \subseteq places
    OBVIOUS
  <2> HIDE DEF upto
  <2>2. IsFiniteSet(upto(i)) /\ Cardinality(upto(i)) <= n /\ Cardinality(upto(i)) \in Nat
    BY <1>2, <2>1, FS_Subset, FS_CardinalityType
  <2>3. Cardinality(upto(i)) # 0
    BY <2>1, <2>2, FS_EmptySet
  <2> QED
    BY <1>2, <2>1, <2>2, <2>3
<1>5. ASSUME NEW i \in places, NEW j \in places, i < j
      PROVE  rank[i] < rank[j]
  <2>0. places \subseteq Nat
    OBVIOUS
  <2>1. upto(i) \subseteq upto(j) /\ j \notin upto(i)
    <3>1. i \in Nat /\ j \in Nat
      BY <2>0
    <3>2. \A k \in places : k \in Nat
      BY <2>0
    <3>3. ASSUME NEW k \in upto(i) PROVE k \in upto(j)
      BY <1>5, <3>1, <3>2
    <3>4. ~(j <= i)
      BY <1>5, <3>1
    <3> QED
      BY <3>3, <3>4
  <2>2. j \in upto(j)
    BY <1>4
  <2> HIDE DEF upto, rank
  <2>3. /\ Cardinality(upto(i)) <= Cardinality(upto(j))
        /\ Cardinality(upto(i)) = Cardinality(upto(j)) => upto(i) = upto(j)
    BY <1>4, <2>1, FS_Subset
  <2>4. rank[i] \in 1..n /\ rank[j] \in 1..n
    BY <1>4
  <2> QED
    BY <1>2, <1>4, <2>1, <2>2, <2>3, <2>4
<1>6. \A i, j \in places : rank[i] = rank[j] => i = j
  <2> SUFFICES ASSUME NEW i \in places, NEW j \in places, rank[i] = rank[j] PROVE i = j
    OBVIOUS
  <2>1. i \in Nat /\ j \in Nat
    OBVIOUS
  <2>2. rank[i] \in Nat /\ rank[j] \in Nat
    <3>1. rank[i] \in 1..n /\ rank[j] \in 1..n
      BY <1>4
    <3> HIDE DEF rank, n
    <3> QED
      BY <1>2, <3>1
  <2> HIDE DEF rank
  <2> QED
    BY <1>5, <2>1, <2>2
<1>7. rank \in Injection(places, 1..n)
  <2>1. rank = [i \in places |-> rank[i]]
    OBVIOUS
  <2>2. rank \in [places -> 1..n]
    <3>1. \A i \in places : rank[i] \in 1..n
      BY <1>4
    <3> HIDE DEF n, upto, rank
    <3> QED
      BY <2>1, <3>1
  <2> HIDE DEF n, upto, rank
  <2> QED
    BY <1>6, <2>2 DEF Injection, IsInjective
<1>8. \A j \in 1..n : \E i \in places : rank[i] = j
  <2>1. IsFiniteSet(1..n) /\ Cardinality(1..n) = n
    BY <1>2, FS_Interval
  <2> HIDE DEF upto, rank
  <2>2. rank \in Surjection(places, 1..n)
    BY <1>2, <1>7, <2>1, FS_Injection
  <2> QED
    BY <2>2 DEF Surjection
<1>9. ASSUME NEW j \in 1..n PROVE Nth(places, j) \in places /\ Cardinality(upto(Nth(places, j))) = j
  <2>1. \E i \in places : Cardinality(upto(i)) = j
    BY <1>4, <1>8
  <2> HIDE DEF upto
  <2> QED
    BY <1>3, <2>1
<1>10. ASSUME NEW i \in places
       PROVE  Cardinality(upto(i)) \in 1..n /\ Nth(places, Cardinality(upto(i))) = i
  <2>1. Cardinality(upto(i)) \in 1..n /\ rank[i] = Cardinality(upto(i))
    BY <1>4
  <2>2. /\ Nth(places, Cardinality(upto(i))) \in places
        /\ Cardinality(upto(Nth(places, Cardinality(upto(i))))) = Cardinality(upto(i))
    BY <1>9, <2>1
  <2>3. rank[Nth(places, Cardinality(upto(i)))] = rank[i]
    BY <1>4, <2>1, <2>2
  <2> HIDE DEF rank, upto
  <2> QED
    BY <1>6, <2>1, <2>2, <2>3
<1> QED
  BY <1>2, <1>9, <1>10

----------------------------------------------------------------------------
(* What a log says                                                           *)

TurnFrames == {"turn.started", "turn.delta", "tool.updated", "turn.completed"}
IsAbout(e, t) == e.type \in TurnFrames /\ e.of = t

(* The chunks of every turn are numbered in their order.                     *)
Numbered(l) ==
  \A t \in Turns : \A i \in SaidAt(l, t, "turn.delta") :
    l[i].arg = Cardinality({j \in SaidAt(l, t, "turn.delta") : j <= i})

Upto(n) == [i \in 1..n |-> i]
Count(l, t) == Cardinality(SaidAt(l, t, "turn.delta"))

LEMMA SaidPlaces ==
  ASSUME NEW X, NEW l \in Seq(X), NEW t, NEW type
  PROVE  Len(l) \in Nat /\ SaidAt(l, t, type) \in SUBSET (1..Len(l))
BY DEF SaidAt

LEMMA TextFacts ==
  ASSUME NEW X, NEW l \in Seq(X), NEW t \in Turns, Numbered(l)
  PROVE  Count(l, t) \in Nat /\ TextOf(l, t) = Upto(Count(l, t))
<1> DEFINE at == SaidAt(l, t, "turn.delta")
<1>1. Len(l) \in Nat /\ at \in SUBSET (1..Len(l))
  BY SaidPlaces
<1>2. \A i \in at : l[i].arg = Cardinality({j \in at : j <= i})
  BY DEF Numbered
<1>3. TextOf(l, t) = [i \in DOMAIN Picked(l, at) |-> Picked(l, at)[i].arg] /\ Count(l, t) = Cardinality(at)
  BY DEF TextOf, Said, Count
<1> HIDE DEF at
<1>4. /\ Cardinality(at) \in Nat
      /\ \A n \in 1..Cardinality(at) :
           Nth(at, n) \in at /\ Cardinality({j \in at : j <= Nth(at, n)}) = n
  BY <1>1, NthFacts
<1>5. Picked(l, at) = [n \in 1..Cardinality(at) |-> l[Nth(at, n)]]
  BY DEF Picked
<1>6. \A n \in 1..Cardinality(at) : Picked(l, at)[n].arg = n
  BY <1>2, <1>4, <1>5
<1> QED
  BY <1>3, <1>4, <1>5, <1>6 DEF Upto

(* A prefix of a log is numbered, and says no more.                          *)
LEMMA PrefixFacts ==
  ASSUME NEW X, NEW l \in Seq(X), NEW n \in 0..Len(l), Numbered(l)
  PROVE  /\ SubSeq(l, 1, n) \in Seq(X) /\ Numbered(SubSeq(l, 1, n))
         /\ \A t \in Turns : Count(SubSeq(l, 1, n), t) <= Count(l, t)
         /\ Len(SubSeq(l, 1, n)) = n
         /\ \A i \in 1..n : SubSeq(l, 1, n)[i] = l[i]
<1> DEFINE p == SubSeq(l, 1, n)
<1>1. p \in Seq(X) /\ Len(p) = n /\ (\A i \in 1..n : p[i] = l[i]) /\ Len(l) \in Nat /\ n \in Nat /\ n <= Len(l)
  OBVIOUS
<1> HIDE DEF p
<1>2. ASSUME NEW t \in Turns
      PROVE  SaidAt(p, t, "turn.delta") = {i \in SaidAt(l, t, "turn.delta") : i <= n}
  BY <1>1 DEF SaidAt
<1>3. ASSUME NEW t \in Turns PROVE Count(p, t) <= Count(l, t)
  <2>1. Len(l) \in Nat /\ SaidAt(l, t, "turn.delta") \in SUBSET (1..Len(l))
    BY SaidPlaces
  <2>2. IsFiniteSet(SaidAt(l, t, "turn.delta"))
    BY <2>1, NthFacts
  <2>3. SaidAt(p, t, "turn.delta") \subseteq SaidAt(l, t, "turn.delta")
    BY <1>2
  <2> QED
    BY <2>2, <2>3, FS_Subset DEF Count
<1>4. ASSUME NEW t \in Turns, NEW i \in SaidAt(p, t, "turn.delta")
      PROVE  p[i].arg = Cardinality({j \in SaidAt(p, t, "turn.delta") : j <= i})
  <2>1. i \in SaidAt(l, t, "turn.delta") /\ i <= n /\ i \in 1..n
    BY <1>1, <1>2 DEF SaidAt
  <2>2. SaidAt(l, t, "turn.delta") \subseteq Nat
    BY SaidPlaces
  <2>3. {j \in SaidAt(p, t, "turn.delta") : j <= i} = {j \in SaidAt(l, t, "turn.delta") : j <= i}
    <3>1. ASSUME NEW j \in SaidAt(l, t, "turn.delta"), j <= i PROVE j <= n
      BY <1>1, <2>1, <2>2, <3>1
    <3> QED
      BY <1>2, <3>1
  <2> QED
    BY <1>1, <2>1, <2>3 DEF Numbered
<1> QED
  BY <1>1, <1>3, <1>4 DEF p, Numbered

ShapedEntries == [role : {"user", "assistant"}, of : Turns, text : Seq(Nat)]

(* What the entries of a log are.                                            *)
IsEntryOf(e, l) ==
  /\ e \in ShapedEntries
  /\ e.text \in {<<>>, TextOf(l, e.of)}
  /\ e.role = "user" => e.text = <<>>
  /\ \E i \in DOMAIN l : IsAbout(l[i], e.of)

LEMMA TurnsOfLog ==
  ASSUME NEW X, NEW l \in Seq(X)
  PROVE  TurnsOf(l) \in Seq(Turns)
<1> DEFINE at == {i \in DOMAIN l : l[i].of \in Turns /\ \A j \in 1..(i - 1) : l[j].of # l[i].of}
<1>1. at \in SUBSET (1..Len(l)) /\ Len(l) \in Nat
  OBVIOUS
<1>2. TurnsOf(l) = [n \in 1..Cardinality(at) |-> Picked(l, at)[n].of]
  BY DEF TurnsOf
<1>3. \A i \in at : l[i].of \in Turns
  OBVIOUS
<1> HIDE DEF at
<1>4. Cardinality(at) \in Nat /\ \A n \in 1..Cardinality(at) : Nth(at, n) \in at
  BY <1>1, NthFacts
<1>5. \A n \in 1..Cardinality(at) : Picked(l, at)[n].of \in Turns
  BY <1>3, <1>4 DEF Picked
<1> QED
  BY <1>2, <1>4, <1>5

LEMMA EntriesOfLog ==
  ASSUME NEW X, NEW l \in Seq(X), \A t \in Turns : TextOf(l, t) \in Seq(Nat)
  PROVE  /\ EntriesOf(l) \in Seq(ShapedEntries)
         /\ \A n \in DOMAIN EntriesOf(l) : IsEntryOf(EntriesOf(l)[n], l)
<1> DEFINE turns   == TurnsOf(l)
           places  == 1..(2 * Len(turns))
           Turn(k) == turns[(k + 1) \div 2]
           all     == [k \in places |-> IF k % 2 = 1 THEN User(Turn(k))
                                        ELSE Answer(Turn(k), TextOf(l, Turn(k)))]
           at == {k \in places : \/ SaidAt(l, Turn(k), "turn.started") # {}
                                 \/ all[k].text # <<>>}
<1>1. turns \in Seq(Turns) /\ Len(turns) \in Nat /\ 2 * Len(turns) \in Nat
  BY TurnsOfLog
<1>2. EntriesOf(l) = Picked(all, at)
  BY DEF EntriesOf
<1>3. ASSUME NEW k \in at PROVE IsEntryOf(all[k], l)
  <2>1. k \in places
    OBVIOUS
  <2>2. (k + 1) \div 2 \in 1..Len(turns)
    <3> HIDE DEF turns
    <3> QED
      BY <1>1, <2>1
  <2>3. Turn(k) \in Turns
    BY <1>1, <2>2
  <2>4. all[k] \in {User(Turn(k)), Answer(Turn(k), TextOf(l, Turn(k)))}
    BY <2>1
  <2>5. SaidAt(l, Turn(k), "turn.started") # {} \/ all[k].text # <<>>
    OBVIOUS
  <2> HIDE DEF Turn, all, at, places, turns
  <2>6. /\ all[k] \in ShapedEntries /\ all[k].of = Turn(k)
        /\ all[k].text \in {<<>>, TextOf(l, all[k].of)}
        /\ all[k].role = "user" => all[k].text = <<>>
    <3>1. TextOf(l, Turn(k)) \in Seq(Nat)
      BY <2>3
    <3>2. CASE all[k] = User(Turn(k))
      BY <2>3, <3>2 DEF User, ShapedEntries
    <3>3. CASE all[k] = Answer(Turn(k), TextOf(l, Turn(k)))
      BY <2>3, <3>1, <3>3 DEF Answer, ShapedEntries
    <3> QED
      BY <2>4, <3>2, <3>3
  <2>7. CASE SaidAt(l, Turn(k), "turn.started") # {}
    <3>1. \E i \in DOMAIN l : IsAbout(l[i], Turn(k))
      BY <2>7 DEF SaidAt, IsAbout, TurnFrames
    <3> QED
      BY <2>6, <3>1 DEF IsEntryOf
  <2>8. CASE all[k].text # <<>>
    <3>1. TextOf(l, Turn(k)) # <<>> /\ TextOf(l, Turn(k)) \in Seq(Nat)
      BY <2>3, <2>6, <2>8
    <3>2. SaidAt(l, Turn(k), "turn.delta") # {}
      <4>1. ASSUME SaidAt(l, Turn(k), "turn.delta") = {} PROVE TextOf(l, Turn(k)) = <<>>
        <5>1. Cardinality(SaidAt(l, Turn(k), "turn.delta")) = 0
          BY <4>1, FS_EmptySet
        <5>2. DOMAIN TextOf(l, Turn(k)) = 1..0
          BY <5>1 DEF TextOf, Said, Picked
        <5> QED
          BY <3>1, <5>2
      <4> QED
        BY <3>1, <4>1
    <3>3. \E i \in DOMAIN l : IsAbout(l[i], Turn(k))
      BY <3>2 DEF SaidAt, IsAbout, TurnFrames
    <3> QED
      BY <2>6, <3>3 DEF IsEntryOf
  <2> QED
    BY <2>5, <2>7, <2>8
<1>4. at \in SUBSET (1..(2 * Len(turns)))
  OBVIOUS
<1> HIDE DEF at, all, turns, places
<1>5. Cardinality(at) \in Nat /\ \A n \in 1..Cardinality(at) : Nth(at, n) \in at
  BY <1>1, <1>4, NthFacts
<1>6. Picked(all, at) = [n \in 1..Cardinality(at) |-> all[Nth(at, n)]]
  BY DEF Picked
<1>7. \A n \in 1..Cardinality(at) : IsEntryOf(all[Nth(at, n)], l)
  BY <1>3, <1>5
<1>8. \A n \in 1..Cardinality(at) : all[Nth(at, n)] \in ShapedEntries
  BY <1>7 DEF IsEntryOf
<1> QED
  BY <1>2, <1>5, <1>6, <1>7, <1>8

----------------------------------------------------------------------------
(* What is on its way                                                        *)

SeatFrames == [type : {"session.opened", "session.loaded", "session.closed", "seat.reaped"},
               of : Sessions, arg : {0}]
Failures  == [type : {"session.failed"}, of : Sessions \cup {NoSession}, arg : {0}]
PromptRefusals == [type : {"command.result"}, of : Turns, arg : {"session.prompt"}]
OtherRefusals == [type : {"command.result"}, of : {NoTurn},
                  arg : {"session.open", "session.load", "session.cancel", "session.close"}]
Starts    == [type : {"turn.started"}, of : Turns, arg : {0}]
Deltas    == [type : {"turn.delta"}, of : Turns, arg : Nat]
Tools     == [type : {"tool.updated"}, of : Turns, arg : {"active", "completed"}]
Ends      == [type : {"turn.completed"}, of : Turns, arg : {"ended", "failed"}]
Frames    == SeatFrames \cup Failures \cup PromptRefusals \cup OtherRefusals
               \cup Starts \cup Deltas \cup Tools \cup Ends

Commands ==
  [type : {"session.open"}, of : {NoSession}, arg : {0}]
    \cup [type : {"session.load", "session.cancel", "session.close"}, of : Sessions, arg : {0}]
    \cup [type : {"session.prompt"}, of : Sessions, arg : Turns]

ShapedViews ==
  [conn : {"connecting", "open", "closed"},
   session : {"none", "opening", "open", "failed"},
   of : Sessions \cup {NoSession},
   turn : Turns \cup {NoTurn},
   prompt : Turns \cup {NoTurn},
   status : {"idle", "running", "cancelling", "done", "error"},
   entries : Seq(ShapedEntries),
   card : Cards]

IsOpen(e) == e.type = "session.opened"
IsGone(e) == e.type \in {"session.closed", "seat.reaped"}

SameCore(v, w) ==
  /\ w.conn = v.conn /\ w.session = v.session /\ w.of = v.of
  /\ w.turn = v.turn /\ w.prompt = v.prompt /\ w.status = v.status
Owners(v) == {v.entries[i].of : i \in DOMAIN v.entries}

----------------------------------------------------------------------------
(* The reducer, field by field                                               *)

LEMMA CappedFacts ==
  ASSUME NEW X, NEW q \in Seq(X)
  PROVE  /\ Capped(q) \in Seq(X)
         /\ \A i \in DOMAIN Capped(q) : \E j \in DOMAIN q : Capped(q)[i] = q[j]
<1>1. MaxViewEntries \in Nat /\ Len(q) \in Nat
  BY BoundsAreNatural
<1>2. PICK a \in Nat \ {0} : a <= Len(q) + 1 /\ Capped(q) = SubSeq(q, a, Len(q))
  <2>1. CASE Len(q) > MaxViewEntries
    <3>1. /\ Len(q) - MaxViewEntries + 1 \in Nat \ {0}
          /\ Len(q) - MaxViewEntries + 1 <= Len(q) + 1
      BY <1>1, <2>1
    <3>2. Capped(q) = SubSeq(q, Len(q) - MaxViewEntries + 1, Len(q))
      BY <2>1 DEF Capped
    <3> QED
      BY <3>1, <3>2
  <2>2. CASE ~(Len(q) > MaxViewEntries)
    <3>1. Capped(q) = SubSeq(q, 1, Len(q))
      BY <2>2 DEF Capped
    <3>2. 1 \in Nat \ {0} /\ 1 <= Len(q) + 1
      BY <1>1
    <3> QED
      BY <3>1, <3>2
  <2> QED
    BY <2>1, <2>2
<1>3. SubSeq(q, a, Len(q)) \in Seq(X)
  BY <1>1, <1>2
<1>4. \A i \in DOMAIN SubSeq(q, a, Len(q)) :
        i + a - 1 \in DOMAIN q /\ SubSeq(q, a, Len(q))[i] = q[i + a - 1]
  BY <1>1, <1>2
<1> QED
  BY <1>2, <1>3, <1>4

(* What a chunk makes of one entry.                                          *)
Grown(e, t, n) == IF e.role = "assistant" /\ e.of = t THEN Answer(t, Append(e.text, n)) ELSE e

LEMMA AppendFacts ==
  ASSUME NEW q \in Seq(ShapedEntries), NEW t \in Turns, NEW n \in Nat
  PROVE  /\ AppendTo(q, t, n) \in Seq(ShapedEntries)
         /\ \A i \in DOMAIN AppendTo(q, t, n) : \E j \in DOMAIN q :
              AppendTo(q, t, n)[i] = Grown(q[j], t, n)
<1> DEFINE g == [i \in DOMAIN q |-> Grown(q[i], t, n)]
<1>1. \A e \in ShapedEntries : Grown(e, t, n) \in ShapedEntries
  BY DEF Grown, Answer, ShapedEntries
<1>2. g \in Seq(ShapedEntries) /\ DOMAIN g = DOMAIN q
  BY <1>1
<1>3. CASE \E i \in DOMAIN q : q[i].role = "assistant" /\ q[i].of = t
  <2>1. AppendTo(q, t, n) = Capped(g)
    BY <1>3 DEF AppendTo, Grown
  <2> HIDE DEF g
  <2>2. /\ Capped(g) \in Seq(ShapedEntries)
        /\ \A i \in DOMAIN Capped(g) : \E j \in DOMAIN g : Capped(g)[i] = g[j]
    BY <1>2, CappedFacts
  <2>3. \A j \in DOMAIN g : g[j] = Grown(q[j], t, n)
    BY DEF g
  <2> QED
    BY <1>2, <2>1, <2>2, <2>3
<1>4. CASE ~\E i \in DOMAIN q : q[i].role = "assistant" /\ q[i].of = t
  <2>1. AppendTo(q, t, n) = q
    BY <1>4 DEF AppendTo
  <2>2. \A i \in DOMAIN q : q[i] = Grown(q[i], t, n)
    BY <1>4 DEF Grown
  <2> QED
    BY <2>1, <2>2
<1> QED
  BY <1>3, <1>4

(* A chunk or a tool card.                                                   *)
LEMMA CoalescedFacts ==
  ASSUME NEW v \in ShapedViews, NEW e \in Frames, Coalesced(e)
  PROVE  /\ Applied(v, e) \in ShapedViews /\ SameCore(v, Applied(v, e))
         /\ \/ Applied(v, e).entries = v.entries
            \/ /\ e \in Deltas /\ v.turn = e.of /\ ~IsTerminal(v)
               /\ Applied(v, e).entries = AppendTo(v.entries, e.of, e.arg)
         /\ e \in Deltas /\ v.turn = e.of /\ ~IsTerminal(v) =>
              Applied(v, e).entries = AppendTo(v.entries, e.of, e.arg)
         /\ e \in Deltas \cup Tools
<1>1. e \in Deltas \cup Tools
  BY DEF Frames, SeatFrames, Failures, PromptRefusals, OtherRefusals, Starts, Ends, Deltas, Tools, Coalesced
<1>2. CASE e \in Deltas
  <2>1. e.type = "turn.delta" /\ e.of \in Turns /\ e.arg \in Nat
    BY <1>2 DEF Deltas
  <2>2. Applied(v, e) = TurnDelta(v, e.of, e.arg)
    BY <2>1 DEF Applied
  <2>3. CASE v.turn = e.of /\ ~IsTerminal(v)
    <3>1. Applied(v, e) = [v EXCEPT !.entries = AppendTo(v.entries, e.of, e.arg)]
      BY <2>2, <2>3 DEF TurnDelta
    <3>2. AppendTo(v.entries, e.of, e.arg) \in Seq(ShapedEntries)
      BY <2>1, AppendFacts DEF ShapedViews
    <3> QED
      BY <1>1, <1>2, <2>3, <3>1, <3>2 DEF ShapedViews, SameCore
  <2>4. CASE ~(v.turn = e.of /\ ~IsTerminal(v))
    BY <1>1, <2>2, <2>4 DEF TurnDelta, SameCore
  <2> QED
    BY <2>3, <2>4
<1>3. CASE e \in Tools
  <2>1. e.type = "tool.updated" /\ e.of \in Turns /\ e.arg \in {"active", "completed"}
    BY <1>3 DEF Tools
  <2>2. Applied(v, e) = ToolUpdated(v, e.of, e.arg)
    BY <2>1 DEF Applied
  <2>3. e \notin Deltas
    BY <2>1 DEF Deltas
  <2>4. Applied(v, e) = v \/ Applied(v, e) = [v EXCEPT !.card = e.arg]
    BY <2>2 DEF ToolUpdated
  <2> QED
    BY <1>1, <2>1, <2>3, <2>4 DEF ShapedViews, SameCore, Cards
<1> QED
  BY <1>1, <1>2, <1>3

LEMMA OwnersAppend ==
  ASSUME NEW v \in ShapedViews, NEW e \in Frames, Coalesced(e)
  PROVE  Owners(Applied(v, e)) \subseteq Owners(v)
<1>1. CASE Applied(v, e).entries = v.entries
  BY <1>1 DEF Owners
<1>2. CASE e \in Deltas /\ Applied(v, e).entries = AppendTo(v.entries, e.of, e.arg)
  <2>1. e.of \in Turns /\ e.arg \in Nat /\ v.entries \in Seq(ShapedEntries)
    BY <1>2 DEF Deltas, ShapedViews
  <2>2. \A i \in DOMAIN Applied(v, e).entries : \E j \in DOMAIN v.entries :
          Applied(v, e).entries[i] = Grown(v.entries[j], e.of, e.arg)
    <3> DEFINE q == v.entries
    <3> HIDE DEF q
    <3>1. \A i \in DOMAIN AppendTo(q, e.of, e.arg) : \E j \in DOMAIN q :
            AppendTo(q, e.of, e.arg)[i] = Grown(q[j], e.of, e.arg)
      BY <2>1, AppendFacts DEF q
    <3>2. Applied(v, e).entries = AppendTo(q, e.of, e.arg)
      BY <1>2 DEF q
    <3>3. \A i \in DOMAIN Applied(v, e).entries : \E j \in DOMAIN q :
            Applied(v, e).entries[i] = Grown(q[j], e.of, e.arg)
      BY <3>1, <3>2
    <3> QED
      BY <3>3 DEF q
  <2>3. \A x \in ShapedEntries : Grown(x, e.of, e.arg).of = x.of
    BY DEF Grown, Answer
  <2>4. \A j \in DOMAIN v.entries : v.entries[j] \in ShapedEntries
    BY <2>1
  <2> QED
    BY <2>2, <2>3, <2>4 DEF Owners
<1> QED
  BY <1>1, <1>2, CoalescedFacts

----------------------------------------------------------------------------
(* One event after the other                                                 *)

IsAfter(a, v, es, n) ==
  a = [i \in 0..n |-> IF i = 0 THEN v ELSE Applied(a[i - 1], es[i])]

LEMMA AfterExists ==
  ASSUME NEW v, NEW es, NEW n \in Nat
  PROVE  \E a : IsAfter(a, v, es, n)
<1> DEFINE F == {k \in Nat : \E a : IsAfter(a, v, es, k)}
<1>1. 0 \in F
  <2> DEFINE a == [i \in 0..0 |-> v]
  <2>1. a = [i \in 0..0 |-> IF i = 0 THEN v ELSE Applied(a[i - 1], es[i])]
    OBVIOUS
  <2> HIDE DEF a
  <2> QED
    BY <2>1 DEF IsAfter
<1>2. ASSUME NEW k \in 0..(n - 1), k \in F PROVE k + 1 \in F
  <2>1. PICK a : IsAfter(a, v, es, k)
    BY <1>2
  <2>2. /\ a = [i \in 0..k |-> IF i = 0 THEN v ELSE Applied(a[i - 1], es[i])]
        /\ k \in Nat /\ k + 1 \in Nat
    BY <2>1 DEF IsAfter
  <2> DEFINE b == [i \in 0..(k + 1) |-> IF i = k + 1 THEN Applied(a[k], es[k + 1]) ELSE a[i]]
             r(i) == IF i = 0 THEN v ELSE Applied(b[i - 1], es[i])
  <2>3. ASSUME NEW i \in 0..(k + 1) PROVE b[i] = r(i)
    <3>1. CASE i = k + 1
      <4>1. b[i] = Applied(a[k], es[k + 1]) /\ b[k] = a[k] /\ i # 0 /\ i - 1 = k
        BY <2>2, <3>1
      <4> QED
        BY <3>1, <4>1
    <3>2. CASE i # k + 1
      <4>1. i \in 0..k /\ b[i] = a[i]
        BY <2>2, <3>2
      <4>2. CASE i = 0
        BY <2>2, <4>1, <4>2
      <4>3. CASE i # 0
        <5>1. a[i] = Applied(a[i - 1], es[i])
          BY <2>2, <4>1, <4>3
        <5>2. i - 1 \in 0..(k + 1) /\ i - 1 # k + 1
          BY <2>2, <4>1, <4>3
        <5>3. b[i - 1] = a[i - 1]
          BY <5>2
        <5> QED
          BY <4>1, <4>3, <5>1, <5>3
      <4> QED
        BY <4>2, <4>3
    <3> QED
      BY <3>1, <3>2
  <2>4. b = [i \in 0..(k + 1) |-> b[i]]
    OBVIOUS
  <2>5. b = [i \in 0..(k + 1) |-> r(i)]
    BY <2>3, <2>4
  <2>6. b = [i \in 0..(k + 1) |-> IF i = 0 THEN v ELSE Applied(b[i - 1], es[i])]
    BY <2>5
  <2> HIDE DEF b, r
  <2> QED
    BY <2>2, <2>6 DEF IsAfter
<1> HIDE DEF F
<1>3. n \in F
  BY <1>1, <1>2, CountingUp
<1> QED
  BY <1>3 DEF F

LEMMA Applying ==
  ASSUME NEW v, NEW X, NEW es \in Seq(X)
  PROVE  \E a : /\ a[0] = v /\ AppliedAll(v, es) = a[Len(es)]
                /\ \A i \in 0..(Len(es) - 1) : a[i + 1] = Applied(a[i], es[i + 1])
<1> DEFINE a == CHOOSE f : IsAfter(f, v, es, Len(es))
<1>1. Len(es) \in Nat
  OBVIOUS
<1>2. IsAfter(a, v, es, Len(es))
  BY <1>1, AfterExists
<1>3. AppliedAll(v, es) = a[Len(es)]
  BY DEF AppliedAll, IsAfter
<1> HIDE DEF a
<1>4. a = [i \in 0..Len(es) |-> IF i = 0 THEN v ELSE Applied(a[i - 1], es[i])]
  BY <1>2 DEF IsAfter
<1>5. a[0] = v
  BY <1>1, <1>4
<1>6. ASSUME NEW i \in 0..(Len(es) - 1) PROVE a[i + 1] = Applied(a[i], es[i + 1])
  <2>1. i + 1 \in 0..Len(es) /\ i + 1 # 0 /\ (i + 1) - 1 = i
    BY <1>1
  <2> QED
    BY <1>4, <2>1
<1> QED
  BY <1>3, <1>5, <1>6

(* The frames that were held back leave all but the entries and the card.    *)
LEMMA PendingFacts ==
  ASSUME NEW v \in ShapedViews, NEW es \in Seq(Frames), \A i \in DOMAIN es : Coalesced(es[i])
  PROVE  /\ AppliedAll(v, es) \in ShapedViews /\ SameCore(v, AppliedAll(v, es))
         /\ Owners(AppliedAll(v, es)) \subseteq Owners(v)
<1>1. PICK a : /\ a[0] = v /\ AppliedAll(v, es) = a[Len(es)]
               /\ \A i \in 0..(Len(es) - 1) : a[i + 1] = Applied(a[i], es[i + 1])
  BY Applying
<1> DEFINE F == {i \in 0..Len(es) : a[i] \in ShapedViews /\ SameCore(v, a[i]) /\ Owners(a[i]) \subseteq Owners(v)}
<1>2. 0 \in F /\ Len(es) \in Nat
  BY <1>1 DEF SameCore
<1>3. ASSUME NEW i \in 0..(Len(es) - 1), i \in F PROVE i + 1 \in F
  <2>1. i + 1 \in DOMAIN es /\ i + 1 \in 0..Len(es)
    BY <1>2
  <2>2. es[i + 1] \in Frames /\ Coalesced(es[i + 1])
    BY <2>1
  <2>3. a[i] \in ShapedViews /\ SameCore(v, a[i]) /\ Owners(a[i]) \subseteq Owners(v)
    BY <1>3
  <2>4. a[i + 1] \in ShapedViews /\ SameCore(a[i], a[i + 1]) /\ Owners(a[i + 1]) \subseteq Owners(a[i])
    BY <1>1, <2>2, <2>3, CoalescedFacts, OwnersAppend
  <2> QED
    BY <2>1, <2>3, <2>4 DEF SameCore
<1> HIDE DEF F
<1>4. Len(es) \in F
  BY <1>2, <1>3, CountingUp
<1> QED
  BY <1>1, <1>4 DEF F

----------------------------------------------------------------------------
(* The other frames                                                          *)

LEMMA FrameFacts ==
  ASSUME NEW e \in Frames
  PROVE  /\ IsOpen(e) \/ IsGone(e) => e \in SeatFrames /\ e.of \in Sessions
         /\ e.type \in TurnFrames => e \in Starts \cup Deltas \cup Tools \cup Ends /\ e.of \in Turns
         /\ e.type = "turn.delta" => e \in Deltas /\ e.arg \in Nat
         /\ e.type = "turn.started" => e = Started(e.of)
         /\ e.type = "command.result" => e \in PromptRefusals \cup OtherRefusals
         /\ e.type = "turn.completed" => e \in Ends
         /\ e.type \in {"session.opened", "session.loaded", "session.closed", "seat.reaped",
                        "session.failed", "command.result", "turn.started", "turn.delta",
                        "tool.updated", "turn.completed"}
         /\ IsOpen(e) => e = Opened(e.of)
BY DEF Frames, SeatFrames, Failures, PromptRefusals, OtherRefusals, Starts, Deltas, Tools, Ends,
       IsOpen, IsGone, TurnFrames, Started, Opened, Event

Blank(w) ==
  /\ w.turn = NoTurn /\ w.prompt = NoTurn /\ w.status = "idle" /\ w.entries = <<>>

LEMMA OpenedFacts ==
  ASSUME NEW v \in ShapedViews, NEW e \in Frames, IsOpen(e)
  PROVE  LET w == Applied(v, e) IN
         /\ w \in ShapedViews /\ w.conn = v.conn /\ w.session = "open" /\ w.of = e.of
         /\ \/ /\ v.of = e.of /\ w.turn = v.turn /\ w.prompt = v.prompt /\ w.status = v.status
               /\ w.entries = v.entries
            \/ v.of # e.of /\ Blank(w)
<1>1. e.of \in Sessions /\ Applied(v, e) = SessionOpened(v, e.of)
  BY FrameFacts DEF Applied, IsOpen
<1>2. CASE v.of = e.of
  <2>1. Applied(v, e) = [v EXCEPT !.session = "open"]
    BY <1>1, <1>2 DEF SessionOpened
  <2> QED
    BY <1>2, <2>1 DEF ShapedViews
<1>3. CASE v.of # e.of
  <2>1. Applied(v, e) = [InitialView EXCEPT !.conn = v.conn, !.session = "open", !.of = e.of]
    BY <1>1, <1>3 DEF SessionOpened
  <2>2. <<>> \in Seq(ShapedEntries)
    OBVIOUS
  <2> QED
    BY <1>1, <1>3, <2>1, <2>2 DEF ShapedViews, InitialView, Blank, Cards
<1> QED
  BY <1>2, <1>3

LEMMA GoneFacts ==
  ASSUME NEW v \in ShapedViews, NEW e \in Frames, IsGone(e)
  PROVE  LET w == Applied(v, e) IN
         /\ w \in ShapedViews /\ w.conn = v.conn /\ w.turn = v.turn /\ w.entries = v.entries
         /\ \/ /\ v.of = e.of /\ w.session = "none" /\ w.of = NoSession /\ w.prompt = NoTurn
               /\ w.status = StatusOr(v, "idle")
            \/ v.of # e.of /\ w = v
<1>1. e.of \in Sessions
  BY FrameFacts
<1>2. PICK card \in Cards : Applied(v, e) = SessionGone(v, e.of, card)
  BY DEF Applied, IsGone, Cards
<1>3. CASE v.of = e.of
  <2>1. Applied(v, e) = [v EXCEPT !.session = "none", !.of = NoSession, !.prompt = NoTurn,
                                  !.status = StatusOr(v, "idle"), !.card = card]
    BY <1>2, <1>3 DEF SessionGone, SessionGoneUnscoped
  <2>2. StatusOr(v, "idle") \in {"idle", "running", "cancelling", "done", "error"}
    BY DEF StatusOr, ShapedViews
  <2>3. /\ Applied(v, e).session = "none" /\ Applied(v, e).of = NoSession /\ Applied(v, e).prompt = NoTurn
        /\ Applied(v, e).status = StatusOr(v, "idle") /\ Applied(v, e).turn = v.turn
        /\ Applied(v, e).entries = v.entries /\ Applied(v, e).conn = v.conn
    BY <2>1 DEF ShapedViews
  <2>4. Applied(v, e) \in ShapedViews
    BY <2>1, <2>2 DEF ShapedViews
  <2> QED
    BY <1>3, <2>3, <2>4
<1>4. CASE v.of # e.of
  BY <1>2, <1>4 DEF SessionGone
<1> QED
  BY <1>3, <1>4

LEMMA FailedFacts ==
  ASSUME NEW v \in ShapedViews, NEW e \in Frames, e.type = "session.failed"
  PROVE  LET w == Applied(v, e) IN
         /\ w \in ShapedViews /\ w.conn = v.conn /\ w.turn = v.turn /\ w.entries = v.entries
         /\ w.of = v.of /\ w.prompt = v.prompt
         /\ w.session = "failed" /\ w.status = StatusOr(v, "error")
<1>1. Applied(v, e) = [v EXCEPT !.session = "failed", !.status = StatusOr(v, "error")]
  BY DEF Applied, SessionFailed
<1>2. StatusOr(v, "error") \in {"idle", "running", "cancelling", "done", "error"}
  BY DEF StatusOr, ShapedViews
<1> QED
  BY <1>1, <1>2 DEF ShapedViews

LEMMA RefusedFacts ==
  ASSUME NEW v \in ShapedViews, NEW e \in Frames, e.type = "command.result"
  PROVE  LET w == Applied(v, e) IN
         /\ w \in ShapedViews /\ w.conn = v.conn /\ w.turn = v.turn /\ w.entries = v.entries
         /\ w.of = v.of /\ w.prompt = v.prompt
         /\ \/ v.session = "opening" /\ w.session = "failed" /\ w.status = StatusOr(v, "error")
            \/ /\ e = Refusal("session.prompt", v.prompt) /\ v.prompt \in Turns
               /\ w.session = v.session /\ w.status = "error"
            \/ w = v
         /\ e = Refusal("session.prompt", v.prompt) => ~IsLive(w)
<1>1. Applied(v, e) = Refused(v, e.arg, e.of)
  BY DEF Applied
<1>2. e \in PromptRefusals \cup OtherRefusals
  BY FrameFacts
<1>3. CASE e.arg = "session.open" /\ v.session = "opening"
  <2>1. Applied(v, e) = [v EXCEPT !.session = "failed", !.status = StatusOr(v, "error")]
    BY <1>1, <1>3 DEF Refused
  <2>2. StatusOr(v, "error") \in {"idle", "running", "cancelling", "done", "error"}
    BY DEF StatusOr, ShapedViews
  <2>3. e # Refusal("session.prompt", v.prompt)
    BY <1>3 DEF Refusal, Event
  <2> QED
    BY <1>3, <2>1, <2>2, <2>3 DEF ShapedViews
<1>4. CASE e.arg = "session.prompt" /\ v.prompt = e.of /\ IsLive(v)
  <2>1. Applied(v, e) = [v EXCEPT !.status = "error"]
    BY <1>1, <1>4 DEF Refused
  <2>2. e \in PromptRefusals
    BY <1>2, <1>4 DEF OtherRefusals
  <2>3. e = Refusal("session.prompt", v.prompt) /\ v.prompt \in Turns
    BY <1>4, <2>2 DEF PromptRefusals, Refusal, Event
  <2>4. /\ Applied(v, e) \in ShapedViews /\ Applied(v, e).status = "error"
        /\ Applied(v, e).conn = v.conn /\ Applied(v, e).turn = v.turn /\ Applied(v, e).entries = v.entries
        /\ Applied(v, e).of = v.of /\ Applied(v, e).prompt = v.prompt /\ Applied(v, e).session = v.session
    BY <2>1 DEF ShapedViews
  <2> QED
    BY <2>3, <2>4 DEF IsLive
<1>5. CASE ~(e.arg = "session.open" /\ v.session = "opening") /\ ~(e.arg = "session.prompt" /\ v.prompt = e.of /\ IsLive(v))
  <2>1. Applied(v, e) = v
    BY <1>1, <1>5 DEF Refused
  <2>2. e = Refusal("session.prompt", v.prompt) => ~IsLive(v)
    BY <1>5 DEF Refusal, Event
  <2> QED
    BY <2>1, <2>2
<1> QED
  BY <1>3, <1>4, <1>5

LEMMA StartedFacts ==
  ASSUME NEW v \in ShapedViews, NEW e \in Frames, e.type = "turn.started"
  PROVE  LET w == Applied(v, e) IN
         /\ w \in ShapedViews /\ w.conn = v.conn /\ w.turn = v.turn /\ w.entries = v.entries
         /\ w.of = v.of /\ w.session = v.session
         /\ \/ v.turn = e.of /\ w.status = "running" /\ w.prompt = NoTurn
            \/ v.turn # e.of /\ w = v
<1>1. Applied(v, e) = TurnStarted(v, e.of)
  BY DEF Applied
<1>2. CASE v.turn = e.of
  <2>1. Applied(v, e) = [v EXCEPT !.status = "running", !.prompt = NoTurn]
    BY <1>1, <1>2 DEF TurnStarted
  <2> QED
    BY <1>2, <2>1 DEF ShapedViews
<1>3. CASE v.turn # e.of
  BY <1>1, <1>3 DEF TurnStarted
<1> QED
  BY <1>2, <1>3

LEMMA CompletedFacts ==
  ASSUME NEW v \in ShapedViews, NEW e \in Frames, e.type = "turn.completed"
  PROVE  LET w == Applied(v, e) IN
         /\ w \in ShapedViews /\ w.conn = v.conn /\ w.turn = v.turn /\ w.entries = v.entries
         /\ w.of = v.of /\ w.session = v.session
         /\ \/ /\ v.turn = e.of /\ ~IsTerminal(v)
               /\ w.status \in {"done", "error"} /\ w.prompt = NoTurn
            \/ (v.turn # e.of \/ IsTerminal(v)) /\ w = v
<1>1. Applied(v, e) = TurnCompleted(v, e.of, e.arg)
  BY DEF Applied
<1>2. CASE v.turn = e.of /\ ~IsTerminal(v)
  <2>1. PICK st \in {"done", "error"}, card \in Cards :
          Applied(v, e) = [v EXCEPT !.status = st, !.prompt = NoTurn, !.card = card]
    <3>1. Applied(v, e) = [v EXCEPT !.status = IF e.arg = "failed" THEN "error" ELSE "done",
                                    !.prompt = NoTurn,
                                    !.card = IF v.card = "active" THEN "cancelled" ELSE v.card]
      BY <1>1, <1>2 DEF TurnCompleted
    <3>2. (IF v.card = "active" THEN "cancelled" ELSE v.card) \in Cards
      BY DEF ShapedViews, Cards
    <3> QED
      BY <3>1, <3>2
  <2> QED
    BY <1>2, <2>1 DEF ShapedViews
<1>3. CASE ~(v.turn = e.of /\ ~IsTerminal(v))
  <2>1. Applied(v, e) = v
    BY <1>1, <1>3 DEF TurnCompleted
  <2> QED
    BY <1>3, <2>1
<1> QED
  BY <1>2, <1>3

LEMMA LoadedFacts ==
  ASSUME NEW v, NEW e, e.type = "session.loaded"
  PROVE  Applied(v, e) = v
BY DEF Applied

----------------------------------------------------------------------------
(* A stored transcript                                                       *)

LEMMA TextIsTyped ==
  ASSUME NEW l \in Seq(Frames), NEW t \in Turns
  PROVE  TextOf(l, t) \in Seq(Nat)
<1> DEFINE at == SaidAt(l, t, "turn.delta")
<1>1. Len(l) \in Nat /\ at \in SUBSET (1..Len(l))
  BY SaidPlaces
<1>2. \A i \in at : l[i].arg \in Nat
  <2>1. \A i \in DOMAIN l : l[i] \in Frames
    OBVIOUS
  <2> QED
    BY <2>1, FrameFacts DEF SaidAt
<1>3. TextOf(l, t) = [i \in DOMAIN Picked(l, at) |-> Picked(l, at)[i].arg]
  BY DEF TextOf, Said
<1> HIDE DEF at
<1>4. Cardinality(at) \in Nat /\ \A n \in 1..Cardinality(at) : Nth(at, n) \in at
  BY <1>1, NthFacts
<1>5. Picked(l, at) = [n \in 1..Cardinality(at) |-> l[Nth(at, n)]]
  BY DEF Picked
<1>6. \A n \in 1..Cardinality(at) : Picked(l, at)[n].arg \in Nat
  BY <1>2, <1>4, <1>5
<1> DEFINE p == Picked(l, at)
<1>7. DOMAIN p = 1..Cardinality(at)
  BY <1>5
<1>8. TextOf(l, t) = [i \in 1..Cardinality(at) |-> p[i].arg]
  BY <1>3, <1>7
<1> HIDE DEF p
<1>9. \A n \in 1..Cardinality(at) : p[n].arg \in Nat
  BY <1>6 DEF p
<1> QED
  BY <1>4, <1>8, <1>9

LEMMA HydrateFacts ==
  ASSUME NEW v \in ShapedViews, NEW l \in Seq(Frames)
  PROVE  LET w == HydrateTranscript(v, l) IN
         /\ w \in ShapedViews /\ w.conn = v.conn /\ w.session = v.session /\ w.of = v.of
         /\ w.prompt = v.prompt /\ w.turn = NoTurn /\ w.status \in {"idle", "error"}
         /\ \A i \in DOMAIN w.entries : IsEntryOf(w.entries[i], l)
<1>1. /\ EntriesOf(l) \in Seq(ShapedEntries)
      /\ \A n \in DOMAIN EntriesOf(l) : IsEntryOf(EntriesOf(l)[n], l)
  BY TextIsTyped, EntriesOfLog
<1>2. /\ Capped(EntriesOf(l)) \in Seq(ShapedEntries)
      /\ \A i \in DOMAIN Capped(EntriesOf(l)) : IsEntryOf(Capped(EntriesOf(l))[i], l)
  <2> DEFINE q == EntriesOf(l)
  <2> HIDE DEF q
  <2>1. q \in Seq(ShapedEntries) /\ \A n \in DOMAIN q : IsEntryOf(q[n], l)
    BY <1>1 DEF q
  <2>2. /\ Capped(q) \in Seq(ShapedEntries)
        /\ \A i \in DOMAIN Capped(q) : \E j \in DOMAIN q : Capped(q)[i] = q[j]
    BY <2>1, CappedFacts
  <2> QED
    BY <2>1, <2>2 DEF q
<1>3. \A t : CardOf(l, t) \in Cards
  BY DEF CardOf, Cards
<1>4. PICK st \in {"idle", "error"}, card \in Cards :
        HydrateTranscript(v, l) =
          [v EXCEPT !.entries = Capped(EntriesOf(l)), !.turn = NoTurn, !.status = st, !.card = card]
  BY <1>3 DEF HydrateTranscript, Cards
<1>5. NoTurn \in Turns \cup {NoTurn} /\ st \in {"idle", "running", "cancelling", "done", "error"}
  OBVIOUS
<1> DEFINE q == Capped(EntriesOf(l))
<1>6. q \in Seq(ShapedEntries) /\ \A i \in DOMAIN q : IsEntryOf(q[i], l)
  BY <1>2
<1>7. HydrateTranscript(v, l) = [v EXCEPT !.entries = q, !.turn = NoTurn, !.status = st, !.card = card]
  BY <1>4
<1> HIDE DEF q
<1>8. HydrateTranscript(v, l) \in ShapedViews
  BY <1>5, <1>6, <1>7 DEF ShapedViews
<1>9. /\ HydrateTranscript(v, l).conn = v.conn /\ HydrateTranscript(v, l).session = v.session
      /\ HydrateTranscript(v, l).of = v.of /\ HydrateTranscript(v, l).prompt = v.prompt
      /\ HydrateTranscript(v, l).turn = NoTurn /\ HydrateTranscript(v, l).status = st
      /\ HydrateTranscript(v, l).entries = q
  BY <1>7 DEF ShapedViews
<1> QED
  BY <1>6, <1>8, <1>9

----------------------------------------------------------------------------
(* What the user does to the view                                            *)

LEMMA RejectFacts ==
  ASSUME NEW v \in ShapedViews
  PROVE  LET w == RejectLocal(v) IN
         /\ w \in ShapedViews /\ w.conn = v.conn /\ w.session = v.session /\ w.of = v.of
         /\ w.turn = v.turn /\ w.prompt = v.prompt /\ w.entries = v.entries
         /\ w.status = StatusOr(v, "error") /\ ~IsLive(w)
<1>1. RejectLocal(v) = [v EXCEPT !.status = StatusOr(v, "error")]
  BY DEF RejectLocal
<1>2. StatusOr(v, "error") \in {"done", "error"}
  BY DEF StatusOr, IsTerminal
<1> QED
  BY <1>1, <1>2 DEF ShapedViews, IsLive

LEMMA BeginFacts ==
  ASSUME NEW v \in ShapedViews, NEW t \in Turns
  PROVE  LET w == BeginTurn(v, t) IN
         /\ w \in ShapedViews /\ w.conn = v.conn /\ w.session = v.session /\ w.of = v.of
         /\ \/ IsLive(v) /\ w = v
            \/ /\ ~IsLive(v) /\ w.turn = t /\ w.prompt = t /\ w.status = "running"
               /\ w.entries = v.entries \o <<User(t), Answer(t, <<>>)>>
<1>1. CASE IsLive(v)
  BY <1>1 DEF BeginTurn
<1>2. CASE ~IsLive(v)
  <2> DEFINE q == v.entries \o <<User(t), Answer(t, <<>>)>>
  <2>1. BeginTurn(v, t) = [v EXCEPT !.turn = t, !.prompt = t, !.status = "running", !.card = "none",
                                    !.entries = q]
    BY <1>2 DEF BeginTurn, BeginTurnAnyway
  <2>2. User(t) \in ShapedEntries /\ Answer(t, <<>>) \in ShapedEntries
    BY DEF User, Answer, ShapedEntries
  <2>3. q \in Seq(ShapedEntries)
    BY <2>2 DEF ShapedViews
  <2> HIDE DEF q
  <2>4. BeginTurn(v, t) = [[v EXCEPT !.turn = t, !.prompt = t]
                              EXCEPT !.status = "running", !.card = "none", !.entries = q]
    BY <2>1
  <2>5. PICK u : u = [v EXCEPT !.turn = t, !.prompt = t]
    OBVIOUS
  <2>6. /\ u \in ShapedViews /\ u.turn = t /\ u.prompt = t /\ u.conn = v.conn
        /\ u.session = v.session /\ u.of = v.of
    BY <2>5 DEF ShapedViews
  <2>7. BeginTurn(v, t) = [u EXCEPT !.status = "running", !.card = "none", !.entries = q]
    BY <2>4, <2>5
  <2>8. "none" \in Cards
    BY DEF Cards
  <2>9. BeginTurn(v, t) \in ShapedViews
    BY <2>3, <2>6, <2>7, <2>8 DEF ShapedViews
  <2>10. /\ BeginTurn(v, t).turn = t /\ BeginTurn(v, t).prompt = t /\ BeginTurn(v, t).status = "running"
         /\ BeginTurn(v, t).conn = v.conn /\ BeginTurn(v, t).session = v.session
         /\ BeginTurn(v, t).of = v.of /\ BeginTurn(v, t).entries = q
    BY <2>6, <2>7 DEF ShapedViews
  <2> QED
    BY <1>2, <2>9, <2>10 DEF q
<1> QED
  BY <1>1, <1>2

LEMMA ResetFacts ==
  ASSUME NEW v \in ShapedViews
  PROVE  LET w == ResetSession(v) IN
         /\ w \in ShapedViews /\ w.conn = v.conn /\ w.session = "none" /\ w.of = NoSession /\ Blank(w)
<1>1. <<>> \in Seq(ShapedEntries)
  OBVIOUS
<1> QED
  BY <1>1 DEF ResetSession, InitialView, ShapedViews, Blank, Cards

LEMMA CancelFacts ==
  ASSUME NEW v \in ShapedViews
  PROVE  LET w == RequestCancel(v) IN
         /\ w \in ShapedViews /\ w.conn = v.conn /\ w.session = v.session /\ w.of = v.of
         /\ w.turn = v.turn /\ w.prompt = v.prompt /\ w.entries = v.entries
         /\ IsLive(v) => IsLive(w)
         /\ IsTerminal(w) <=> IsTerminal(v)
         /\ IsLive(w) /\ v.turn # NoTurn => w.status = "cancelling"
<1>1. CASE v.turn = NoTurn \/ IsTerminal(v)
  BY <1>1 DEF RequestCancel, IsTerminal, IsLive
<1>2. CASE ~(v.turn = NoTurn \/ IsTerminal(v))
  <2>1. RequestCancel(v) = [v EXCEPT !.status = "cancelling"]
    BY <1>2 DEF RequestCancel
  <2> QED
    BY <1>2, <2>1 DEF ShapedViews, IsTerminal, IsLive
<1> QED
  BY <1>1, <1>2

LEMMA OpeningFacts ==
  ASSUME NEW v \in ShapedViews, NEW w, w = [v EXCEPT !.session = "opening"]
  PROVE  /\ w \in ShapedViews /\ w.conn = v.conn /\ w.session = "opening" /\ w.of = v.of
         /\ w.turn = v.turn /\ w.prompt = v.prompt /\ w.entries = v.entries /\ w.status = v.status
BY DEF ShapedViews

LEMMA ConnectionFacts ==
  ASSUME NEW v \in ShapedViews
  PROVE  LET w == ConnectionClosed(v) IN
         /\ w \in ShapedViews /\ w.conn = "closed" /\ w.of = v.of
         /\ w.session = (IF v.session = "open" THEN "failed" ELSE v.session)
         /\ w.turn = v.turn /\ w.prompt = v.prompt /\ w.entries = v.entries
         /\ w.status = StatusOr(v, "error") /\ ~IsLive(w)
<1>1. PICK s : s = (IF v.session = "open" THEN "failed" ELSE v.session)
  OBVIOUS
<1>2. ConnectionClosed(v) = [v EXCEPT !.conn = "closed", !.status = StatusOr(v, "error"), !.session = s]
  BY <1>1 DEF ConnectionClosed
<1>3. StatusOr(v, "error") \in {"done", "error"}
  BY DEF StatusOr, IsTerminal
<1>4. s \in {"none", "opening", "open", "failed"}
  BY <1>1 DEF ShapedViews
<1> QED
  BY <1>1, <1>2, <1>3, <1>4 DEF ShapedViews, IsLive

LEMMA JoinedFacts ==
  ASSUME NEW v \in ShapedViews, NEW w, w = [v EXCEPT !.conn = "open"]
  PROVE  /\ w \in ShapedViews /\ w.conn = "open" /\ w.session = v.session /\ w.of = v.of
         /\ w.turn = v.turn /\ w.prompt = v.prompt /\ w.entries = v.entries /\ w.status = v.status
BY DEF ShapedViews

LEMMA FramesMade ==
  /\ \A s \in Sessions : Opened(s) \in Frames /\ Loaded(s) \in Frames /\ Closed(s) \in Frames
                          /\ Reaped(s) \in Frames /\ Failed(s) \in Frames
  /\ Failed(NoSession) \in Frames
  /\ \A t \in Turns : /\ Refusal("session.prompt", t) \in Frames /\ Started(t) \in Frames
                      /\ \A n \in Nat : Delta(t, n) \in Frames
                      /\ \A st \in {"active", "completed"} : Tool(t, st) \in Frames
                      /\ \A stop \in {"ended", "failed"} : Completed(t, stop) \in Frames
  /\ \A sc \in {"session.open", "session.load", "session.cancel", "session.close"} :
       Refusal(sc, NoTurn) \in Frames
BY DEF Frames, SeatFrames, Failures, PromptRefusals, OtherRefusals, Starts, Deltas, Tools, Ends,
       Opened, Loaded, Closed, Reaped, Failed, Refusal, Started, Delta, Tool, Completed, Event

LEMMA CommandFacts ==
  ASSUME NEW c \in Commands
  PROVE  /\ c.type \in {"session.open", "session.load", "session.cancel", "session.close", "session.prompt"}
         /\ c.type = "session.open" => c.of = NoSession
         /\ c.type # "session.open" => c.of \in Sessions
         /\ c.type = "session.prompt" => c.arg \in Turns /\ c = Event("session.prompt", c.of, c.arg)
BY DEF Commands, Event

LEMMA CommandsMade ==
  /\ Event("session.open", NoSession, 0) \in Commands
  /\ \A s \in Sessions : /\ Event("session.load", s, 0) \in Commands
                         /\ Event("session.cancel", s, 0) \in Commands
                         /\ Event("session.close", s, 0) \in Commands
                         /\ \A t \in Turns : Event("session.prompt", s, t) \in Commands
BY DEF Commands, Event

----------------------------------------------------------------------------
(* What a step does                                                          *)

Links == {"connecting", "open", "closing", "down", "rehydrating"}

Types ==
  /\ view \in ShapedViews
  /\ pending \in Seq(Frames)
  /\ \A i \in DOMAIN pending : Coalesced(pending[i])
  /\ wire \in Seq(Frames)
  /\ cmds \in Seq(Commands)
  /\ link \in Links
  /\ reads \subseteq [of : Sessions, from : Nat, gate : BOOLEAN]
  /\ srv \in [of : Sessions \cup {NoSession}, turn : Turns \cup {NoTurn}]
  /\ srv.of = NoSession => srv.turn = NoTurn
  /\ log \in [Sessions -> Seq(Frames)]
  /\ upsets \in 0..MaxUpsets

Emitted(w, es) == w = IF link = "open" THEN wire \o es ELSE wire

(* The server: nothing of the tab changes.                                   *)
ServerSide == UNCHANGED <<view, pending, sub, link, reads, prompted>>
Takes == link = "open" /\ cmds # <<>> /\ cmds' = Tail(cmds)

Refuses(es) ==
  /\ ServerSide /\ Takes /\ UNCHANGED <<srv, log>> /\ wire' = wire \o es
  /\ LET c == Head(cmds) IN
     \/ /\ c.type # "session.prompt" /\ es = <<Refusal(c.type, NoTurn)>>
        /\ c.type = "session.close" => srv.of # c.of
     \/ /\ c.type = "session.open" /\ srv.of = NoSession
        /\ es = <<Refusal(c.type, NoTurn), Failed(NoSession)>>
     \/ /\ c.type = "session.prompt" /\ es = <<Refusal(c.type, c.arg)>>
        /\ srv.of # c.of \/ srv.turn # NoTurn
     \/ c.type = "session.cancel" /\ es = <<>>

Seats(s, es) ==
  /\ ServerSide /\ Takes /\ srv.of = NoSession
  /\ srv' = [of |-> s, turn |-> NoTurn]
  /\ es \in {<<Opened(s)>>, <<Opened(s), Loaded(s)>>} /\ wire' = wire \o es
  /\ log' = [log EXCEPT ![s] = @ \o <<Opened(s)>>]
  /\ \/ Head(cmds).type = "session.open" /\ log[s] = <<>>
     \/ Head(cmds).type = "session.load" /\ Head(cmds).of = s

StartsTurn(t) ==
  /\ ServerSide /\ Takes /\ srv.of \in Sessions /\ srv.turn = NoTurn
  /\ Head(cmds) = Event("session.prompt", srv.of, t)
  /\ srv' = [srv EXCEPT !.turn = t]
  /\ wire' = wire \o <<Started(t)>>
  /\ log' = [log EXCEPT ![srv.of] = @ \o <<Started(t)>>]

Streams(e) ==
  /\ ServerSide /\ UNCHANGED <<cmds, srv>> /\ srv.of \in Sessions /\ srv.turn \in Turns
  /\ Spoken < MaxChunks
  /\ \/ e = Delta(srv.turn, Len(TextOf(log[srv.of], srv.turn)) + 1)
     \/ \E st \in {"active", "completed"} : e = Tool(srv.turn, st)
  /\ Emitted(wire', <<e>>)
  /\ log' = [log EXCEPT ![srv.of] = @ \o <<e>>]

EndsTurn(stop, es) ==
  /\ ServerSide /\ srv.of \in Sessions /\ srv.turn \in Turns
  /\ stop \in {"ended", "failed"}
  /\ es \in {<<Completed(srv.turn, stop)>>, <<Completed(srv.turn, stop), Failed(srv.of)>>}
  /\ srv' = [srv EXCEPT !.turn = NoTurn]
  /\ Emitted(wire', es)
  /\ log' = [log EXCEPT ![srv.of] = @ \o <<Completed(srv.turn, stop)>>]
  /\ UNCHANGED cmds \/ (Takes /\ Head(cmds).type = "session.cancel")

Releases(es, rec) ==
  /\ ServerSide /\ srv.of \in Sessions /\ srv' = NoConnection
  /\ Emitted(wire', es)
  /\ log' = [log EXCEPT ![srv.of] = @ \o rec]
  /\ \/ es = <<>> /\ link # "open" /\ UNCHANGED cmds
     \/ es = <<Closed(srv.of)>> /\ srv.turn = NoTurn /\ UNCHANGED cmds
     \/ es = <<Closed(srv.of), Reaped(srv.of)>> /\ Takes /\ Head(cmds) = Event("session.close", srv.of, 0)
  /\ \/ rec = es /\ srv.turn = NoTurn
     \/ srv.turn \in Turns /\ rec = es \o <<Completed(srv.turn, "ended")>>
     \/ srv.turn \in Turns /\ rec = <<Completed(srv.turn, "ended"), Reaped(srv.of)>>

LEMMA RefuseSteps ==
  ASSUME Types, NEW sc, NEW id, Refuse(sc, id), link = "open"
  PROVE  wire' = wire \o <<Refusal(sc, id)>> /\ UNCHANGED <<srv, log>>
BY DEF Refuse, Emit, srvVars

LEMMA ServeSteps ==
  ASSUME Types, Serve
  PROVE  \/ \E es : Refuses(es)
         \/ \E s \in Sessions : \E es : Seats(s, es)
         \/ \E t \in Turns : StartsTurn(t)
         \/ \E stop, es : EndsTurn(stop, es)
         \/ \E es, rec : Releases(es, rec)
<1> DEFINE c == Head(cmds)
<1>1. ServerSide /\ Takes
  BY DEF Serve, uiVars, ServerSide, Takes
<1>2. c \in Commands
  BY <1>1 DEF Types, Takes
<1>3. link = "open"
  BY DEF Serve
<1>4. CASE c.type = "session.open"
  <2>1. \/ /\ srv.of = NoSession
           /\ Unused # {}
           /\ LET s == CHOOSE u \in Unused : TRUE
              IN /\ srv' = [of |-> s, turn |-> NoTurn]
                 /\ Emit(<<Opened(s)>>) /\ Record(s, <<Opened(s)>>)
        \/ srv.of = NoSession /\ UNCHANGED srvVars
           /\ Emit(<<Refusal(c.type, NoTurn), Failed(NoSession)>>)
        \/ srv.of # NoSession /\ Refuse(c.type, NoTurn)
    BY <1>4 DEF Serve
  <2>2. CASE /\ srv.of = NoSession
             /\ Unused # {}
             /\ LET s == CHOOSE u \in Unused : TRUE
                IN /\ srv' = [of |-> s, turn |-> NoTurn]
                   /\ Emit(<<Opened(s)>>) /\ Record(s, <<Opened(s)>>)
    <3>1. PICK s \in Unused : /\ srv' = [of |-> s, turn |-> NoTurn]
                              /\ Emit(<<Opened(s)>>) /\ Record(s, <<Opened(s)>>)
      BY <2>2
    <3>2. s \in Sessions /\ log[s] = <<>>
      BY DEF Unused
    <3>3. Seats(s, <<Opened(s)>>)
      BY <1>1, <1>3, <1>4, <2>2, <3>1, <3>2 DEF Seats, Emit, Record
    <3> QED
      BY <3>2, <3>3
  <2>3. CASE srv.of = NoSession /\ UNCHANGED srvVars
             /\ Emit(<<Refusal(c.type, NoTurn), Failed(NoSession)>>)
    <3>1. Refuses(<<Refusal(c.type, NoTurn), Failed(NoSession)>>)
      BY <1>1, <1>3, <1>4, <2>3 DEF Refuses, Emit, srvVars
    <3> QED
      BY <3>1
  <2>4. CASE srv.of # NoSession /\ Refuse(c.type, NoTurn)
    <3>1. Refuses(<<Refusal(c.type, NoTurn)>>)
      BY <1>1, <1>3, <1>4, <2>4, RefuseSteps DEF Refuses
    <3> QED
      BY <3>1
  <2> QED
    BY <2>1, <2>2, <2>3, <2>4
<1>5. CASE c.type = "session.load"
  <2>1. c.of \in Sessions
    BY <1>2, <1>5, CommandFacts
  <2>2. \/ /\ srv.of = NoSession
           /\ srv' = [of |-> c.of, turn |-> NoTurn]
           /\ Emit(<<Opened(c.of), Loaded(c.of)>>)
           /\ Record(c.of, <<Opened(c.of)>>)
        \/ Refuse(c.type, NoTurn)
    BY <1>5 DEF Serve
  <2>3. CASE /\ srv.of = NoSession
             /\ srv' = [of |-> c.of, turn |-> NoTurn]
             /\ Emit(<<Opened(c.of), Loaded(c.of)>>)
             /\ Record(c.of, <<Opened(c.of)>>)
    <3>1. Seats(c.of, <<Opened(c.of), Loaded(c.of)>>)
      BY <1>1, <1>3, <1>5, <2>3 DEF Seats, Emit, Record
    <3> QED
      BY <2>1, <3>1
  <2>4. CASE Refuse(c.type, NoTurn)
    <3>1. Refuses(<<Refusal(c.type, NoTurn)>>)
      BY <1>1, <1>3, <1>5, <2>4, RefuseSteps DEF Refuses
    <3> QED
      BY <3>1
  <2> QED
    BY <2>2, <2>3, <2>4
<1>6. CASE c.type = "session.prompt"
  <2>1. c.of \in Sessions /\ c.arg \in Turns /\ c = Event("session.prompt", c.of, c.arg)
    BY <1>2, <1>6, CommandFacts
  <2>2. IF srv.of # c.of \/ srv.turn # NoTurn THEN Refuse(c.type, c.arg)
        ELSE /\ srv' = [srv EXCEPT !.turn = c.arg]
             /\ Emit(<<Started(c.arg)>>) /\ Record(srv.of, <<Started(c.arg)>>)
    BY <1>6 DEF Serve
  <2>3. CASE srv.of # c.of \/ srv.turn # NoTurn
    <3>1. Refuses(<<Refusal(c.type, c.arg)>>)
      BY <1>1, <1>3, <1>6, <2>2, <2>3, RefuseSteps DEF Refuses
    <3> QED
      BY <3>1
  <2>4. CASE ~(srv.of # c.of \/ srv.turn # NoTurn)
    <3>1. StartsTurn(c.arg)
      BY <1>1, <1>3, <2>1, <2>2, <2>4 DEF StartsTurn, Emit, Record
    <3> QED
      BY <2>1, <3>1
  <2> QED
    BY <2>3, <2>4
<1>7. CASE c.type = "session.cancel"
  <2>1. IF srv.of # c.of THEN Refuse(c.type, NoTurn)
        ELSE IF srv.turn = NoTurn THEN UNCHANGED <<wire, srvVars>>
        ELSE LET end == <<Completed(srv.turn, "ended")>>
             IN Emit(end) /\ Record(srv.of, end) /\ srv' = [srv EXCEPT !.turn = NoTurn]
    BY <1>7 DEF Serve
  <2>2. CASE srv.of # c.of
    <3>1. Refuses(<<Refusal(c.type, NoTurn)>>)
      BY <1>1, <1>3, <1>7, <2>1, <2>2, RefuseSteps DEF Refuses
    <3> QED
      BY <3>1
  <2>3. CASE srv.of = c.of /\ srv.turn = NoTurn
    <3>1. wire = wire \o <<>>
      BY DEF Types
    <3>2. Refuses(<<>>)
      BY <1>1, <1>7, <2>1, <2>3, <3>1 DEF Refuses, srvVars
    <3> QED
      BY <3>2
  <2>4. CASE srv.of = c.of /\ srv.turn # NoTurn
    <3>1. srv.of \in Sessions /\ srv.turn \in Turns
      BY <2>4 DEF Types
    <3>2. EndsTurn("ended", <<Completed(srv.turn, "ended")>>)
      BY <1>1, <1>3, <1>7, <2>1, <2>4, <3>1 DEF EndsTurn, Emit, Emitted, Record
    <3> QED
      BY <3>2
  <2> QED
    BY <2>2, <2>3, <2>4
<1>8. CASE c.type = "session.close"
  <2>1. IF srv.of # c.of THEN Refuse(c.type, NoTurn)
        ELSE Release(<<Closed(c.of), Reaped(c.of)>>)
    BY <1>8 DEF Serve
  <2>2. CASE srv.of # c.of
    <3>1. Refuses(<<Refusal(c.type, NoTurn)>>)
      BY <1>1, <1>3, <1>8, <2>1, <2>2, RefuseSteps DEF Refuses
    <3> QED
      BY <3>1
  <2>3. CASE srv.of = c.of
    <3>1. c.of \in Sessions /\ c = Event("session.close", c.of, 0)
      BY <1>2, <1>8 DEF Commands, Event
    <3>2. Release(<<Closed(srv.of), Reaped(srv.of)>>)
      BY <2>1, <2>3
    <3> DEFINE es == <<Closed(srv.of), Reaped(srv.of)>>
    <3>3. es # <<>> /\ es \o <<>> = es
      OBVIOUS
    <3>4. CASE srv.turn = NoTurn
      <4>1. Releases(es, es)
        BY <1>1, <1>3, <2>3, <3>1, <3>2, <3>3, <3>4 DEF Releases, Release, Emit, Emitted, Record
      <4> QED
        BY <4>1
    <3>5. CASE srv.turn # NoTurn
      <4>1. srv.turn \in Turns
        BY <3>5 DEF Types
      <4>2. Releases(es, es \o <<Completed(srv.turn, "ended")>>)
        BY <1>1, <1>3, <2>3, <3>1, <3>2, <3>3, <3>5, <4>1 DEF Releases, Release, Emit, Emitted, Record
      <4> QED
        BY <4>2
    <3> QED
      BY <3>4, <3>5
  <2> QED
    BY <2>2, <2>3
<1> QED
  BY <1>2, <1>4, <1>5, <1>6, <1>7, <1>8, CommandFacts

LEMMA AppendToOne ==
  ASSUME NEW a, NEW b
  PROVE  Append(<<a>>, b) = <<a, b>>
<1> DEFINE q == Append(<<a>>, b)
<1>1. <<a>> \in Seq({a, b}) /\ b \in {a, b} /\ Len(<<a>>) = 1 /\ <<a>>[1] = a
  OBVIOUS
<1>2. q \in Seq({a, b}) /\ Len(q) = 2 /\ q[1] = a /\ q[2] = b
  BY <1>1
<1>3. <<a, b>> \in Seq({a, b}) /\ Len(<<a, b>>) = 2 /\ <<a, b>>[1] = a /\ <<a, b>>[2] = b
  OBVIOUS
<1> HIDE DEF q
<1>4. \A i \in 1..2 : q[i] = <<a, b>>[i]
  BY <1>2, <1>3
<1>5. q = <<a, b>>
  BY <1>2, <1>3, <1>4
<1> QED
  BY <1>5 DEF q

LEMMA ServerSteps ==
  ASSUME Types, Server \/ IdleClose
  PROVE  \/ \E es : Refuses(es)
         \/ \E s \in Sessions : \E es : Seats(s, es)
         \/ \E t \in Turns : StartsTurn(t)
         \/ \E e : Streams(e)
         \/ \E stop, es : EndsTurn(stop, es)
         \/ \E es, rec : Releases(es, rec)
<1>1. CASE Serve
  BY <1>1, ServeSteps
<1>2. CASE Stream
  <2>1. srv.turn \in Turns /\ srv.of \in Sessions
    BY <1>2 DEF Types, Stream
  <2>2. PICK e \in {Delta(srv.turn, Len(TextOf(log[srv.of], srv.turn)) + 1),
                    Tool(srv.turn, "active"), Tool(srv.turn, "completed")} :
          Emit(<<e>>) /\ Record(srv.of, <<e>>)
    BY <1>2 DEF Stream
  <2>3. Streams(e)
    BY <1>2, <2>1, <2>2 DEF Stream, Streams, ServerSide, uiVars, Emit, Emitted, Record
  <2> QED
    BY <2>3
<1>3. CASE EndTurn
  <2>1. srv.turn \in Turns /\ srv.of \in Sessions
    BY <1>3 DEF Types, EndTurn
  <2>2. PICK stop \in {"ended", "failed"} :
          LET end == <<Completed(srv.turn, stop)>>
          IN /\ Record(srv.of, end)
             /\ \/ Emit(end)
                \/ stop = "failed" /\ Emit(Append(end, Failed(srv.of)))
    BY <1>3 DEF EndTurn
  <2>3. Append(<<Completed(srv.turn, stop)>>, Failed(srv.of)) = <<Completed(srv.turn, stop), Failed(srv.of)>>
    BY AppendToOne
  <2>4. PICK es \in {<<Completed(srv.turn, stop)>>, <<Completed(srv.turn, stop), Failed(srv.of)>>} : Emit(es)
    BY <2>2, <2>3
  <2>5. EndsTurn(stop, es)
    BY <1>3, <2>1, <2>2, <2>4 DEF EndTurn, EndsTurn, ServerSide, uiVars, Emit, Emitted, Record
  <2> QED
    BY <2>5
<1>4. CASE ServerSeesClose
  <2>1. srv.of \in Sessions
    BY <1>4 DEF Types, ServerSeesClose, NoConnection
  <2>2. CASE srv.turn = NoTurn
    <3>1. <<>> \o <<>> = <<>>
      OBVIOUS
    <3>2. Releases(<<>>, <<>>)
      BY <1>4, <2>1, <2>2, <3>1 DEF ServerSeesClose, Release, Releases, ServerSide, uiVars, Emit, Emitted, Record
    <3> QED
      BY <3>2
  <2>3. CASE srv.turn # NoTurn
    <3>1. srv.turn \in Turns
      BY <2>3 DEF Types
    <3>2. <<>> \o <<Completed(srv.turn, "ended"), Reaped(srv.of)>> = <<Completed(srv.turn, "ended"), Reaped(srv.of)>>
      OBVIOUS
    <3>3. Releases(<<>>, <<Completed(srv.turn, "ended"), Reaped(srv.of)>>)
      BY <1>4, <2>1, <2>3, <3>1, <3>2 DEF ServerSeesClose, Release, Releases, ServerSide, uiVars, Emit, Emitted, Record
    <3> QED
      BY <3>3
  <2> QED
    BY <2>2, <2>3
<1>5. CASE IdleClose
  <2>1. srv.of \in Sessions
    BY <1>5 DEF Types, IdleClose
  <2>2. <<Closed(srv.of)>> \o <<>> = <<Closed(srv.of)>>
    OBVIOUS
  <2>3. Releases(<<Closed(srv.of)>>, <<Closed(srv.of)>>)
    BY <1>5, <2>1, <2>2 DEF IdleClose, Release, Releases, ServerSide, uiVars, Emit, Emitted, Record
  <2> QED
    BY <2>3
<1> QED
  BY <1>1, <1>2, <1>3, <1>4, <1>5 DEF Server

----------------------------------------------------------------------------
(* The tab                                                                   *)

(* The reconnect waits for one read at most.                                 *)
GateInv ==
  /\ \A r \in reads : r.gate => link = "rehydrating"
  /\ \A r, q \in reads : r.gate /\ q.gate => r = q

TabSide == UNCHANGED <<wire, srv, log, link, pending>>

Begins(t) ==
  /\ TabSide /\ link = "open" /\ view.conn = "open" /\ view.of \in Sessions
  /\ prompted[t] = 0 /\ prompted' = [prompted EXCEPT ![t] = 1]
  /\ view' = BeginTurn(view, t)
  /\ cmds' = Append(cmds, Event("session.prompt", view.of, t))

(* A command that cannot be sent, or a prompt without a session.             *)
Fails ==
  /\ TabSide /\ UNCHANGED <<cmds, prompted>>
  /\ view' \in ShapedViews
  /\ view'.conn = view.conn /\ view'.of = view.of /\ view'.turn = view.turn
  /\ view'.prompt = view.prompt /\ view'.entries = view.entries
  /\ view'.session = view.session \/ (view.of = NoSession /\ view'.session = "opening")
  /\ IsTerminal(view') /\ ~IsLive(view')
  /\ link = "open" /\ view.conn = "open" => view.of = NoSession

Cancels ==
  /\ TabSide /\ UNCHANGED prompted /\ link = "open" /\ view.of \in Sessions /\ IsLive(view)
  /\ view' = RequestCancel(view)
  /\ cmds' = Append(cmds, Event("session.cancel", view.of, 0))

Loads(s) ==
  /\ TabSide /\ UNCHANGED <<view, prompted>> /\ link = "open" /\ s # view.of
  /\ cmds' = Append(cmds, Event("session.load", s, 0))

AsksForOne ==
  /\ TabSide /\ UNCHANGED prompted /\ link = "open" /\ view.of = NoSession
  /\ view' = [view EXCEPT !.session = "opening"]
  /\ cmds' = Append(cmds, Event("session.open", NoSession, 0))

Resets ==
  /\ UNCHANGED <<wire, srv, log, link, prompted>> /\ pending' = <<>>
  /\ view' = ResetSession(view)
  /\ \/ /\ view.of \in Sessions /\ link = "open"
        /\ cmds' = Append(cmds, Event("session.close", view.of, 0))
     \/ (view.of = NoSession \/ link # "open") /\ UNCHANGED cmds

Receives ==
  /\ UNCHANGED <<link, cmds, srv, log, prompted>>
  /\ link \in {"open", "closing"} /\ wire # <<>> /\ wire' = Tail(wire)
  /\ \/ Coalesced(Head(wire)) /\ pending' = Append(pending, Head(wire)) /\ UNCHANGED view
     \/ /\ ~Coalesced(Head(wire)) /\ pending' = <<>>
        /\ view' = Applied(AppliedAll(view, pending), Head(wire))

Paints ==
  /\ UNCHANGED <<wire, link, cmds, srv, log, prompted>>
  /\ view' = AppliedAll(view, pending) /\ pending' = <<>>

Joins ==
  /\ UNCHANGED <<wire, cmds, pending, srv, log, prompted>>
  /\ link = "connecting" /\ link' = "open" /\ srv = NoConnection
  /\ view' = [view EXCEPT !.conn = "open"]

Drops ==
  /\ UNCHANGED <<view, wire, pending, srv, log, prompted>>
  /\ link \in {"connecting", "open"} /\ link' = "closing" /\ cmds' = <<>>

Closes ==
  /\ UNCHANGED <<cmds, srv, log, prompted>>
  /\ link = "closing" /\ link' = "down" /\ wire' = <<>> /\ pending' = <<>>
  /\ view' = ConnectionClosed(AppliedAll(view, pending))

(* The link goes on, or nothing that matters changes.                        *)
Moves ==
  /\ UNCHANGED <<wire, cmds, pending, srv, log, prompted>>
  /\ link' = link \/ (link \in {"down", "rehydrating"} /\ link' \in {"rehydrating", "connecting"})

Waits == Moves /\ UNCHANGED view

Hydrates(l) ==
  /\ Moves /\ view.of \in Sessions
  /\ \E n \in 0..Len(log[view.of]) : l = SubSeq(log[view.of], 1, n)
  /\ view' = HydrateTranscript(view, l)

LEMMA PromptSteps ==
  ASSUME Types, SentInv, NEW t \in Turns, sub[t] # "given", Prompt(t),
         UNCHANGED <<wire, srv, log, link, pending>>
  PROVE  Begins(t) \/ Fails
<1>1. prompted[t] = 0
  BY DEF SentInv
<1>2. CASE view.conn # "open" \/ (view.of # NoSession /\ link # "open")
  <2>1. view' = RejectLocal(view) /\ UNCHANGED <<cmds, prompted>>
    BY <1>2 DEF Prompt
  <2>2. view'.status \in {"done", "error"}
    BY <2>1, RejectFacts DEF Types, StatusOr, IsTerminal
  <2>3. Fails
    BY <1>2, <2>1, <2>2, RejectFacts DEF Types, Fails, TabSide, IsTerminal
  <2> QED
    BY <2>3
<1>3. CASE ~(view.conn # "open" \/ (view.of # NoSession /\ link # "open")) /\ view.of = NoSession
  <2>1. view' = [view EXCEPT !.status = "error"] /\ UNCHANGED <<cmds, prompted>>
    BY <1>3 DEF Prompt
  <2>2. Fails
    BY <1>3, <2>1 DEF Types, ShapedViews, Fails, TabSide, IsTerminal, IsLive
  <2> QED
    BY <2>2
<1>4. CASE ~(view.conn # "open" \/ (view.of # NoSession /\ link # "open")) /\ view.of # NoSession
  <2>1. link = "open" /\ view.conn = "open" /\ view.of \in Sessions
    BY <1>4 DEF Types, ShapedViews
  <2>2. Send(BeginTurn(view, t), Event("session.prompt", view.of, t)) /\ prompted' = [prompted EXCEPT ![t] = @ + 1]
    BY <1>4 DEF Prompt
  <2>3. prompted' = [prompted EXCEPT ![t] = 1]
    BY <1>1, <2>2 DEF SentInv
  <2> QED
    BY <1>1, <2>1, <2>2, <2>3 DEF Send, Begins, TabSide
<1> QED
  BY <1>2, <1>3, <1>4

LEMMA FailedSend ==
  ASSUME Types, NEW v \in ShapedViews, NEW cmd, Send(v, cmd), link # "open", TabSide, UNCHANGED prompted,
         v.conn = view.conn, v.of = view.of, v.turn = view.turn, v.prompt = view.prompt,
         v.entries = view.entries,
         v.session = view.session \/ (view.of = NoSession /\ v.session = "opening")
  PROVE  Fails
<1>1. view' = RejectLocal(v) /\ UNCHANGED cmds
  BY DEF Send
<1>2. view'.status \in {"done", "error"}
  BY <1>1, RejectFacts DEF StatusOr, IsTerminal
<1>3. /\ view' \in ShapedViews /\ view'.conn = v.conn /\ view'.session = v.session /\ view'.of = v.of
      /\ view'.turn = v.turn /\ view'.prompt = v.prompt /\ view'.entries = v.entries /\ ~IsLive(view')
  BY <1>1, RejectFacts
<1> QED
  BY <1>1, <1>2, <1>3 DEF Fails, IsTerminal

LEMMA ClickSteps ==
  ASSUME Types, SentInv, Clicks
  PROVE  \/ \E t \in Turns : Begins(t)
         \/ Fails \/ Cancels \/ AsksForOne \/ Resets \/ Waits
         \/ \E s \in Sessions : Loads(s)
<1>1. CASE Cancel
  <2>1. TabSide /\ UNCHANGED prompted /\ view.of # NoSession /\ IsLive(view)
    BY <1>1 DEF Cancel, TabSide, srvVars
  <2>2. Send(RequestCancel(view), Event("session.cancel", view.of, 0))
    BY <1>1 DEF Cancel
  <2>3. CASE link = "open"
    BY <2>1, <2>2, <2>3 DEF Send, Cancels, Types, ShapedViews
  <2>4. CASE link # "open"
    <3>1. view \in ShapedViews
      BY DEF Types
    <3> QED
      BY <2>1, <2>2, <2>4, <3>1, CancelFacts, FailedSend
  <2> QED
    BY <2>3, <2>4
<1>2. CASE NewTask
  BY <1>2 DEF NewTask, Resets, srvVars, Types, ShapedViews
<1>3. ASSUME NEW s \in Sessions, LoadSession(s) PROVE Loads(s) \/ Fails
  <2>1. TabSide /\ UNCHANGED prompted /\ s # view.of
    BY <1>3 DEF LoadSession, TabSide, srvVars
  <2>2. Send(view, Event("session.load", s, 0))
    BY <1>3 DEF LoadSession
  <2>3. CASE link = "open"
    BY <2>1, <2>2, <2>3 DEF Send, Loads
  <2>4. CASE link # "open"
    <3>1. view \in ShapedViews
      BY DEF Types
    <3> QED
      BY <2>1, <2>2, <2>4, <3>1, FailedSend
  <2> QED
    BY <2>3, <2>4
<1>4. ASSUME NEW t \in Turns, SubmitQueued(t) PROVE AsksForOne \/ Fails
  <2>1. TabSide /\ UNCHANGED prompted /\ view.of = NoSession
    BY <1>4 DEF SubmitQueued, TabSide, srvVars
  <2>2. PICK v : v = [view EXCEPT !.session = "opening"]
    OBVIOUS
  <2>3. Send(v, Event("session.open", NoSession, 0))
    BY <1>4, <2>2 DEF SubmitQueued, OpenSession
  <2>4. CASE link = "open"
    BY <2>1, <2>2, <2>3, <2>4 DEF Send, AsksForOne
  <2>5. CASE link # "open"
    <3>1. view \in ShapedViews
      BY DEF Types
    <3>2. /\ v \in ShapedViews /\ v.conn = view.conn /\ v.session = "opening" /\ v.of = view.of
          /\ v.turn = view.turn /\ v.prompt = view.prompt /\ v.entries = view.entries
      BY <2>2, <3>1, OpeningFacts
    <3> QED
      BY <2>1, <2>3, <2>5, <3>2, FailedSend
  <2> QED
    BY <2>4, <2>5
<1>5. ASSUME NEW t \in Turns, SubmitNow(t) PROVE Begins(t) \/ Fails \/ Waits
  <2>1. /\ UNCHANGED <<wire, srv, log, link, pending>> /\ sub[t] = "draft" /\ Deliver(t, "uploading")
    BY <1>5 DEF SubmitNow, CanSubmit, srvVars
  <2>2. CASE t \in Attaching
    BY <2>1, <2>2 DEF Deliver, Waits, Moves
  <2>3. CASE t \notin Attaching
    BY <2>1, <2>3, PromptSteps DEF Deliver
  <2> QED
    BY <2>2, <2>3
<1> QED
  BY <1>1, <1>2, <1>3, <1>4, <1>5 DEF Clicks

LEMMA TabSteps ==
  ASSUME Types, SentInv, Tab
  PROVE  \/ \E t \in Turns : Begins(t)
         \/ Fails \/ Waits \/ Receives \/ Paints
<1>1. CASE Receive
  BY <1>1 DEF Receive, Receives, srvVars
<1>2. CASE AnimationFrame
  BY <1>2 DEF AnimationFrame, Paints, netVars, srvVars
<1>3. ASSUME NEW t \in Turns, FlushQueued(t) PROVE Begins(t) \/ Fails \/ Waits
  <2>1. /\ UNCHANGED <<wire, srv, log, link, pending>> /\ sub[t] = "queued" /\ Deliver(t, "flushing")
    BY <1>3 DEF FlushQueued, Flushed, srvVars
  <2>2. CASE t \in Attaching
    BY <2>1, <2>2 DEF Deliver, Waits, Moves
  <2>3. CASE t \notin Attaching
    BY <2>1, <2>3, PromptSteps DEF Deliver
  <2> QED
    BY <2>2, <2>3
<1>4. ASSUME NEW t \in Turns, HandBack(t) PROVE Waits
  BY <1>4 DEF HandBack, Waits, Moves, netVars, srvVars
<1>5. ASSUME NEW t \in Turns, Uploaded(t) PROVE Begins(t) \/ Fails \/ Waits
  <2>1. UNCHANGED <<wire, srv, log, link, pending>> /\ sub[t] \in {"uploading", "flushing"}
    BY <1>5 DEF Uploaded, srvVars
  <2>2. CASE Prompt(t)
    BY <2>1, <2>2, PromptSteps
  <2>3. CASE UNCHANGED <<view, cmds, prompted>>
    BY <2>1, <2>3 DEF Waits, Moves
  <2> QED
    BY <1>5, <2>2, <2>3 DEF Uploaded
<1> QED
  BY <1>1, <1>2, <1>3, <1>4, <1>5 DEF Tab

LEMMA NetSteps ==
  ASSUME Types, GateInv, Net \/ SocketDrops
  PROVE  \/ Joins \/ Drops \/ Closes \/ Waits
         \/ \E l \in Seq(Frames) : Hydrates(l)
<1>1. CASE SocketOpens
  BY <1>1 DEF SocketOpens, Joins, srvVars
<1>2. CASE OnClose
  BY <1>2 DEF OnClose, Closes, ClosedView, srvVars
<1>3. CASE Retry
  BY <1>3 DEF Retry, Waits, Moves, uiVars, srvVars
<1>4. CASE BudgetEnds
  BY <1>4 DEF BudgetEnds, Waits, Moves, uiVars, srvVars
<1>5. ASSUME NEW r \in reads, Connected(r)
      PROVE  link' = link \/ (link \in {"down", "rehydrating"} /\ link' \in {"rehydrating", "connecting"})
  BY <1>5 DEF Connected, GateInv
<1>6. ASSUME NEW r \in reads, ReadFails(r) PROVE Waits
  BY <1>5, <1>6 DEF ReadFails, Waits, Moves, uiVars, srvVars
<1>7. ASSUME NEW r \in reads, ReadLands(r)
      PROVE  Waits \/ \E l \in Seq(Frames) : Hydrates(l)
  <2>1. r.of \in Sessions /\ r.from \in Nat /\ log[r.of] \in Seq(Frames)
    BY DEF Types
  <2>2. PICK n \in r.from..Len(log[r.of]) : view' = Adopted(r.of, SubSeq(log[r.of], 1, n))
    BY <1>7 DEF ReadLands
  <2>3. Moves
    BY <1>5, <1>7 DEF ReadLands, Moves, srvVars
  <2>4. CASE view.of = r.of
    <3>1. n \in 0..Len(log[view.of]) /\ SubSeq(log[view.of], 1, n) \in Seq(Frames)
      BY <2>1, <2>4
    <3>2. Hydrates(SubSeq(log[view.of], 1, n))
      BY <2>1, <2>2, <2>3, <2>4, <3>1 DEF Hydrates, Adopted
    <3> QED
      BY <3>1, <3>2
  <2>5. CASE view.of # r.of
    BY <2>2, <2>3, <2>5 DEF Waits, Adopted
  <2> QED
    BY <2>4, <2>5
<1>8. CASE SocketDrops
  BY <1>8 DEF SocketDrops, Drops, uiVars, srvVars
<1> QED
  BY <1>1, <1>2, <1>3, <1>4, <1>6, <1>7, <1>8 DEF Net

Steps ==
  \/ \E es : Refuses(es)
  \/ \E s \in Sessions : \E es : Seats(s, es)
  \/ \E t \in Turns : StartsTurn(t)
  \/ \E e : Streams(e)
  \/ \E stop, es : EndsTurn(stop, es)
  \/ \E es, rec : Releases(es, rec)
  \/ \E t \in Turns : Begins(t)
  \/ Fails \/ Cancels \/ AsksForOne \/ Resets \/ Waits \/ Receives \/ Paints
  \/ \E s \in Sessions : Loads(s)
  \/ Joins \/ Drops \/ Closes
  \/ \E l \in Seq(Frames) : Hydrates(l)

LEMMA StepReduces ==
  ASSUME Types, GateInv, SentInv, [Next]_vars
  PROVE  Steps
<1>1. CASE UNCHANGED vars
  BY <1>1 DEF vars, uiVars, netVars, srvVars, Waits, Moves, Steps
<1>2. CASE Server \/ IdleClose
  BY <1>2, ServerSteps DEF Steps
<1>3. CASE Clicks
  BY <1>3, ClickSteps DEF Steps
<1>4. CASE Tab
  BY <1>4, TabSteps DEF Steps
<1>5. CASE Net \/ SocketDrops
  BY <1>5, NetSteps DEF Steps
<1> QED
  BY <1>1, <1>2, <1>3, <1>4, <1>5 DEF Next

----------------------------------------------------------------------------
(* Types                                                                     *)

LEMMA LogGrows ==
  ASSUME log \in [Sessions -> Seq(Frames)], NEW s \in Sessions, NEW rec \in Seq(Frames),
         log' = [log EXCEPT ![s] = @ \o rec]
  PROVE  /\ log' \in [Sessions -> Seq(Frames)]
         /\ log'[s] = log[s] \o rec
         /\ \A r \in Sessions : r # s => log'[r] = log[r]
OBVIOUS

LEMMA FewFrames ==
  /\ <<>> \in Seq(Frames)
  /\ \A a \in Frames : <<a>> \in Seq(Frames)
  /\ \A a, b \in Frames : <<a, b>> \in Seq(Frames)
<1>1. <<>> \in Seq(Frames)
  OBVIOUS
<1>2. ASSUME NEW a \in Frames PROVE <<a>> \in Seq(Frames)
  OBVIOUS
<1>3. ASSUME NEW a \in Frames, NEW b \in Frames PROVE <<a, b>> \in Seq(Frames)
  OBVIOUS
<1> QED
  BY <1>1, <1>2, <1>3

LEMMA WireGrows ==
  ASSUME wire \in Seq(Frames), NEW es \in Seq(Frames), Emitted(wire', es)
  PROVE  wire' \in Seq(Frames)
BY DEF Emitted

LEMMA CommandsTaken ==
  ASSUME Types, Takes
  PROVE  /\ cmds' \in Seq(Commands) /\ Head(cmds) \in Commands
         /\ Len(cmds) \in Nat \ {0} /\ Len(cmds') = Len(cmds) - 1
         /\ cmds[1] = Head(cmds) /\ 1 \in DOMAIN cmds
         /\ \A i \in DOMAIN cmds' : i + 1 \in DOMAIN cmds /\ cmds'[i] = cmds[i + 1]
BY DEF Types, Takes

(* What a server step emits and records is frames.                           *)
LEMMA EmitsFrames ==
  ASSUME Types
  PROVE  /\ \A es : Refuses(es) => es \in Seq(Frames)
         /\ \A s \in Sessions : \A es : Seats(s, es) => es \in Seq(Frames) /\ <<Opened(s)>> \in Seq(Frames)
         /\ \A t \in Turns : StartsTurn(t) => <<Started(t)>> \in Seq(Frames)
         /\ \A e : Streams(e) => e \in Frames /\ <<e>> \in Seq(Frames)
         /\ \A stop, es : EndsTurn(stop, es) =>
              es \in Seq(Frames) /\ <<Completed(srv.turn, stop)>> \in Seq(Frames)
         /\ \A es, rec : Releases(es, rec) => es \in Seq(Frames) /\ rec \in Seq(Frames)
<1>1. log \in [Sessions -> Seq(Frames)]
  BY DEF Types
<1>3. ASSUME NEW es, Refuses(es) PROVE es \in Seq(Frames)
  <2> DEFINE c == Head(cmds)
  <2>1. c \in Commands
    BY <1>3, CommandsTaken DEF Refuses
  <2>3. \/ c.type # "session.prompt" /\ es = <<Refusal(c.type, NoTurn)>>
        \/ c.type = "session.open" /\ es = <<Refusal(c.type, NoTurn), Failed(NoSession)>>
        \/ c.type = "session.prompt" /\ es = <<Refusal(c.type, c.arg)>>
        \/ es = <<>>
    BY <1>3 DEF Refuses
  <2>4. /\ c.type \in {"session.open", "session.load", "session.cancel", "session.close", "session.prompt"}
        /\ c.type = "session.prompt" => c.arg \in Turns
    BY <2>1, CommandFacts
  <2> HIDE DEF c
  <2>5. CASE c.type # "session.prompt" /\ es = <<Refusal(c.type, NoTurn)>>
    <3>1. Refusal(c.type, NoTurn) \in Frames
      BY <2>4, <2>5, FramesMade
    <3> QED
      BY <2>5, <3>1, FewFrames
  <2>6. CASE c.type = "session.open" /\ es = <<Refusal(c.type, NoTurn), Failed(NoSession)>>
    <3>1. Refusal(c.type, NoTurn) \in Frames /\ Failed(NoSession) \in Frames
      BY <2>6, FramesMade
    <3> QED
      BY <2>6, <3>1, FewFrames
  <2>7. CASE c.type = "session.prompt" /\ es = <<Refusal(c.type, c.arg)>>
    <3>1. Refusal(c.type, c.arg) \in Frames
      BY <2>4, <2>7, FramesMade
    <3> QED
      BY <2>7, <3>1, FewFrames
  <2> QED
    BY <2>3, <2>5, <2>6, <2>7, FewFrames
<1>4. ASSUME NEW s \in Sessions, NEW es, Seats(s, es)
      PROVE  es \in Seq(Frames) /\ <<Opened(s)>> \in Seq(Frames)
  <2>2. Opened(s) \in Frames /\ Loaded(s) \in Frames
    BY FramesMade
  <2> QED
    BY <1>4, <2>2, FewFrames DEF Seats
<1>5. ASSUME NEW t \in Turns PROVE <<Started(t)>> \in Seq(Frames)
  BY FramesMade, FewFrames
<1>6. ASSUME NEW e, Streams(e) PROVE e \in Frames /\ <<e>> \in Seq(Frames)
  <2>1. TextOf(log[srv.of], srv.turn) \in Seq(Nat)
    BY <1>1, <1>6, TextIsTyped DEF Streams
  <2>2. Len(TextOf(log[srv.of], srv.turn)) + 1 \in Nat
    BY <2>1
  <2>3. e \in Frames
    BY <1>6, <2>2, FramesMade DEF Streams
  <2> QED
    BY <2>3, FewFrames
<1>7. ASSUME NEW stop, NEW es, EndsTurn(stop, es)
      PROVE  es \in Seq(Frames) /\ <<Completed(srv.turn, stop)>> \in Seq(Frames)
  <2>2. srv.of \in Sessions /\ srv.turn \in Turns /\ stop \in {"ended", "failed"}
        /\ es \in {<<Completed(srv.turn, stop)>>, <<Completed(srv.turn, stop), Failed(srv.of)>>}
    BY <1>7 DEF EndsTurn
  <2>3. Completed(srv.turn, stop) \in Frames /\ Failed(srv.of) \in Frames
    BY <2>2, FramesMade
  <2> QED
    BY <2>2, <2>3, FewFrames
<1>8. ASSUME NEW es, NEW rec, Releases(es, rec)
      PROVE  es \in Seq(Frames) /\ rec \in Seq(Frames)
  <2>2. /\ srv.of \in Sessions
        /\ es \in {<<>>, <<Closed(srv.of)>>, <<Closed(srv.of), Reaped(srv.of)>>}
    BY <1>8 DEF Releases
  <2>3. Closed(srv.of) \in Frames /\ Reaped(srv.of) \in Frames
    BY <2>2, FramesMade
  <2>4. es \in Seq(Frames)
    BY <2>2, <2>3, FewFrames
  <2>5. CASE rec = es
    BY <2>4, <2>5
  <2>6. CASE srv.turn \in Turns
    <3>1. Completed(srv.turn, "ended") \in Frames
      BY <2>6, FramesMade
    <3>2. /\ <<Completed(srv.turn, "ended")>> \in Seq(Frames)
          /\ <<Completed(srv.turn, "ended"), Reaped(srv.of)>> \in Seq(Frames)
      BY <2>3, <3>1, FewFrames
    <3>3. es \o <<Completed(srv.turn, "ended")>> \in Seq(Frames)
      BY <2>4, <3>2
    <3>4. rec \in {es, es \o <<Completed(srv.turn, "ended")>>, <<Completed(srv.turn, "ended"), Reaped(srv.of)>>}
      BY <1>8 DEF Releases
    <3> QED
      BY <2>4, <3>2, <3>3, <3>4
  <2> QED
    BY <1>8, <2>4, <2>5, <2>6 DEF Releases
<1> QED
  BY <1>3, <1>4, <1>5, <1>6, <1>7, <1>8

ServerKinds ==
  \/ \E es : Refuses(es)
  \/ \E s \in Sessions : \E es : Seats(s, es)
  \/ \E t \in Turns : StartsTurn(t)
  \/ \E e : Streams(e)
  \/ \E stop, es : EndsTurn(stop, es)
  \/ \E es, rec : Releases(es, rec)

(* What a server step leaves, and what it may add.                           *)
LEMMA ServerKindFacts ==
  ASSUME Types, ServerKinds
  PROVE  /\ ServerSide
         /\ link # "open" => UNCHANGED <<wire, cmds>>
         /\ UNCHANGED cmds \/ Takes
         /\ \/ UNCHANGED log
            \/ \E s \in Sessions, rec \in Seq(Frames) : log' = [log EXCEPT ![s] = @ \o rec]
         /\ \/ UNCHANGED wire
            \/ \E es \in Seq(Frames) : link = "open" /\ wire' = wire \o es
         /\ srv' \in [of : Sessions \cup {NoSession}, turn : Turns \cup {NoTurn}]
         /\ srv'.of = NoSession => srv'.turn = NoTurn
<1>1. srv \in [of : Sessions \cup {NoSession}, turn : Turns \cup {NoTurn}]
      /\ (srv.of = NoSession => srv.turn = NoTurn)
  BY DEF Types
<1>2. CASE \E es : Refuses(es)
  BY <1>1, <1>2, EmitsFrames DEF Refuses, Takes
<1>3. CASE \E s \in Sessions : \E es : Seats(s, es)
  <2>1a. PICK s \in Sessions : \E es : Seats(s, es)
    BY <1>3
  <2>1. PICK es : Seats(s, es)
    BY <2>1a
  <2>2. es \in Seq(Frames) /\ <<Opened(s)>> \in Seq(Frames)
    BY <2>1, EmitsFrames
  <2>3. /\ ServerSide /\ Takes /\ wire' = wire \o es /\ srv' = [of |-> s, turn |-> NoTurn]
        /\ log' = [log EXCEPT ![s] = @ \o <<Opened(s)>>]
    BY <2>1 DEF Seats
  <2>4. srv' \in [of : Sessions \cup {NoSession}, turn : Turns \cup {NoTurn}] /\ srv'.turn = NoTurn
    BY <2>3
  <2>5. \E r \in Sessions, rec \in Seq(Frames) : log' = [log EXCEPT ![r] = @ \o rec]
    BY <2>2, <2>3
  <2> QED
    BY <2>2, <2>3, <2>4, <2>5 DEF Takes
<1>4. CASE \E t \in Turns : StartsTurn(t)
  BY <1>1, <1>4, EmitsFrames, NullSession DEF StartsTurn, Takes
<1>5. CASE \E e : Streams(e)
  BY <1>1, <1>5, EmitsFrames DEF Streams, Emitted
<1>6. CASE \E stop, es : EndsTurn(stop, es)
  <2>1. PICK stop, es : EndsTurn(stop, es)
    BY <1>6
  <2> DEFINE c == Completed(srv.turn, stop)
  <2>2. es \in Seq(Frames) /\ <<c>> \in Seq(Frames)
    BY <2>1, EmitsFrames
  <2> HIDE DEF c
  <2>3. /\ ServerSide /\ Emitted(wire', es) /\ srv' = [srv EXCEPT !.turn = NoTurn]
        /\ srv.of \in Sessions /\ log' = [log EXCEPT ![srv.of] = @ \o <<c>>]
        /\ UNCHANGED cmds \/ Takes
    BY <2>1 DEF EndsTurn, c
  <2>4. srv' \in [of : Sessions \cup {NoSession}, turn : Turns \cup {NoTurn}] /\ srv'.turn = NoTurn
    BY <1>1, <2>3
  <2>5. \E r \in Sessions, d \in Seq(Frames) : log' = [log EXCEPT ![r] = @ \o d]
    BY <2>2, <2>3
  <2>6. \/ UNCHANGED wire
        \/ \E d \in Seq(Frames) : link = "open" /\ wire' = wire \o d
    BY <2>2, <2>3 DEF Emitted
  <2>7. link # "open" => UNCHANGED <<wire, cmds>>
    BY <2>3 DEF Emitted, Takes
  <2> QED
    BY <2>3, <2>4, <2>5, <2>6, <2>7
<1>7. CASE \E es, rec : Releases(es, rec)
  <2>1. PICK es, rec : Releases(es, rec)
    BY <1>7
  <2>2. es \in Seq(Frames) /\ rec \in Seq(Frames)
    BY <2>1, EmitsFrames
  <2>3. /\ ServerSide /\ Emitted(wire', es) /\ srv' = [of |-> NoSession, turn |-> NoTurn]
        /\ srv.of \in Sessions /\ log' = [log EXCEPT ![srv.of] = @ \o rec]
        /\ UNCHANGED cmds \/ Takes
    BY <2>1 DEF Releases, NoConnection
  <2>4. srv' \in [of : Sessions \cup {NoSession}, turn : Turns \cup {NoTurn}] /\ srv'.turn = NoTurn
    BY <2>3
  <2>5. \E r \in Sessions, d \in Seq(Frames) : log' = [log EXCEPT ![r] = @ \o d]
    BY <2>2, <2>3
  <2>6. \/ UNCHANGED wire
        \/ \E d \in Seq(Frames) : link = "open" /\ wire' = wire \o d
    BY <2>2, <2>3 DEF Emitted
  <2>7. link # "open" => UNCHANGED <<wire, cmds>>
    BY <2>3 DEF Emitted, Takes
  <2> QED
    BY <2>3, <2>4, <2>5, <2>6, <2>7
<1> QED
  BY <1>2, <1>3, <1>4, <1>5, <1>6, <1>7 DEF ServerKinds

LEMMA ServerKeepsTypes ==
  ASSUME Types, ServerKinds
  PROVE  /\ wire' \in Seq(Frames) /\ cmds' \in Seq(Commands)
         /\ srv' \in [of : Sessions \cup {NoSession}, turn : Turns \cup {NoTurn}]
         /\ srv'.of = NoSession => srv'.turn = NoTurn
         /\ log' \in [Sessions -> Seq(Frames)]
         /\ ServerSide
<1>1. wire \in Seq(Frames) /\ cmds \in Seq(Commands) /\ log \in [Sessions -> Seq(Frames)]
  BY DEF Types
<1>2. wire' \in Seq(Frames)
  <2>1. \/ UNCHANGED wire
        \/ \E es \in Seq(Frames) : link = "open" /\ wire' = wire \o es
    BY ServerKindFacts
  <2>2. ASSUME NEW es \in Seq(Frames), wire' = wire \o es PROVE wire' \in Seq(Frames)
    BY <1>1, <2>2
  <2> QED
    BY <1>1, <2>1, <2>2
<1>3. cmds' \in Seq(Commands)
  BY <1>1, ServerKindFacts, CommandsTaken
<1>4. log' \in [Sessions -> Seq(Frames)]
  BY <1>1, ServerKindFacts, LogGrows
<1> QED
  BY <1>2, <1>3, <1>4, ServerKindFacts

LEMMA PendingView ==
  ASSUME Types
  PROVE  LET w == AppliedAll(view, pending) IN
         w \in ShapedViews /\ SameCore(view, w) /\ Owners(w) \subseteq Owners(view)
BY PendingFacts DEF Types

LEMMA AppliedIsShaped ==
  ASSUME NEW v \in ShapedViews, NEW e \in Frames, ~Coalesced(e)
  PROVE  Applied(v, e) \in ShapedViews
<1>1. CASE IsOpen(e)
  BY <1>1, OpenedFacts
<1>2. CASE IsGone(e)
  BY <1>2, GoneFacts
<1>3. CASE e.type = "session.failed"
  BY <1>3, FailedFacts
<1>4. CASE e.type = "command.result"
  BY <1>4, RefusedFacts
<1>5. CASE e.type = "turn.started"
  BY <1>5, StartedFacts
<1>6. CASE e.type = "turn.completed"
  BY <1>6, CompletedFacts
<1>7. CASE e.type = "session.loaded"
  BY <1>7, LoadedFacts
<1> QED
  BY <1>1, <1>2, <1>3, <1>4, <1>5, <1>6, <1>7, FrameFacts DEF IsOpen, IsGone, Coalesced

LEMMA TypesReceives ==
  ASSUME Types, Receives
  PROVE  /\ view' \in ShapedViews /\ pending' \in Seq(Frames) /\ wire' \in Seq(Frames)
         /\ \A i \in DOMAIN pending' : Coalesced(pending'[i])
         /\ wire # <<>> /\ Head(wire) \in Frames /\ Head(wire) = wire[1]
         /\ Len(wire) \in Nat \ {0} /\ Len(wire') = Len(wire) - 1
         /\ \A i \in DOMAIN wire' : i + 1 \in DOMAIN wire /\ wire'[i] = wire[i + 1]
         /\ \A i \in DOMAIN wire : i # 1 => i - 1 \in DOMAIN wire' /\ wire'[i - 1] = wire[i]
<1>1. /\ wire # <<>> /\ Head(wire) \in Frames /\ Head(wire) = wire[1]
      /\ Len(wire) \in Nat \ {0} /\ Len(wire') = Len(wire) - 1 /\ wire' \in Seq(Frames)
      /\ \A i \in DOMAIN wire' : i + 1 \in DOMAIN wire /\ wire'[i] = wire[i + 1]
      /\ \A i \in DOMAIN wire : i # 1 => i - 1 \in DOMAIN wire' /\ wire'[i - 1] = wire[i]
  BY DEF Types, Receives
<1>2. CASE Coalesced(Head(wire))
  <2>1. pending' = Append(pending, Head(wire)) /\ view' = view
    BY <1>2 DEF Receives
  <2>2. pending \in Seq(Frames) /\ \A i \in DOMAIN pending : Coalesced(pending[i])
    BY DEF Types
  <2>3. pending' \in Seq(Frames) /\ \A i \in DOMAIN pending' : Coalesced(pending'[i])
    BY <1>1, <1>2, <2>1, <2>2
  <2> QED
    BY <1>1, <2>1, <2>3 DEF Types
<1>3. CASE ~Coalesced(Head(wire))
  <2>1. pending' = <<>> /\ view' = Applied(AppliedAll(view, pending), Head(wire))
    BY <1>3 DEF Receives
  <2>2. view' \in ShapedViews
    BY <1>1, <1>3, <2>1, PendingView, AppliedIsShaped
  <2>3. pending' \in Seq(Frames) /\ \A i \in DOMAIN pending' : Coalesced(pending'[i])
    BY <2>1
  <2> QED
    BY <1>1, <2>2, <2>3
<1> QED
  BY <1>2, <1>3

TabKinds ==
  \/ \E t \in Turns : Begins(t)
  \/ Fails \/ Cancels \/ AsksForOne \/ Resets \/ Waits \/ Receives \/ Paints
  \/ \E s \in Sessions : Loads(s)
  \/ Joins \/ Drops \/ Closes
  \/ \E l \in Seq(Frames) : Hydrates(l)

LEMMA TabKeepsTypes ==
  ASSUME Types, TabKinds
  PROVE  /\ view' \in ShapedViews /\ pending' \in Seq(Frames) /\ wire' \in Seq(Frames)
         /\ \A i \in DOMAIN pending' : Coalesced(pending'[i])
         /\ cmds' \in Seq(Commands) /\ UNCHANGED <<srv, log>>
         /\ link' \in Links
<1>1. /\ view \in ShapedViews /\ pending \in Seq(Frames) /\ wire \in Seq(Frames)
      /\ \A i \in DOMAIN pending : Coalesced(pending[i])
      /\ cmds \in Seq(Commands) /\ link \in Links
  BY DEF Types
<1>2. ASSUME NEW c \in Commands, cmds' = Append(cmds, c) PROVE cmds' \in Seq(Commands)
  BY <1>1, <1>2
<1>3. ASSUME NEW t \in Turns, Begins(t) PROVE view' \in ShapedViews /\ cmds' \in Seq(Commands)
  BY <1>1, <1>2, <1>3, BeginFacts, CommandsMade DEF Begins
<1>4. ASSUME Fails PROVE view' \in ShapedViews /\ cmds' \in Seq(Commands)
  BY <1>1, <1>4 DEF Fails
<1>5. ASSUME Cancels PROVE view' \in ShapedViews /\ cmds' \in Seq(Commands)
  BY <1>1, <1>2, <1>5, CancelFacts, CommandsMade DEF Cancels
<1>6. ASSUME AsksForOne PROVE view' \in ShapedViews /\ cmds' \in Seq(Commands)
  BY <1>1, <1>2, <1>6, OpeningFacts, CommandsMade DEF AsksForOne
<1>7. ASSUME Resets PROVE view' \in ShapedViews /\ cmds' \in Seq(Commands)
  BY <1>1, <1>2, <1>7, ResetFacts, CommandsMade DEF Resets
<1>8. ASSUME NEW s \in Sessions, Loads(s) PROVE view' \in ShapedViews /\ cmds' \in Seq(Commands)
  BY <1>1, <1>2, <1>8, CommandsMade DEF Loads
<1>9. ASSUME Paints \/ Closes PROVE view' \in ShapedViews
  BY <1>9, PendingView, ConnectionFacts DEF Paints, Closes
<1>10. ASSUME Joins PROVE view' \in ShapedViews
  BY <1>1, <1>10, JoinedFacts DEF Joins
<1>11. ASSUME NEW l \in Seq(Frames), Hydrates(l) PROVE view' \in ShapedViews
  BY <1>1, <1>11, HydrateFacts DEF Hydrates
<1>12. CASE \E t \in Turns : Begins(t)
  BY <1>1, <1>3, <1>12 DEF Begins, TabSide
<1>13. CASE Fails \/ Cancels \/ AsksForOne
  BY <1>1, <1>4, <1>5, <1>6, <1>13 DEF Fails, Cancels, AsksForOne, TabSide
<1>14. CASE Resets
  <2>1. <<>> \in Seq(Frames) /\ DOMAIN <<>> = {}
    OBVIOUS
  <2> QED
    BY <1>1, <1>7, <1>14, <2>1 DEF Resets
<1>15. CASE Waits
  BY <1>1, <1>15 DEF Waits, Moves, Links
<1>16. CASE Receives
  BY <1>1, <1>16, TypesReceives DEF Receives
<1>17. CASE Paints
  <2>1. <<>> \in Seq(Frames) /\ DOMAIN <<>> = {}
    OBVIOUS
  <2> QED
    BY <1>1, <1>9, <1>17, <2>1 DEF Paints
<1>18. CASE \E s \in Sessions : Loads(s)
  BY <1>1, <1>8, <1>18 DEF Loads, TabSide
<1>19. CASE Joins
  BY <1>1, <1>10, <1>19 DEF Joins, Links
<1>20. CASE Drops
  <2>1. <<>> \in Seq(Commands)
    OBVIOUS
  <2> QED
    BY <1>1, <1>20, <2>1 DEF Drops, Links
<1>21. CASE Closes
  <2>1. <<>> \in Seq(Frames) /\ DOMAIN <<>> = {}
    OBVIOUS
  <2> QED
    BY <1>1, <1>9, <1>21, <2>1 DEF Closes, Links
<1>22. CASE \E l \in Seq(Frames) : Hydrates(l)
  BY <1>1, <1>11, <1>22 DEF Hydrates, Moves, Links
<1> QED
  BY <1>12, <1>13, <1>14, <1>15, <1>16, <1>17, <1>18, <1>19, <1>20, <1>21, <1>22 DEF TabKinds

LEMMA ReadsKept ==
  ASSUME Types, GateInv, [Next]_vars
  PROVE  /\ reads' \subseteq [of : Sessions, from : Nat, gate : BOOLEAN]
         /\ upsets' \in 0..MaxUpsets
         /\ GateInv'
<1> DEFINE R == [of : Sessions, from : Nat, gate : BOOLEAN]
<1>1. reads \subseteq R /\ upsets \in 0..MaxUpsets /\ MaxUpsets \in Nat
  BY BoundsAreNatural DEF Types
<1>2. CASE UNCHANGED <<reads, link, upsets>>
  BY <1>1, <1>2 DEF GateInv
<1>3. CASE UNCHANGED <<reads, link>> /\ Upset
  BY <1>1, <1>3 DEF GateInv, Upset
<1>4. \A s \in Sessions, gate \in BOOLEAN : Read(s, gate) \in R /\ Read(s, gate).gate = gate
  BY DEF Read, Types
<1>5. ASSUME Receive PROVE reads' \subseteq R /\ upsets' \in 0..MaxUpsets /\ GateInv'
  <2>1. Head(wire) \in Frames
    BY <1>5 DEF Receive, Types
  <2>2. CASE reads' = reads
    BY <1>1, <1>5, <2>2 DEF Receive, GateInv
  <2>3. CASE Head(wire).type = "session.loaded" /\ reads' = reads \cup {Read(Head(wire).of, FALSE)}
    <3>1. Head(wire).of \in Sessions
      BY <2>1, <2>3 DEF Frames, SeatFrames, Failures, PromptRefusals, OtherRefusals, Starts, Deltas, Tools, Ends
    <3>2. Read(Head(wire).of, FALSE) \in R /\ Read(Head(wire).of, FALSE).gate = FALSE
      BY <1>4, <3>1
    <3>3. link' = link /\ upsets' = upsets
      BY <1>5 DEF Receive
    <3> QED
      BY <1>1, <2>3, <3>2, <3>3 DEF GateInv
  <2> QED
    BY <1>5, <2>2, <2>3 DEF Receive
<1>6. ASSUME Retry PROVE reads' \subseteq R /\ upsets' \in 0..MaxUpsets /\ GateInv'
  <2>1. link = "down" /\ upsets' = upsets
    BY <1>6 DEF Retry
  <2>2. \A r \in reads : ~r.gate
    BY <1>1, <2>1 DEF GateInv
  <2>3. CASE view.of # NoSession
    <3>1. link' = "rehydrating" /\ reads' = reads \cup {Read(view.of, TRUE)}
      BY <1>6, <2>3 DEF Retry
    <3>2. Read(view.of, TRUE) \in R
      BY <1>4, <2>3 DEF Types, ShapedViews
    <3> QED
      BY <1>1, <2>1, <2>2, <3>1, <3>2 DEF GateInv
  <2>4. CASE view.of = NoSession
    BY <1>1, <1>6, <2>1, <2>2, <2>4 DEF Retry, GateInv
  <2> QED
    BY <2>3, <2>4
<1>7. ASSUME BudgetEnds PROVE reads' \subseteq R /\ upsets' \in 0..MaxUpsets /\ GateInv'
  <2>1. reads' = {[r EXCEPT !.gate = FALSE] : r \in reads} /\ upsets' = upsets
    BY <1>7 DEF BudgetEnds
  <2>2. \A r \in reads : [r EXCEPT !.gate = FALSE] \in R /\ [r EXCEPT !.gate = FALSE].gate = FALSE
    BY <1>1
  <2> QED
    BY <1>1, <2>1, <2>2 DEF GateInv
<1>8. ASSUME NEW r \in reads, ReadLands(r) \/ ReadFails(r)
      PROVE  reads' \subseteq R /\ upsets' \in 0..MaxUpsets /\ GateInv'
  <2>1. reads' = reads \ {r} /\ Connected(r) /\ upsets' = upsets
    BY <1>8 DEF ReadLands, ReadFails
  <2>2. CASE r.gate
    <3>1. \A q \in reads' : ~q.gate
      BY <1>1, <2>1, <2>2 DEF GateInv
    <3> QED
      BY <1>1, <2>1, <3>1 DEF GateInv
  <2>3. CASE ~r.gate
    BY <1>1, <2>1, <2>3 DEF GateInv, Connected
  <2> QED
    BY <2>2, <2>3
<1>9. ASSUME SocketOpens \/ OnClose \/ SocketDrops
      PROVE  reads' \subseteq R /\ upsets' \in 0..MaxUpsets /\ GateInv'
  <2>1. reads' = reads /\ link # "rehydrating" /\ (upsets' = upsets \/ Upset)
    BY <1>9 DEF SocketOpens, OnClose, SocketDrops
  <2>2. upsets' \in 0..MaxUpsets
    BY <1>1, <2>1 DEF Upset
  <2> QED
    BY <1>1, <2>1, <2>2 DEF GateInv
<1>10. ASSUME AnimationFrame \/ \E t \in Turns : FlushQueued(t) \/ HandBack(t) \/ Uploaded(t) \/ SubmitQueued(t) \/ SubmitNow(t)
       PROVE  UNCHANGED <<reads, link, upsets>>
  BY <1>10 DEF AnimationFrame, FlushQueued, HandBack, Uploaded, SubmitQueued, SubmitNow, netVars
<1>11. ASSUME Server PROVE UNCHANGED <<reads, link, upsets>>
  BY <1>11 DEF Server, Serve, Stream, EndTurn, ServerSeesClose
<1>12. ASSUME Cancel \/ NewTask \/ IdleClose \/ \E s \in Sessions : LoadSession(s)
       PROVE  UNCHANGED <<reads, link>> /\ Upset
  BY <1>12 DEF Cancel, NewTask, IdleClose, LoadSession
<1>13. ASSUME UNCHANGED vars PROVE UNCHANGED <<reads, link, upsets>>
  BY <1>13 DEF vars, netVars
<1> QED
  BY <1>2, <1>3, <1>5, <1>6, <1>7, <1>8, <1>9, <1>10, <1>11, <1>12, <1>13 DEF Next, Tab, Net, Clicks

LEMMA TypesInvariant == Spec => [](Types /\ GateInv /\ SentInv)
<1>1. Init => Types /\ GateInv /\ SentInv
  <2> SUFFICES ASSUME Init PROVE Types /\ GateInv /\ SentInv
    OBVIOUS
  <2>1. InitialView \in ShapedViews
    <3>1. <<>> \in Seq(ShapedEntries)
      OBVIOUS
    <3> QED
      BY <3>1 DEF InitialView, ShapedViews, Cards
  <2>2. /\ pending = <<>> /\ wire = <<>> /\ cmds = <<>>
        /\ <<>> \in Seq(Frames) /\ <<>> \in Seq(Commands) /\ DOMAIN <<>> = {}
    BY DEF Init
  <2>3. log \in [Sessions -> Seq(Frames)]
    BY <2>2 DEF Init
  <2>4. upsets \in 0..MaxUpsets
    BY BoundsAreNatural DEF Init
  <2>5. Types
    BY <2>1, <2>2, <2>3, <2>4 DEF Init, Types, Links, NoConnection
  <2>6. GateInv /\ SentInv
    BY DEF Init, GateInv, SentInv, Fates
  <2> QED
    BY <2>5, <2>6
<1>2. Types /\ GateInv /\ SentInv /\ [Next]_vars => (Types /\ GateInv /\ SentInv)'
  <2> SUFFICES ASSUME Types, GateInv, SentInv, [Next]_vars PROVE Types' /\ GateInv' /\ SentInv'
    OBVIOUS
  <2>1. SentInv'
    BY StepKeepsSent
  <2>2. /\ reads' \subseteq [of : Sessions, from : Nat, gate : BOOLEAN]
        /\ upsets' \in 0..MaxUpsets
        /\ GateInv'
    BY ReadsKept
  <2>3. TabKinds \/ ServerKinds
    BY StepReduces DEF Steps, TabKinds, ServerKinds
  <2>4. CASE TabKinds
    <3>1. /\ view' \in ShapedViews /\ pending' \in Seq(Frames) /\ wire' \in Seq(Frames)
          /\ \A i \in DOMAIN pending' : Coalesced(pending'[i])
          /\ cmds' \in Seq(Commands) /\ UNCHANGED <<srv, log>>
          /\ link' \in Links
      BY <2>4, TabKeepsTypes
    <3> QED
      BY <2>1, <2>2, <3>1 DEF Types
  <2>5. CASE ~TabKinds
    <3>1. /\ wire' \in Seq(Frames) /\ cmds' \in Seq(Commands)
          /\ srv' \in [of : Sessions \cup {NoSession}, turn : Turns \cup {NoTurn}]
          /\ srv'.of = NoSession => srv'.turn = NoTurn
          /\ log' \in [Sessions -> Seq(Frames)]
          /\ ServerSide
      BY <2>3, <2>5, ServerKeepsTypes
    <3> QED
      BY <2>1, <2>2, <3>1 DEF Types, ServerSide
  <2> QED
    BY <2>4, <2>5
<1> QED
  BY <1>1, <1>2, PTL DEF Spec

----------------------------------------------------------------------------
(* What a frame that is received does to the view                            *)

LEMMA Received ==
  ASSUME Types, Receives
  PROVE  LET e == Head(wire) IN
         /\ e \in Frames /\ view'.conn = view.conn /\ Owners(view') \subseteq Owners(view)
         /\ Coalesced(e) => view' = view
         /\ ~Coalesced(e) => pending' = <<>>
         /\ IsOpen(e) => /\ view'.session = "open" /\ view'.of = e.of
                         /\ \/ /\ view.of = e.of /\ view'.turn = view.turn
                               /\ view'.prompt = view.prompt /\ view'.status = view.status
                            \/ view.of # e.of /\ Blank(view')
         /\ IsGone(e) => \/ /\ view.of = e.of /\ view'.session = "none" /\ view'.of = NoSession
                            /\ view'.prompt = NoTurn /\ view'.turn = view.turn
                            /\ view'.status = StatusOr(view, "idle")
                         \/ view.of # e.of /\ SameCore(view, view')
         /\ e.type = "session.failed" =>
              /\ view'.turn = view.turn /\ view'.of = view.of /\ view'.prompt = view.prompt
              /\ view'.session = "failed" /\ view'.status = StatusOr(view, "error")
         /\ e.type = "command.result" =>
              /\ view'.turn = view.turn /\ view'.of = view.of /\ view'.prompt = view.prompt
              /\ \/ /\ view.session = "opening" /\ view'.session = "failed"
                    /\ view'.status = StatusOr(view, "error")
                 \/ /\ e = Refusal("session.prompt", view.prompt) /\ view.prompt \in Turns
                    /\ view'.session = view.session /\ view'.status = "error"
                 \/ SameCore(view, view')
              /\ e = Refusal("session.prompt", view.prompt) => ~IsLive(view')
         /\ e.type = "turn.started" =>
              /\ view'.turn = view.turn /\ view'.of = view.of /\ view'.session = view.session
              /\ \/ view.turn = e.of /\ view'.status = "running" /\ view'.prompt = NoTurn
                 \/ view.turn # e.of /\ SameCore(view, view')
         /\ e.type = "turn.completed" =>
              /\ view'.turn = view.turn /\ view'.of = view.of /\ view'.session = view.session
              /\ \/ /\ view.turn = e.of /\ ~IsTerminal(view)
                    /\ view'.status \in {"done", "error"} /\ view'.prompt = NoTurn
                 \/ (view.turn # e.of \/ IsTerminal(view)) /\ SameCore(view, view')
         /\ e.type = "session.loaded" => SameCore(view, view')
<1> DEFINE e == Head(wire)
           v == AppliedAll(view, pending)
<1>1. e \in Frames
  BY TypesReceives
<1>2. v \in ShapedViews /\ SameCore(view, v) /\ Owners(v) \subseteq Owners(view)
  BY PendingView
<1>3. CASE Coalesced(e)
  <2>1. view' = view
    BY <1>3 DEF Receives
  <2> QED
    BY <1>1, <1>3, <2>1 DEF Coalesced, IsOpen, IsGone
<1>4. CASE ~Coalesced(e)
  <2>1. view' = Applied(v, e) /\ pending' = <<>>
    BY <1>4 DEF Receives
  <2> HIDE DEF v, e
  <2>2. /\ v.conn = view.conn /\ v.session = view.session /\ v.of = view.of
        /\ v.turn = view.turn /\ v.prompt = view.prompt /\ v.status = view.status
        /\ (IsTerminal(v) <=> IsTerminal(view))
        /\ \A o : StatusOr(v, o) = StatusOr(view, o)
    BY <1>2 DEF SameCore, IsTerminal, StatusOr
  <2>3. \A w : w.entries = v.entries => Owners(w) \subseteq Owners(view)
    BY <1>2 DEF Owners
  <2>4. \A w : w.entries = <<>> => Owners(w) \subseteq Owners(view)
    BY DEF Owners
  <2>5. CASE IsOpen(e)
    <3>1. /\ view'.conn = v.conn /\ view'.session = "open" /\ view'.of = e.of
          /\ \/ /\ v.of = e.of /\ view'.turn = v.turn /\ view'.prompt = v.prompt
                /\ view'.status = v.status /\ view'.entries = v.entries
             \/ v.of # e.of /\ Blank(view')
      BY <1>1, <1>2, <2>1, <2>5, OpenedFacts
    <3>2. view'.entries = <<>> \/ view'.entries = v.entries
      BY <3>1 DEF Blank
    <3> QED
      BY <1>1, <1>4, <2>1, <2>2, <2>3, <2>4, <2>5, <3>1, <3>2 DEF IsOpen, IsGone, e
  <2>6. CASE IsGone(e)
    <3>1. /\ view'.conn = v.conn /\ view'.turn = v.turn /\ view'.entries = v.entries
          /\ \/ /\ v.of = e.of /\ view'.session = "none" /\ view'.of = NoSession /\ view'.prompt = NoTurn
                /\ view'.status = StatusOr(v, "idle")
             \/ v.of # e.of /\ view' = v
      BY <1>1, <1>2, <2>1, <2>6, GoneFacts
    <3> QED
      BY <1>1, <1>2, <1>4, <2>1, <2>2, <2>3, <2>6, <3>1 DEF IsOpen, IsGone, e
  <2>7. CASE e.type = "session.failed"
    <3>1. /\ view'.conn = v.conn /\ view'.turn = v.turn /\ view'.entries = v.entries
          /\ view'.of = v.of /\ view'.prompt = v.prompt
          /\ view'.session = "failed" /\ view'.status = StatusOr(v, "error")
      BY <1>1, <1>2, <2>1, <2>7, FailedFacts
    <3> QED
      BY <1>1, <1>4, <2>1, <2>2, <2>3, <2>7, <3>1 DEF IsOpen, IsGone, e
  <2>8. CASE e.type = "command.result"
    <3>1. /\ view'.conn = v.conn /\ view'.turn = v.turn /\ view'.entries = v.entries
          /\ view'.of = v.of /\ view'.prompt = v.prompt
          /\ \/ v.session = "opening" /\ view'.session = "failed" /\ view'.status = StatusOr(v, "error")
             \/ /\ e = Refusal("session.prompt", v.prompt) /\ v.prompt \in Turns
                /\ view'.session = v.session /\ view'.status = "error"
             \/ view' = v
          /\ e = Refusal("session.prompt", v.prompt) => ~IsLive(view')
      BY <1>1, <1>2, <2>1, <2>8, RefusedFacts
    <3> QED
      BY <1>1, <1>2, <1>4, <2>1, <2>2, <2>3, <2>8, <3>1 DEF IsOpen, IsGone, e
  <2>9. CASE e.type = "turn.started"
    <3>1. /\ view'.conn = v.conn /\ view'.turn = v.turn /\ view'.entries = v.entries
          /\ view'.of = v.of /\ view'.session = v.session
          /\ \/ v.turn = e.of /\ view'.status = "running" /\ view'.prompt = NoTurn
             \/ v.turn # e.of /\ view' = v
      BY <1>1, <1>2, <2>1, <2>9, StartedFacts
    <3> QED
      BY <1>1, <1>2, <1>4, <2>1, <2>2, <2>3, <2>9, <3>1 DEF IsOpen, IsGone, e
  <2>10. CASE e.type = "turn.completed"
    <3>1. /\ view'.conn = v.conn /\ view'.turn = v.turn /\ view'.entries = v.entries
          /\ view'.of = v.of /\ view'.session = v.session
          /\ \/ /\ v.turn = e.of /\ ~IsTerminal(v)
                /\ view'.status \in {"done", "error"} /\ view'.prompt = NoTurn
             \/ (v.turn # e.of \/ IsTerminal(v)) /\ view' = v
      BY <1>1, <1>2, <2>1, <2>10, CompletedFacts
    <3> QED
      BY <1>1, <1>2, <1>4, <2>1, <2>2, <2>3, <2>10, <3>1 DEF IsOpen, IsGone, e
  <2>11. CASE e.type = "session.loaded"
    <3>1. view' = v
      BY <2>1, <2>11, LoadedFacts
    <3> QED
      BY <1>1, <1>2, <1>4, <2>1, <2>2, <2>3, <2>11, <3>1 DEF IsOpen, IsGone, e
  <2> QED
    BY <1>1, <1>4, <2>5, <2>6, <2>7, <2>8, <2>9, <2>10, <2>11, FrameFacts DEF IsOpen, IsGone, Coalesced, e
<1> QED
  BY <1>3, <1>4

LEMMA Appended ==
  ASSUME NEW X, NEW q \in Seq(X), NEW es \in Seq(X), NEW r, r = q \o es
  PROVE  /\ r \in Seq(X) /\ Len(q) \in Nat /\ Len(es) \in Nat /\ Len(r) = Len(q) + Len(es)
         /\ DOMAIN q = 1..Len(q) /\ DOMAIN r = 1..Len(r) /\ DOMAIN es = 1..Len(es)
         /\ \A i \in DOMAIN q : i \in DOMAIN r /\ r[i] = q[i]
         /\ \A i \in DOMAIN es : Len(q) + i \in DOMAIN r /\ r[Len(q) + i] = es[i]
         /\ \A i \in DOMAIN r : \/ i \in DOMAIN q /\ r[i] = q[i]
                                \/ i > Len(q) /\ i - Len(q) \in DOMAIN es /\ r[i] = es[i - Len(q)]
OBVIOUS

LEMMA AppendedOne ==
  ASSUME NEW X, NEW q \in Seq(X), NEW c \in X, NEW r, r = Append(q, c)
  PROVE  /\ r \in Seq(X) /\ Len(q) \in Nat /\ Len(r) = Len(q) + 1
         /\ DOMAIN q = 1..Len(q) /\ DOMAIN r = 1..(Len(q) + 1) /\ r[Len(q) + 1] = c
         /\ \A i \in DOMAIN q : r[i] = q[i]
OBVIOUS

LEMMA Tailed ==
  ASSUME NEW X, NEW q \in Seq(X), q # <<>>, NEW r, r = Tail(q)
  PROVE  /\ r \in Seq(X) /\ Len(q) \in Nat \ {0} /\ Len(r) = Len(q) - 1
         /\ DOMAIN q = 1..Len(q) /\ DOMAIN r = 1..(Len(q) - 1) /\ 1 \in DOMAIN q /\ q[1] = Head(q) /\ Head(q) \in X
         /\ \A i \in DOMAIN r : i + 1 \in DOMAIN q /\ r[i] = q[i + 1]
         /\ \A i \in DOMAIN q : i # 1 => i - 1 \in DOMAIN r /\ r[i - 1] = q[i]
OBVIOUS

----------------------------------------------------------------------------
(* The link, and what is stored of an open session                           *)

(* Only an open socket has commands on it; while none is open or closing     *)
(* nothing is on the way and nothing runs on screen.                         *)
LinkInv ==
  /\ link # "open" => cmds = <<>>
  /\ link \in {"connecting", "down", "rehydrating"} => wire = <<>> /\ pending = <<>> /\ ~IsLive(view)
  /\ link = "open" => view.conn = "open"

(* A session on screen is a stored one, and a turn waits for its own prompt. *)
ViewInv ==
  /\ view.session = "open" => view.of # NoSession
  /\ view.session = "opening" => view.of = NoSession
  /\ view.turn # NoTurn => view.prompt \in {view.turn, NoTurn}
  /\ view.of # NoSession => log[view.of] # <<>>
  /\ \A i \in DOMAIN wire : IsOpen(wire[i]) => log[wire[i].of] # <<>>
  /\ srv.of # NoSession => log[srv.of] # <<>>

LEMMA StepKeepsLink ==
  ASSUME Types, LinkInv, TabKinds \/ ServerKinds
  PROVE  LinkInv'
<1>1. CASE ServerKinds
  BY <1>1, ServerKindFacts DEF LinkInv, ServerSide
<1>2. ASSUME NEW t \in Turns, Begins(t) PROVE LinkInv'
  <2>1. view'.conn = view.conn
    BY <1>2, BeginFacts DEF Types, Begins
  <2> QED
    BY <1>2, <2>1 DEF LinkInv, Begins, TabSide
<1>3. CASE Fails
  BY <1>3 DEF LinkInv, Fails, TabSide
<1>4. CASE Cancels
  BY <1>4, CancelFacts DEF LinkInv, Cancels, TabSide, Types
<1>5. CASE AsksForOne
  BY <1>5, OpeningFacts DEF LinkInv, AsksForOne, TabSide, Types
<1>6. CASE Resets
  BY <1>6, ResetFacts DEF LinkInv, Resets, Types, Blank, IsLive
<1>7. CASE Waits
  BY <1>7 DEF LinkInv, Waits, Moves
<1>8. CASE Receives
  BY <1>8, Received DEF LinkInv, Receives
<1>9. CASE Paints
  BY <1>9, PendingView DEF LinkInv, Paints, SameCore, IsLive
<1>10. CASE \E s \in Sessions : Loads(s)
  BY <1>10 DEF LinkInv, Loads, TabSide
<1>11. CASE Joins
  BY <1>11, JoinedFacts DEF LinkInv, Joins, Types
<1>12. CASE Drops
  BY <1>12 DEF LinkInv, Drops
<1>13. CASE Closes
  BY <1>13, PendingView, ConnectionFacts DEF LinkInv, Closes
<1>14. ASSUME NEW l \in Seq(Frames), Hydrates(l) PROVE LinkInv'
  <2>1. view \in ShapedViews
    BY DEF Types
  <2>2. view'.conn = view.conn /\ view'.status \in {"idle", "error"}
    BY <1>14, <2>1, HydrateFacts DEF Hydrates
  <2> QED
    BY <1>14, <2>2 DEF LinkInv, Hydrates, Moves, IsLive
<1> QED
  BY <1>1, <1>2, <1>3, <1>4, <1>5, <1>6, <1>7, <1>8, <1>9, <1>10, <1>11, <1>12, <1>13, <1>14 DEF TabKinds

(* Nothing is taken out of a log.                                            *)
LEMMA LogsGrow ==
  ASSUME Types, ServerKinds, NEW s \in Sessions
  PROVE  /\ log[s] \in Seq(Frames) /\ log'[s] \in Seq(Frames) /\ Len(log[s]) <= Len(log'[s])
         /\ \A i \in DOMAIN log[s] : i \in DOMAIN log'[s] /\ log'[s][i] = log[s][i]
         /\ log[s] # <<>> => log'[s] # <<>>
<1>1. log \in [Sessions -> Seq(Frames)]
  BY DEF Types
<1>2. CASE UNCHANGED log
  BY <1>1, <1>2
<1>3. ASSUME NEW r \in Sessions, NEW rec \in Seq(Frames), log' = [log EXCEPT ![r] = @ \o rec]
      PROVE  /\ log'[s] \in Seq(Frames) /\ Len(log[s]) <= Len(log'[s])
             /\ \A i \in DOMAIN log[s] : i \in DOMAIN log'[s] /\ log'[s][i] = log[s][i]
             /\ log[s] # <<>> => log'[s] # <<>>
  <2>1. CASE r # s
    BY <1>1, <1>3, <2>1
  <2>2. CASE r = s
    <3>1. log'[s] = log[s] \o rec /\ log[s] \in Seq(Frames)
      BY <1>1, <1>3, <2>2
    <3> QED
      BY <1>3, <3>1
  <2> QED
    BY <2>1, <2>2
<1> QED
  BY <1>1, <1>2, <1>3, ServerKindFacts

LEMMA MadeTypes ==
  /\ \A s : /\ Opened(s).type = "session.opened" /\ Loaded(s).type = "session.loaded"
            /\ Closed(s).type = "session.closed" /\ Reaped(s).type = "seat.reaped"
            /\ Failed(s).type = "session.failed"
            /\ Opened(s).of = s /\ Loaded(s).of = s /\ Closed(s).of = s /\ Reaped(s).of = s
  /\ \A t, a : /\ Started(t).type = "turn.started" /\ Started(t).of = t
               /\ Delta(t, a).type = "turn.delta" /\ Delta(t, a).of = t /\ Delta(t, a).arg = a
               /\ Tool(t, a).type = "tool.updated" /\ Tool(t, a).of = t
               /\ Completed(t, a).type = "turn.completed" /\ Completed(t, a).of = t
               /\ Refusal(a, t).type = "command.result" /\ Refusal(a, t).of = t /\ Refusal(a, t).arg = a
BY DEF Opened, Loaded, Closed, Reaped, Failed, Refusal, Started, Delta, Tool, Completed, Event

(* What kinds of frames a step emits.                                        *)
LEMMA EmitsKinds ==
  ASSUME Types
  PROVE  /\ \A es : Refuses(es) => \A i \in DOMAIN es : es[i].type \in {"command.result", "session.failed"}
         /\ \A s \in Sessions : \A es : Seats(s, es) =>
              /\ DOMAIN es \in {{1}, {1, 2}} /\ es[1] = Opened(s)
              /\ \A i \in DOMAIN es : i # 1 => es[i].type = "session.loaded"
         /\ \A e : Streams(e) => e.type \in {"turn.delta", "tool.updated"} /\ e.of = srv.turn
         /\ \A stop, es : EndsTurn(stop, es) =>
              /\ DOMAIN es \in {{1}, {1, 2}} /\ es[1] = Completed(srv.turn, stop)
              /\ \A i \in DOMAIN es : i # 1 => es[i].type = "session.failed"
         /\ \A es, rec : Releases(es, rec) =>
              \A i \in DOMAIN es : IsGone(es[i]) /\ es[i].of = srv.of
<1>1. ASSUME NEW es, Refuses(es)
      PROVE  \A i \in DOMAIN es : es[i].type \in {"command.result", "session.failed"}
  <2>1. \/ \E a, t : es = <<Refusal(a, t)>>
        \/ \E a, t, s : es = <<Refusal(a, t), Failed(s)>>
        \/ es = <<>>
    BY <1>1 DEF Refuses
  <2>2. ASSUME NEW a, NEW t, es = <<Refusal(a, t)>> PROVE \A i \in DOMAIN es : es[i].type = "command.result"
    BY <2>2, MadeTypes
  <2>3. ASSUME NEW a, NEW t, NEW s, es = <<Refusal(a, t), Failed(s)>>
        PROVE  \A i \in DOMAIN es : es[i].type \in {"command.result", "session.failed"}
    BY <2>3, MadeTypes
  <2>4. ASSUME es = <<>> PROVE DOMAIN es = {}
    BY <2>4
  <2> QED
    BY <2>1, <2>2, <2>3, <2>4
<1>2. ASSUME NEW s \in Sessions, NEW es, Seats(s, es)
      PROVE  /\ DOMAIN es \in {{1}, {1, 2}} /\ es[1] = Opened(s)
             /\ \A i \in DOMAIN es : i # 1 => es[i].type = "session.loaded"
  <2>1. es = <<Opened(s)>> \/ es = <<Opened(s), Loaded(s)>>
    BY <1>2 DEF Seats
  <2>2. CASE es = <<Opened(s)>>
    BY <2>2
  <2>3. CASE es = <<Opened(s), Loaded(s)>>
    BY <2>3, MadeTypes
  <2> QED
    BY <2>1, <2>2, <2>3
<1>3. ASSUME NEW e, Streams(e) PROVE e.type \in {"turn.delta", "tool.updated"} /\ e.of = srv.turn
  BY <1>3, MadeTypes DEF Streams
<1>4. ASSUME NEW stop, NEW es, EndsTurn(stop, es)
      PROVE  /\ DOMAIN es \in {{1}, {1, 2}} /\ es[1] = Completed(srv.turn, stop)
             /\ \A i \in DOMAIN es : i # 1 => es[i].type = "session.failed"
  <2> DEFINE c == Completed(srv.turn, stop)
             f == Failed(srv.of)
  <2>1. es = <<c>> \/ es = <<c, f>>
    BY <1>4 DEF EndsTurn
  <2>2. f.type = "session.failed"
    BY MadeTypes
  <2> HIDE DEF c, f
  <2>3. CASE es = <<c>>
    BY <2>3 DEF c
  <2>4. CASE es = <<c, f>>
    BY <2>2, <2>4 DEF c
  <2> QED
    BY <2>1, <2>3, <2>4
<1>5. ASSUME NEW es, NEW rec, Releases(es, rec)
      PROVE  \A i \in DOMAIN es : IsGone(es[i]) /\ es[i].of = srv.of
  <2> DEFINE c == Closed(srv.of)
             r == Reaped(srv.of)
  <2>1. es = <<>> \/ es = <<c>> \/ es = <<c, r>>
    BY <1>5 DEF Releases
  <2>2. IsGone(c) /\ IsGone(r) /\ c.of = srv.of /\ r.of = srv.of
    BY MadeTypes DEF IsGone
  <2> HIDE DEF c, r
  <2>3. CASE es = <<>>
    BY <2>3
  <2>4. CASE es = <<c>>
    BY <2>2, <2>4
  <2>5. CASE es = <<c, r>>
    BY <2>2, <2>5
  <2> QED
    BY <2>1, <2>3, <2>4, <2>5
<1> QED
  BY <1>1, <1>2, <1>3, <1>4, <1>5

(* A frame of the wire was on it, or is of this step.                        *)
LEMMA WireAfter ==
  ASSUME Types, NEW es \in Seq(Frames), Emitted(wire', es)
  PROVE  /\ link # "open" => wire' = wire
         /\ \A i \in DOMAIN wire' : \/ i \in DOMAIN wire /\ wire'[i] = wire[i]
                                    \/ /\ i > Len(wire) /\ i - Len(wire) \in DOMAIN es
                                       /\ wire'[i] = es[i - Len(wire)]
         /\ \A i \in DOMAIN wire : i \in DOMAIN wire' /\ wire'[i] = wire[i] /\ i <= Len(wire)
         /\ link = "open" => \A i \in DOMAIN es : /\ Len(wire) + i \in DOMAIN wire'
                                                  /\ wire'[Len(wire) + i] = es[i]
         /\ Len(wire) \in Nat
         /\ wire' \in Seq(Frames) /\ DOMAIN wire' = 1..Len(wire') /\ DOMAIN wire = 1..Len(wire)
<1>1. wire \in Seq(Frames) /\ Len(wire) \in Nat /\ DOMAIN wire = 1..Len(wire)
  BY DEF Types
<1>2. CASE link = "open"
  <2>1. wire' = wire \o es
    BY <1>2 DEF Emitted
  <2> QED
    BY <1>1, <1>2, <2>1, Appended
<1>3. CASE link # "open"
  <2>1. wire' = wire
    BY <1>3 DEF Emitted
  <2> QED
    BY <1>1, <1>3, <2>1
<1> QED
  BY <1>2, <1>3

LEMMA StepKeepsView ==
  ASSUME Types, ViewInv, TabKinds \/ ServerKinds
  PROVE  ViewInv'
<1> DEFINE Shape(v) == /\ v.session = "open" => v.of # NoSession
                       /\ v.session = "opening" => v.of = NoSession
                       /\ v.turn # NoTurn => v.prompt \in {v.turn, NoTurn}
<1>1. /\ Shape(view) /\ view \in ShapedViews
      /\ view.of # NoSession => log[view.of] # <<>>
      /\ \A i \in DOMAIN wire : IsOpen(wire[i]) => log[wire[i].of] # <<>>
      /\ srv.of # NoSession => log[srv.of] # <<>>
  BY DEF ViewInv, Types
<1>2. CASE ServerKinds
  <2>1. \A s \in Sessions : log[s] # <<>> => log'[s] # <<>>
    BY <1>2, LogsGrow
  <2>2. view' = view /\ view.of \in Sessions \cup {NoSession} /\ srv.of \in Sessions \cup {NoSession}
    BY <1>2, ServerKindFacts DEF ServerSide, Types, ShapedViews
  <2>3. \A i \in DOMAIN wire : IsOpen(wire[i]) => wire[i].of \in Sessions
    BY FrameFacts DEF Types
  <2>4. view'.of # NoSession => log'[view'.of] # <<>>
    BY <1>1, <2>1, <2>2
  <2>5. ASSUME NEW es \in Seq(Frames), Emitted(wire', es), \A i \in DOMAIN es : ~IsOpen(es[i]),
               srv'.of \in {srv.of, NoSession}
        PROVE  ViewInv'
    <3>1. \A i \in DOMAIN wire' : IsOpen(wire'[i]) => i \in DOMAIN wire /\ wire'[i] = wire[i]
      BY <2>5, WireAfter
    <3>2. \A i \in DOMAIN wire' : IsOpen(wire'[i]) => log'[wire'[i].of] # <<>>
      BY <1>1, <2>1, <2>3, <3>1
    <3>3. srv'.of # NoSession => log'[srv'.of] # <<>>
      BY <1>1, <2>1, <2>2, <2>5
    <3> QED
      BY <1>1, <2>2, <2>4, <3>2, <3>3 DEF ViewInv
  <2>6. CASE \E es : Refuses(es)
    <3>1. PICK es : Refuses(es)
      BY <2>6
    <3>2. es \in Seq(Frames) /\ \A i \in DOMAIN es : ~IsOpen(es[i])
      BY <3>1, EmitsFrames, EmitsKinds DEF IsOpen
    <3> QED
      BY <2>5, <3>1, <3>2 DEF Refuses, Takes, Emitted
  <2>7. CASE \E s \in Sessions : \E es : Seats(s, es)
    <3>1a. PICK s \in Sessions : \E es : Seats(s, es)
      BY <2>7
    <3>1. PICK es : Seats(s, es)
      BY <3>1a
    <3>2. es \in Seq(Frames) /\ \A i \in DOMAIN es : IsOpen(es[i]) => es[i].of = s
      BY <3>1, EmitsFrames, EmitsKinds, MadeTypes DEF IsOpen
    <3>3. log'[s] # <<>>
      <4>1. log' = [log EXCEPT ![s] = @ \o <<Opened(s)>>] /\ log \in [Sessions -> Seq(Frames)] /\ Opened(s) \in Frames
        BY <3>1, FramesMade DEF Seats, Types
      <4>2. log'[s] = log[s] \o <<Opened(s)>> /\ log[s] \in Seq(Frames)
        BY <4>1
      <4> QED
        BY <4>1, <4>2
    <3>4. Emitted(wire', es) /\ srv'.of = s
      BY <3>1 DEF Seats, Takes, Emitted
    <3>5. ASSUME NEW i \in DOMAIN wire', IsOpen(wire'[i]) PROVE log'[wire'[i].of] # <<>>
      <4>1. \/ i \in DOMAIN wire /\ wire'[i] = wire[i]
            \/ i - Len(wire) \in DOMAIN es /\ wire'[i] = es[i - Len(wire)]
        BY <3>2, <3>4, WireAfter
      <4>2. CASE i \in DOMAIN wire /\ wire'[i] = wire[i]
        BY <1>1, <2>1, <2>3, <3>5, <4>2
      <4>3. CASE i - Len(wire) \in DOMAIN es /\ wire'[i] = es[i - Len(wire)]
        BY <3>2, <3>3, <3>5, <4>3
      <4> QED
        BY <4>1, <4>2, <4>3
    <3> QED
      BY <1>1, <2>2, <2>4, <3>3, <3>4, <3>5 DEF ViewInv
  <2>8. CASE \E t \in Turns : StartsTurn(t)
    <3>1. PICK t \in Turns : StartsTurn(t)
      BY <2>8
    <3>2. <<Started(t)>> \in Seq(Frames) /\ \A i \in DOMAIN <<Started(t)>> : ~IsOpen(<<Started(t)>>[i])
      BY FramesMade, FewFrames, MadeTypes DEF IsOpen
    <3>3. Emitted(wire', <<Started(t)>>) /\ srv'.of = srv.of
      BY <3>1 DEF StartsTurn, Takes, Emitted, Types
    <3> QED
      BY <2>5, <3>2, <3>3
  <2>9. CASE \E e : Streams(e)
    <3>1. PICK e : Streams(e)
      BY <2>9
    <3>2. <<e>> \in Seq(Frames) /\ \A i \in DOMAIN <<e>> : ~IsOpen(<<e>>[i])
      BY <3>1, EmitsFrames, EmitsKinds DEF IsOpen
    <3> QED
      BY <2>5, <3>1, <3>2 DEF Streams
  <2>10. CASE \E stop, es : EndsTurn(stop, es)
    <3>1. PICK stop, es : EndsTurn(stop, es)
      BY <2>10
    <3>2. es \in Seq(Frames) /\ \A i \in DOMAIN es : ~IsOpen(es[i])
      BY <3>1, EmitsFrames, EmitsKinds, MadeTypes DEF IsOpen
    <3>3. srv'.of = srv.of
      BY <3>1 DEF EndsTurn, Types
    <3> QED
      BY <2>5, <3>1, <3>2, <3>3 DEF EndsTurn
  <2>11. CASE \E es, rec : Releases(es, rec)
    <3>1. PICK es, rec : Releases(es, rec)
      BY <2>11
    <3>2. es \in Seq(Frames) /\ \A i \in DOMAIN es : ~IsOpen(es[i])
      BY <3>1, EmitsFrames, EmitsKinds DEF IsOpen, IsGone
    <3>3. srv'.of = NoSession
      BY <3>1 DEF Releases, NoConnection
    <3> QED
      BY <2>5, <3>1, <3>2, <3>3 DEF Releases
  <2> QED
    BY <1>2, <2>6, <2>7, <2>8, <2>9, <2>10, <2>11 DEF ServerKinds
<1>3. CASE TabKinds
  <2>1. UNCHANGED <<srv, log>>
    BY <1>3, TabKeepsTypes
  <2>2. ASSUME Shape(view'), view'.of \in {view.of, NoSession}, wire' \in {wire, <<>>}
        PROVE  ViewInv'
    <3>1. DOMAIN <<>> = {}
      OBVIOUS
    <3> QED
      BY <1>1, <2>1, <2>2, <3>1 DEF ViewInv
  <2>3. ASSUME SameCore(view, view') PROVE Shape(view') /\ view'.of = view.of
    BY <1>1, <2>3 DEF SameCore
  <2>4. CASE \E t \in Turns : Begins(t)
    <3>1. PICK t \in Turns : Begins(t)
      BY <2>4
    <3> DEFINE w == BeginTurn(view, t)
    <3>2. /\ w.of = view.of /\ w.session = view.session
          /\ w = view \/ (w.turn = t /\ w.prompt = t)
      BY <1>1, BeginFacts
    <3>3. view' = w
      BY <3>1 DEF Begins
    <3> HIDE DEF w
    <3>4. Shape(view') /\ view'.of = view.of
      BY <1>1, <3>2, <3>3
    <3> QED
      BY <2>2, <3>1, <3>4 DEF Begins, TabSide
  <2>5. CASE Fails
    BY <1>1, <2>2, <2>5 DEF Fails, TabSide
  <2>6. CASE Cancels
    BY <1>1, <2>2, <2>6, CancelFacts DEF Cancels, TabSide
  <2>7. CASE AsksForOne
    BY <1>1, <2>2, <2>7, OpeningFacts DEF AsksForOne, TabSide
  <2>8. CASE Resets
    BY <1>1, <2>2, <2>8, ResetFacts DEF Resets, Blank
  <2>9. CASE Waits \/ Drops \/ \E s \in Sessions : Loads(s)
    BY <1>1, <2>2, <2>9 DEF Waits, Moves, Drops, Loads, TabSide
  <2>10. CASE Paints
    <3>1. SameCore(view, view')
      BY <2>10, PendingView DEF Paints
    <3> QED
      BY <2>2, <2>3, <2>10, <3>1 DEF Paints
  <2>11. CASE Joins
    BY <1>1, <2>2, <2>11, JoinedFacts DEF Joins
  <2>12. CASE Closes
    <3> DEFINE v == AppliedAll(view, pending)
    <3>1. v \in ShapedViews /\ SameCore(view, v) /\ view' = ConnectionClosed(v)
      BY <2>12, PendingView DEF Closes
    <3> HIDE DEF v
    <3>2. /\ view'.of = v.of /\ view'.session = (IF v.session = "open" THEN "failed" ELSE v.session)
          /\ view'.turn = v.turn /\ view'.prompt = v.prompt
      BY <3>1, ConnectionFacts
    <3>3. Shape(view') /\ view'.of = view.of
      BY <1>1, <3>1, <3>2 DEF SameCore
    <3> QED
      BY <2>2, <2>12, <3>3 DEF Closes
  <2>13. CASE \E l \in Seq(Frames) : Hydrates(l)
    <3>1. PICK l \in Seq(Frames) : Hydrates(l)
      BY <2>13
    <3>2. /\ view'.session = view.session /\ view'.of = view.of /\ view'.turn = NoTurn
      BY <1>1, <3>1, HydrateFacts DEF Hydrates
    <3> QED
      BY <1>1, <2>2, <3>1, <3>2 DEF Hydrates, Moves
  <2>14. CASE Receives
    <3> DEFINE e == Head(wire)
    <3>1. /\ e \in Frames /\ e = wire[1] /\ 1 \in DOMAIN wire
          /\ \A i \in DOMAIN wire' : i + 1 \in DOMAIN wire /\ wire'[i] = wire[i + 1]
      BY <2>14, TypesReceives DEF Types
    <3>2. \A i \in DOMAIN wire' : IsOpen(wire'[i]) => log'[wire'[i].of] # <<>>
      BY <1>1, <2>1, <3>1
    <3> HIDE DEF e
    <3>3. CASE IsOpen(e)
      <4>1. /\ view'.session = "open" /\ view'.of = e.of
            /\ \/ view'.turn = view.turn /\ view'.prompt = view.prompt
               \/ Blank(view')
        BY <2>14, <3>3, Received DEF e
      <4>2. e.of \in Sessions
        BY <3>1, <3>3, FrameFacts
      <4>3. Shape(view')
        BY <1>1, <4>1, <4>2, NullSession DEF Blank
      <4>4. log'[view'.of] # <<>>
        BY <1>1, <2>1, <3>1, <3>3, <4>1
      <4> QED
        BY <1>1, <2>1, <3>2, <4>3, <4>4 DEF ViewInv
    <3>4. CASE ~IsOpen(e)
      <4>1. \/ SameCore(view, view')
            \/ view'.session = "none" /\ view'.of = NoSession /\ view'.prompt = NoTurn
            \/ /\ view'.turn = view.turn /\ view'.of = view.of /\ view'.prompt \in {view.prompt, NoTurn}
               /\ view'.session \in {view.session, "failed"}
        <5>1. CASE Coalesced(e)
          BY <2>14, <5>1, Received DEF e, SameCore
        <5>2. CASE IsGone(e)
          BY <2>14, <5>2, Received DEF e
        <5>3. CASE e.type \in {"session.failed", "command.result"}
          BY <2>14, <5>3, Received DEF e
        <5>4. CASE e.type = "turn.started"
          BY <2>14, <5>4, Received DEF e
        <5>5. CASE e.type = "turn.completed"
          BY <2>14, <5>5, Received DEF e
        <5>6. CASE e.type = "session.loaded"
          BY <2>14, <5>6, Received DEF e
        <5> QED
          BY <3>1, <3>4, <5>1, <5>2, <5>3, <5>4, <5>5, <5>6, FrameFacts DEF IsOpen, IsGone, Coalesced
      <4>2. Shape(view') /\ view'.of \in {view.of, NoSession}
        BY <1>1, <4>1 DEF SameCore
      <4> QED
        BY <1>1, <2>1, <3>2, <4>2 DEF ViewInv
    <3> QED
      BY <3>3, <3>4
  <2> QED
    BY <1>3, <2>4, <2>5, <2>6, <2>7, <2>8, <2>9, <2>10, <2>11, <2>12, <2>13, <2>14 DEF TabKinds
<1> QED
  BY <1>2, <1>3

----------------------------------------------------------------------------
(* The one session of a turn                                                 *)

LogHas(s, t)  == \E i \in DOMAIN log[s] : IsAbout(log[s][i], t)
Ended(s, t)   == \E i \in DOMAIN log[s] : log[s][i].type = "turn.completed" /\ log[s][i].of = t
Waiting(t, s) == \E i \in DOMAIN cmds : cmds[i] = Event("session.prompt", s, t)
IsHome(t, s)  == Waiting(t, s) \/ LogHas(s, t)
Shown == Owners(view) \cup ({view.turn} \ {NoTurn})

FreshInv == \A t \in Turns : prompted[t] = 0 =>
              t \notin Shown /\ \A s \in Sessions : ~IsHome(t, s)
OneHome  == \A t \in Turns, s, r \in Sessions : IsHome(t, s) /\ IsHome(t, r) => s = r
RunsAtHome ==
  \A t \in Turns, s \in Sessions : srv.turn = t /\ srv.of = s => LogHas(s, t) /\ ~Ended(s, t)
ShownInv == view.of # NoSession => \A t \in Shown, s \in Sessions : IsHome(t, s) => s = view.of

(* What a server step adds to a log.                                         *)
Adds(r, e) ==
  \/ e.type \notin TurnFrames
  \/ \E t \in Turns : StartsTurn(t) /\ r = srv.of /\ e = Started(t)
  \/ /\ r = srv.of /\ srv.turn \in Turns /\ e.of = srv.turn /\ e.type # "turn.started"
     /\ e.type = "turn.completed" => srv'.turn = NoTurn
     /\ e.type # "turn.completed" => Streams(e)

LEMMA LogAdds ==
  ASSUME Types, NEW s \in Sessions, NEW rec \in Seq(Frames), log' = [log EXCEPT ![s] = @ \o rec],
         \A i \in DOMAIN rec : Adds(s, rec[i])
  PROVE  \A r \in Sessions : \A i \in DOMAIN log'[r] :
           \/ i \in DOMAIN log[r] /\ log'[r][i] = log[r][i]
           \/ i > Len(log[r]) /\ Adds(r, log'[r][i])
<1>1. log \in [Sessions -> Seq(Frames)]
  BY DEF Types
<1>2. log'[s] = log[s] \o rec /\ log[s] \in Seq(Frames) /\ \A r \in Sessions : r # s => log'[r] = log[r]
  BY <1>1
<1> QED
  BY <1>2, Appended

LEMMA LogAfter ==
  ASSUME Types, ServerKinds
  PROVE  \A r \in Sessions : \A i \in DOMAIN log'[r] :
           \/ i \in DOMAIN log[r] /\ log'[r][i] = log[r][i]
           \/ i > Len(log[r]) /\ Adds(r, log'[r][i])
<1>1. CASE \E es : Refuses(es)
  BY <1>1 DEF Refuses
<1>2. CASE \E s \in Sessions : \E es : Seats(s, es)
  <2>1a. PICK s \in Sessions : \E es : Seats(s, es)
    BY <1>2
  <2>1. PICK es : Seats(s, es)
    BY <2>1a
  <2>2. <<Opened(s)>> \in Seq(Frames) /\ log' = [log EXCEPT ![s] = @ \o <<Opened(s)>>]
    BY <2>1, EmitsFrames DEF Seats
  <2>3. \A i \in DOMAIN <<Opened(s)>> : Adds(s, <<Opened(s)>>[i])
    BY MadeTypes DEF Adds, TurnFrames
  <2> QED
    BY <2>2, <2>3, LogAdds
<1>3. CASE \E t \in Turns : StartsTurn(t)
  <2>1. PICK t \in Turns : StartsTurn(t)
    BY <1>3
  <2>2. <<Started(t)>> \in Seq(Frames) /\ srv.of \in Sessions /\ log' = [log EXCEPT ![srv.of] = @ \o <<Started(t)>>]
    BY <2>1, EmitsFrames DEF StartsTurn
  <2>3. \A i \in DOMAIN <<Started(t)>> : Adds(srv.of, <<Started(t)>>[i])
    BY <2>1, MadeTypes DEF Adds
  <2> QED
    BY <2>2, <2>3, LogAdds
<1>4. CASE \E e : Streams(e)
  <2>1. PICK e : Streams(e)
    BY <1>4
  <2>2. /\ <<e>> \in Seq(Frames) /\ srv.of \in Sessions /\ srv.turn \in Turns
        /\ log' = [log EXCEPT ![srv.of] = @ \o <<e>>]
    BY <2>1, EmitsFrames DEF Streams
  <2>3. \A i \in DOMAIN <<e>> : Adds(srv.of, <<e>>[i])
    BY <2>1, <2>2, EmitsKinds DEF Adds
  <2> QED
    BY <2>2, <2>3, LogAdds
<1>5. CASE \E stop, es : EndsTurn(stop, es)
  <2>1. PICK stop, es : EndsTurn(stop, es)
    BY <1>5
  <2> DEFINE c == Completed(srv.turn, stop)
  <2>2. /\ <<c>> \in Seq(Frames) /\ srv.of \in Sessions /\ srv.turn \in Turns
        /\ log' = [log EXCEPT ![srv.of] = @ \o <<c>>] /\ srv' = [srv EXCEPT !.turn = NoTurn]
    BY <2>1, EmitsFrames DEF EndsTurn
  <2>3. c.type = "turn.completed" /\ c.of = srv.turn /\ srv'.turn = NoTurn
    BY <2>2, MadeTypes DEF Types
  <2> HIDE DEF c
  <2>4. \A i \in DOMAIN <<c>> : Adds(srv.of, <<c>>[i])
    BY <2>2, <2>3 DEF Adds
  <2> QED
    BY <2>2, <2>4, LogAdds
<1>6. CASE \E es, rec : Releases(es, rec)
  <2>1. PICK es, rec : Releases(es, rec)
    BY <1>6
  <2> DEFINE c == Completed(srv.turn, "ended")
             r == Reaped(srv.of)
  <2>2. /\ es \in Seq(Frames) /\ rec \in Seq(Frames) /\ srv.of \in Sessions
        /\ log' = [log EXCEPT ![srv.of] = @ \o rec] /\ srv'.turn = NoTurn
    BY <2>1, EmitsFrames DEF Releases, NoConnection
  <2>3. c.type = "turn.completed" /\ c.of = srv.turn /\ r.type = "seat.reaped"
    BY MadeTypes
  <2>4. \/ rec = es
        \/ srv.turn \in Turns /\ rec = es \o <<c>>
        \/ srv.turn \in Turns /\ rec = <<c, r>>
    BY <2>1 DEF Releases
  <2> HIDE DEF c, r
  <2>5. \A i \in DOMAIN es : Adds(srv.of, es[i])
    BY <2>1, EmitsKinds DEF Adds, IsGone, TurnFrames
  <2>6. srv.turn \in Turns => Adds(srv.of, c)
    BY <2>2, <2>3 DEF Adds
  <2>7. Adds(srv.of, r)
    BY <2>3 DEF Adds, TurnFrames
  <2>8. \A i \in DOMAIN rec : Adds(srv.of, rec[i])
    <3>1. CASE rec = es
      BY <2>5, <3>1
    <3>2. CASE srv.turn \in Turns /\ rec = es \o <<c>>
      <4>1. \A i \in DOMAIN rec : (i \in DOMAIN es /\ rec[i] = es[i]) \/ rec[i] = c
        BY <2>2, <3>2
      <4> QED
        BY <2>5, <2>6, <3>2, <4>1
    <3>3. CASE srv.turn \in Turns /\ rec = <<c, r>>
      BY <2>6, <2>7, <3>3
    <3> QED
      BY <2>4, <3>1, <3>2, <3>3
  <2> QED
    BY <2>2, <2>8, LogAdds
<1> QED
  BY <1>1, <1>2, <1>3, <1>4, <1>5, <1>6 DEF ServerKinds

(* What becomes of the commands.                                             *)
LEMMA CmdsAfter ==
  ASSUME Types, TabKinds \/ ServerKinds
  PROVE  \/ cmds' = cmds
         \/ cmds' = <<>> /\ link' # "open"
         \/ Takes /\ ServerKinds
         \/ \E t \in Turns : Begins(t) /\ cmds' = Append(cmds, Event("session.prompt", view.of, t))
         \/ \E c \in Commands : /\ link = "open" /\ TabKinds /\ cmds' = Append(cmds, c)
                                /\ c.type # "session.prompt"
                                /\ c.type = "session.close" => c.of = view.of /\ view' = ResetSession(view)
                                /\ c.type = "session.load" => c.of # view.of
<1>1. \A s : /\ Event("session.load", s, 0).type = "session.load" /\ Event("session.load", s, 0).of = s
             /\ Event("session.cancel", s, 0).type = "session.cancel"
             /\ Event("session.open", s, 0).type = "session.open"
             /\ Event("session.close", s, 0).type = "session.close" /\ Event("session.close", s, 0).of = s
  BY DEF Event
<1>2. CASE ServerKinds
  BY <1>2, ServerKindFacts
<1>3. CASE \E t \in Turns : Begins(t)
  BY <1>3 DEF Begins
<1>4. CASE Fails \/ Waits \/ Receives \/ Paints \/ Joins \/ Closes
  BY <1>4 DEF Fails, Waits, Receives, Paints, Joins, Closes, Moves
<1>5. CASE Cancels
  BY <1>1, <1>5, CommandsMade DEF Cancels, TabKinds
<1>6. CASE AsksForOne
  BY <1>1, <1>6, CommandsMade DEF AsksForOne, TabKinds
<1>7. CASE Resets
  BY <1>1, <1>7, CommandsMade DEF Resets, TabKinds
<1>8. CASE \E s \in Sessions : Loads(s)
  BY <1>1, <1>8, CommandsMade DEF Loads, TabKinds
<1>9. CASE Drops
  BY <1>9 DEF Drops
<1>10. CASE \E l \in Seq(Frames) : Hydrates(l)
  BY <1>10 DEF Hydrates, Moves
<1> QED
  BY <1>2, <1>3, <1>4, <1>5, <1>6, <1>7, <1>8, <1>9, <1>10 DEF TabKinds

LEMMA WaitingAfter ==
  ASSUME Types, TabKinds \/ ServerKinds, NEW t \in Turns, NEW s \in Sessions, Waiting(t, s)'
  PROVE  Waiting(t, s) \/ (Begins(t) /\ s = view.of)
<1>1. PICK i \in DOMAIN cmds' : cmds'[i] = Event("session.prompt", s, t)
  BY DEF Waiting
<1>2. CASE cmds' = cmds
  BY <1>1, <1>2 DEF Waiting
<1>3. CASE cmds' = <<>>
  BY <1>1, <1>3
<1>4. CASE Takes
  BY <1>1, <1>4, CommandsTaken DEF Waiting
<1>5. \A u \in Turns : \A c, r : Event("session.prompt", s, t) = Event("session.prompt", r, u) => r = s /\ u = t
  BY DEF Event
<1>6. CASE \E u \in Turns : Begins(u) /\ cmds' = Append(cmds, Event("session.prompt", view.of, u))
  <2>1. PICK u \in Turns : Begins(u) /\ cmds' = Append(cmds, Event("session.prompt", view.of, u))
    BY <1>6
  <2>2. Event("session.prompt", view.of, u) \in Commands
    BY <2>1, CommandsMade DEF Begins
  <2>3. (i \in DOMAIN cmds /\ cmds'[i] = cmds[i]) \/ cmds'[i] = Event("session.prompt", view.of, u)
    BY <2>1, <2>2, AppendedOne DEF Types
  <2> QED
    BY <1>1, <1>5, <2>1, <2>3 DEF Waiting
<1>7. CASE \E c \in Commands : cmds' = Append(cmds, c) /\ c.type # "session.prompt"
  <2>1. PICK c \in Commands : cmds' = Append(cmds, c) /\ c.type # "session.prompt"
    BY <1>7
  <2>2. (i \in DOMAIN cmds /\ cmds'[i] = cmds[i]) \/ cmds'[i] = c
    BY <1>1, <2>1, AppendedOne DEF Types
  <2> QED
    BY <1>1, <2>1, <2>2 DEF Waiting, Event
<1> QED
  BY <1>2, <1>3, <1>4, <1>6, <1>7, CmdsAfter

LEMMA LogHasAfter ==
  ASSUME Types, TabKinds \/ ServerKinds, NEW t \in Turns, NEW s \in Sessions
  PROVE  /\ LogHas(s, t) => LogHas(s, t)'
         /\ LogHas(s, t)' => LogHas(s, t) \/ (StartsTurn(t) /\ s = srv.of) \/ (srv.turn = t /\ srv.of = s)
         /\ Ended(s, t) => Ended(s, t)'
         /\ Ended(s, t)' => Ended(s, t) \/ (srv.turn = t /\ srv.of = s /\ srv'.turn = NoTurn)
<1>1. CASE TabKinds
  BY <1>1, TabKeepsTypes DEF LogHas, Ended
<1>2. CASE ServerKinds
  <2>1. (LogHas(s, t) => LogHas(s, t)') /\ (Ended(s, t) => Ended(s, t)')
    BY <1>2, LogsGrow DEF LogHas, Ended
  <2>2. ASSUME LogHas(s, t)' PROVE LogHas(s, t) \/ (StartsTurn(t) /\ s = srv.of) \/ (srv.turn = t /\ srv.of = s)
    <3>1. PICK i \in DOMAIN log'[s] : IsAbout(log'[s][i], t)
      BY <2>2 DEF LogHas
    <3>2. CASE i \in DOMAIN log[s] /\ log'[s][i] = log[s][i]
      BY <3>1, <3>2 DEF LogHas
    <3>3. CASE Adds(s, log'[s][i])
      BY <3>1, <3>3, MadeTypes DEF Adds, IsAbout
    <3> QED
      BY <1>2, <3>2, <3>3, LogAfter
  <2>3. ASSUME Ended(s, t)' PROVE Ended(s, t) \/ (srv.turn = t /\ srv.of = s /\ srv'.turn = NoTurn)
    <3>1. PICK i \in DOMAIN log'[s] : log'[s][i].type = "turn.completed" /\ log'[s][i].of = t
      BY <2>3 DEF Ended
    <3>2. CASE i \in DOMAIN log[s] /\ log'[s][i] = log[s][i]
      BY <3>1, <3>2 DEF Ended
    <3>3. CASE Adds(s, log'[s][i])
      BY <3>1, <3>3, MadeTypes DEF Adds, TurnFrames
    <3> QED
      BY <1>2, <3>2, <3>3, LogAfter
  <2> QED
    BY <2>1, <2>2, <2>3
<1> QED
  BY <1>1, <1>2

RefusedHere(t) == \E i \in DOMAIN wire : wire[i] = Refusal("session.prompt", t)

OncePrompted ==
  \A i, j \in DOMAIN cmds :
    cmds[i].type = "session.prompt" /\ cmds[j].type = "session.prompt" /\ cmds[i].arg = cmds[j].arg => i = j
WaitsUnlogged == \A t \in Turns, s, r \in Sessions : Waiting(t, s) => ~LogHas(r, t)
RefusedIsOut ==
  \A t \in Turns : RefusedHere(t) =>
    prompted[t] > 0 /\ \A s \in Sessions : ~LogHas(s, t) /\ ~Waiting(t, s)
FramesAreLogged ==
  /\ \A i \in DOMAIN wire, t \in Turns : IsAbout(wire[i], t) => \E s \in Sessions : LogHas(s, t)
  /\ \A i \in DOMAIN pending, t \in Turns : IsAbout(pending[i], t) => \E s \in Sessions : LogHas(s, t)
  /\ \A i \in DOMAIN wire, t \in Turns :
       wire[i].type = "turn.completed" /\ wire[i].of = t => \E s \in Sessions : Ended(s, t)

(* A turn has one session, and is shown beside no other.                     *)
HomeInv ==
  /\ FreshInv /\ OneHome /\ RunsAtHome /\ ShownInv
  /\ OncePrompted /\ WaitsUnlogged /\ RefusedIsOut /\ FramesAreLogged

LEMMA StartWasWaiting ==
  ASSUME Types, NEW t \in Turns, StartsTurn(t)
  PROVE  /\ Waiting(t, srv.of) /\ srv.of \in Sessions /\ 1 \in DOMAIN cmds
         /\ cmds[1] = Event("session.prompt", srv.of, t)
BY CommandsTaken DEF StartsTurn, Waiting

LEMMA HomeAfter ==
  ASSUME Types, RunsAtHome, TabKinds \/ ServerKinds, NEW t \in Turns, NEW s \in Sessions, IsHome(t, s)'
  PROVE  IsHome(t, s) \/ (Begins(t) /\ s = view.of)
<1>1. CASE Waiting(t, s)'
  BY <1>1, WaitingAfter DEF IsHome
<1>2. CASE LogHas(s, t)'
  BY <1>2, LogHasAfter, StartWasWaiting, NullTurn DEF IsHome, RunsAtHome
<1> QED
  BY <1>1, <1>2 DEF IsHome

LEMMA BeginsIsTab ==
  ASSUME Types, SentInv, NEW t \in Turns, Begins(t)
  PROVE  /\ TabKinds /\ prompted[t] = 0 /\ UNCHANGED <<wire, srv, log, pending, link>> /\ view.of \in Sessions
         /\ view'.of = view.of /\ prompted'[t] = 1
         /\ \A u \in Turns : u # t => prompted'[u] = prompted[u]
         /\ \A u \in Turns : Begins(u) => u = t
<1>1. view'.of = view.of
  BY BeginFacts DEF Begins, Types
<1>2. ASSUME NEW u \in Turns, Begins(u) PROVE u = t
  BY <1>2 DEF Begins, SentInv
<1> QED
  BY <1>1, <1>2 DEF Begins, TabSide, TabKinds, SentInv

LEMMA PromptedAfter ==
  ASSUME Types, SentInv, TabKinds \/ ServerKinds, NEW t \in Turns
  PROVE  prompted[t] \in Nat /\ (prompted[t] > 0 => prompted'[t] > 0)
         /\ (prompted'[t] = 0 => prompted[t] = 0 /\ ~Begins(t))
<1>1. prompted[t] \in Nat
  BY DEF SentInv
<1>2. CASE \E u \in Turns : Begins(u)
  BY <1>1, <1>2, BeginsIsTab
<1>3. CASE ~\E u \in Turns : Begins(u)
  <2>1. prompted' = prompted
    <3>1. CASE ServerKinds
      BY <3>1, ServerKindFacts DEF ServerSide
    <3>2. CASE Fails \/ Cancels \/ AsksForOne \/ Resets \/ Waits \/ Receives
      BY <3>2 DEF Fails, Cancels, AsksForOne, Resets, Waits, Moves, Receives
    <3>3. CASE Paints \/ Joins \/ Drops \/ Closes
      BY <3>3 DEF Paints, Joins, Drops, Closes
    <3>4. CASE \E s \in Sessions : Loads(s)
      BY <3>4 DEF Loads
    <3>5. CASE \E l \in Seq(Frames) : Hydrates(l)
      BY <3>5 DEF Hydrates, Moves
    <3> QED
      BY <1>3, <3>1, <3>2, <3>3, <3>4, <3>5 DEF TabKinds
  <2> QED
    BY <1>1, <1>3, <2>1
<1> QED
  BY <1>2, <1>3

(* What comes on screen is begun there, or is of the session's log.          *)
LEMMA ShownAfter ==
  ASSUME Types, TabKinds \/ ServerKinds
  PROVE  /\ \A t \in Shown' : \/ t \in Shown
                              \/ t \in Turns /\ Begins(t)
                              \/ view.of \in Sessions /\ view'.of = view.of /\ LogHas(view.of, t) /\ t \in Turns
         /\ Shown' = {} \/ view'.of \in {view.of, NoSession}
<1> DEFINE Good == /\ \A t \in Shown' : \/ t \in Shown
                                        \/ t \in Turns /\ Begins(t)
                                        \/ view.of \in Sessions /\ view'.of = view.of /\ LogHas(view.of, t) /\ t \in Turns
                   /\ Shown' = {} \/ view'.of \in {view.of, NoSession}
<1>1. ASSUME Owners(view') \subseteq Owners(view), view'.turn \in {view.turn, NoTurn},
             view'.of \in {view.of, NoSession}
      PROVE  Good
  BY <1>1 DEF Shown
<1>2. ASSUME view'.entries = view.entries, view'.turn = view.turn, view'.of = view.of
      PROVE  Good
  BY <1>2, <1>1 DEF Owners
<1>3. ASSUME Blank(view') PROVE Good
  <2>1. Shown' = {}
    BY <1>3 DEF Blank, Shown, Owners
  <2> QED
    BY <2>1
<1>4. view \in ShapedViews
  BY DEF Types
<1>5. CASE ServerKinds
  BY <1>2, <1>5, ServerKindFacts DEF ServerSide
<1>6. CASE Fails
  BY <1>2, <1>6 DEF Fails
<1>7. CASE Cancels
  BY <1>2, <1>4, <1>7, CancelFacts DEF Cancels
<1>8. CASE AsksForOne
  BY <1>2, <1>4, <1>8, OpeningFacts DEF AsksForOne
<1>9. CASE Resets
  BY <1>3, <1>4, <1>9, ResetFacts DEF Resets
<1>10. CASE Waits \/ Drops \/ \E s \in Sessions : Loads(s)
  BY <1>2, <1>10 DEF Waits, Drops, Loads
<1>11. CASE Joins
  BY <1>2, <1>4, <1>11, JoinedFacts DEF Joins
<1>12. CASE Paints
  <2>1. SameCore(view, view') /\ Owners(view') \subseteq Owners(view)
    BY <1>12, PendingView DEF Paints
  <2> QED
    BY <1>1, <2>1 DEF SameCore
<1>13. CASE Closes
  <2> DEFINE v == AppliedAll(view, pending)
  <2>1. v \in ShapedViews /\ SameCore(view, v) /\ Owners(v) \subseteq Owners(view) /\ view' = ConnectionClosed(v)
    BY <1>13, PendingView DEF Closes
  <2> HIDE DEF v
  <2>2. view'.entries = v.entries /\ view'.turn = v.turn /\ view'.of = v.of
    BY <2>1, ConnectionFacts
  <2>3. Owners(view') \subseteq Owners(view)
    BY <2>1, <2>2 DEF Owners
  <2> QED
    BY <1>1, <2>1, <2>2, <2>3 DEF SameCore
<1>14. CASE \E l \in Seq(Frames) : Hydrates(l)
  <2>1. PICK l \in Seq(Frames) : Hydrates(l)
    BY <1>14
  <2>2. view.of \in Sessions /\ log[view.of] \in Seq(Frames)
        /\ \E n \in 0..Len(log[view.of]) : l = SubSeq(log[view.of], 1, n)
    BY <2>1 DEF Hydrates, Types
  <2>3. /\ view'.of = view.of /\ view'.turn = NoTurn
        /\ \A i \in DOMAIN view'.entries : IsEntryOf(view'.entries[i], l)
    BY <1>4, <2>1, HydrateFacts DEF Hydrates
  <2>4. \A i \in DOMAIN l : i \in DOMAIN log[view.of] /\ l[i] = log[view.of][i]
    BY <2>2
  <2>5. \A e : IsEntryOf(e, l) => LogHas(view.of, e.of) /\ e.of \in Turns
    BY <2>4 DEF IsEntryOf, LogHas, ShapedEntries
  <2> QED
    BY <2>2, <2>3, <2>5 DEF Shown, Owners
<1>15. CASE Receives
  <2> DEFINE e == Head(wire)
  <2>1. e \in Frames /\ Owners(view') \subseteq Owners(view)
    BY <1>15, Received
  <2>2. CASE IsOpen(e)
    <3>1. Blank(view') \/ (view'.of = view.of /\ view'.turn = view.turn)
      BY <1>15, <2>2, Received
    <3> QED
      BY <1>1, <1>3, <2>1, <3>1
  <2>3. CASE ~IsOpen(e)
    <3>1. view'.turn = view.turn /\ view'.of \in {view.of, NoSession}
      <4>1. CASE Coalesced(e)
        BY <1>15, <4>1, Received
      <4>2. CASE IsGone(e)
        BY <1>15, <4>2, Received DEF SameCore
      <4>3. CASE e.type \in {"session.failed", "command.result", "turn.started", "turn.completed"}
        BY <1>15, <4>3, Received
      <4>4. CASE e.type = "session.loaded"
        BY <1>15, <4>4, Received DEF SameCore
      <4> QED
        BY <2>1, <2>3, <4>1, <4>2, <4>3, <4>4, FrameFacts DEF IsOpen, IsGone, Coalesced
    <3> QED
      BY <1>1, <2>1, <3>1
  <2> QED
    BY <2>2, <2>3
<1>16. CASE \E t \in Turns : Begins(t)
  <2>1. PICK t \in Turns : Begins(t)
    BY <1>16
  <2> DEFINE w == BeginTurn(view, t)
  <2>2. /\ w.of = view.of
        /\ \/ w = view
           \/ w.turn = t /\ w.entries = view.entries \o <<User(t), Answer(t, <<>>)>>
    BY <1>4, BeginFacts
  <2>3. view' = w
    BY <2>1 DEF Begins
  <2> HIDE DEF w
  <2>4. CASE w = view
    BY <1>2, <2>3, <2>4
  <2>5. CASE w.turn = t /\ w.entries = view.entries \o <<User(t), Answer(t, <<>>)>>
    <3>1. view.entries \in Seq(ShapedEntries)
      BY <1>4 DEF ShapedViews
    <3>2. User(t).of = t /\ Answer(t, <<>>).of = t
      BY DEF User, Answer
    <3>3. \A i \in DOMAIN w.entries : (\E j \in DOMAIN view.entries : w.entries[i] = view.entries[j]) \/ w.entries[i].of = t
      BY <2>5, <3>1, <3>2
    <3>4. Owners(view') \subseteq Owners(view) \cup {t}
      BY <2>3, <3>3 DEF Owners
    <3> QED
      BY <2>1, <2>2, <2>3, <2>5, <3>4 DEF Shown
  <2> QED
    BY <2>2, <2>4, <2>5
<1> QED
  BY <1>5, <1>6, <1>7, <1>8, <1>9, <1>10, <1>11, <1>12, <1>13, <1>14, <1>15, <1>16 DEF TabKinds

(* What comes on the wire was on it, or is of this step.                     *)
News(e) ==
  \/ e.type \in {"session.opened", "session.loaded", "session.closed", "seat.reaped", "session.failed"}
  \/ e.type = "command.result" /\ e.of = NoTurn
  \/ \E t \in Turns, s \in Sessions :
       /\ e = Refusal("session.prompt", t) /\ Takes /\ UNCHANGED <<srv, log>>
       /\ Head(cmds) = Event("session.prompt", s, t)
       /\ srv.of # s \/ srv.turn # NoTurn
  \/ \E t \in Turns : StartsTurn(t) /\ e = Started(t)
  \/ /\ Streams(e) /\ srv.turn \in Turns /\ srv.of \in Sessions
     /\ e.of = srv.turn /\ e.type \in {"turn.delta", "tool.updated"}
  \/ \E t \in Turns, s \in Sessions :
       /\ srv = [of |-> s, turn |-> t] /\ srv'.turn = NoTurn
       /\ e.type = "turn.completed" /\ e.of = t /\ Ended(s, t)'

LEMMA EndIsLogged ==
  ASSUME Types, NEW stop, NEW es, EndsTurn(stop, es)
  PROVE  /\ \E t \in Turns, s \in Sessions : srv = [of |-> s, turn |-> t] /\ Ended(s, t)'
         /\ srv'.turn = NoTurn /\ srv'.of = srv.of
<1> DEFINE c == Completed(srv.turn, stop)
<1>1. /\ srv.of \in Sessions /\ log' = [log EXCEPT ![srv.of] = @ \o <<c>>] /\ log \in [Sessions -> Seq(Frames)]
      /\ srv' = [srv EXCEPT !.turn = NoTurn]
  BY DEF EndsTurn, Types
<1>2. c \in Frames /\ c.type = "turn.completed" /\ c.of = srv.turn
  BY FramesMade, MadeTypes DEF EndsTurn
<1> HIDE DEF c
<1>3. log'[srv.of] = log[srv.of] \o <<c>> /\ log[srv.of] \in Seq(Frames)
  BY <1>1
<1>4. Len(log[srv.of]) + 1 \in DOMAIN log'[srv.of] /\ log'[srv.of][Len(log[srv.of]) + 1] = c
  BY <1>2, <1>3
<1>5. srv'.turn = NoTurn /\ srv'.of = srv.of
  BY <1>1 DEF Types
<1>6. PICK t \in Turns, s \in Sessions : srv = [of |-> s, turn |-> t]
  BY DEF EndsTurn, Types
<1>7. Ended(s, t)'
  BY <1>2, <1>4, <1>6 DEF Ended
<1> QED
  BY <1>5, <1>6, <1>7

LEMMA WireComes ==
  ASSUME Types, TabKinds \/ ServerKinds
  PROVE  \A i \in DOMAIN wire' : (\E j \in DOMAIN wire : wire'[i] = wire[j]) \/ News(wire'[i])
<1>1. ASSUME NEW es \in Seq(Frames), Emitted(wire', es), \A i \in DOMAIN es : News(es[i])
      PROVE  \A i \in DOMAIN wire' : (\E j \in DOMAIN wire : wire'[i] = wire[j]) \/ News(wire'[i])
  BY <1>1, WireAfter
<1>2. CASE \E es : Refuses(es)
  <2>1. PICK es : Refuses(es)
    BY <1>2
  <2> DEFINE c == Head(cmds)
  <2>2. es \in Seq(Frames) /\ Emitted(wire', es) /\ c \in Commands /\ Takes /\ UNCHANGED <<srv, log>>
    BY <2>1, EmitsFrames, CommandsTaken DEF Refuses, Emitted, Takes
  <2>3. \/ c.type # "session.prompt" /\ es = <<Refusal(c.type, NoTurn)>>
        \/ es = <<Refusal(c.type, NoTurn), Failed(NoSession)>>
        \/ /\ c.type = "session.prompt" /\ es = <<Refusal(c.type, c.arg)>>
           /\ srv.of # c.of \/ srv.turn # NoTurn
        \/ es = <<>>
    BY <2>1 DEF Refuses
  <2>4. \A a : Refusal(a, NoTurn).type = "command.result" /\ Refusal(a, NoTurn).of = NoTurn
    BY MadeTypes
  <2>5. Failed(NoSession).type = "session.failed"
    BY MadeTypes
  <2>6. c.type = "session.prompt" => c.arg \in Turns /\ c.of \in Sessions /\ c = Event("session.prompt", c.of, c.arg)
    BY <2>2, CommandFacts
  <2>7. \A i \in DOMAIN es : News(es[i])
    <3>1. CASE es = <<Refusal(c.type, NoTurn)>>
      BY <2>4, <3>1 DEF News
    <3>2. CASE es = <<Refusal(c.type, NoTurn), Failed(NoSession)>>
      <4>1. News(Refusal(c.type, NoTurn)) /\ News(Failed(NoSession))
        BY <2>4, <2>5 DEF News
      <4> QED
        BY <3>2, <4>1
    <3>3. CASE c.type = "session.prompt" /\ es = <<Refusal(c.type, c.arg)>> /\ (srv.of # c.of \/ srv.turn # NoTurn)
      <4>1. News(Refusal("session.prompt", c.arg))
        BY <2>2, <2>6, <3>3 DEF News
      <4> QED
        BY <3>3, <4>1
    <3>4. CASE es = <<>>
      BY <3>4
    <3> QED
      BY <2>3, <3>1, <3>2, <3>3, <3>4
  <2> QED
    BY <1>1, <2>2, <2>7
<1>3. CASE \E s \in Sessions : \E es : Seats(s, es)
  <2>1a. PICK s \in Sessions : \E es : Seats(s, es)
    BY <1>3
  <2>1. PICK es : Seats(s, es)
    BY <2>1a
  <2>2. es \in Seq(Frames) /\ \A i \in DOMAIN es : News(es[i])
    BY <2>1, EmitsFrames, EmitsKinds, MadeTypes DEF News
  <2> QED
    BY <1>1, <2>1, <2>2 DEF Seats, Emitted, Takes
<1>4. CASE \E t \in Turns : StartsTurn(t)
  <2>1. PICK t \in Turns : StartsTurn(t)
    BY <1>4
  <2>2. <<Started(t)>> \in Seq(Frames) /\ \A i \in DOMAIN <<Started(t)>> : News(<<Started(t)>>[i])
    BY <2>1, EmitsFrames DEF News
  <2> QED
    BY <1>1, <2>1, <2>2 DEF StartsTurn, Emitted, Takes
<1>5. CASE \E e : Streams(e)
  <2>1. PICK e : Streams(e)
    BY <1>5
  <2>2. <<e>> \in Seq(Frames) /\ News(e)
    BY <2>1, EmitsFrames, EmitsKinds DEF News, Streams
  <2>3. \A i \in DOMAIN <<e>> : News(<<e>>[i])
    BY <2>2
  <2> QED
    BY <1>1, <2>1, <2>2, <2>3 DEF Streams
<1>6. CASE \E stop, es : EndsTurn(stop, es)
  <2>1. PICK stop, es : EndsTurn(stop, es)
    BY <1>6
  <2>2. es \in Seq(Frames) /\ srv.turn \in Turns /\ srv.of \in Sessions /\ Emitted(wire', es)
    BY <2>1, EmitsFrames DEF EndsTurn
  <2>3. /\ es[1] = Completed(srv.turn, stop)
        /\ \A i \in DOMAIN es : i # 1 => es[i].type = "session.failed"
    BY <2>1, EmitsKinds
  <2>4. News(Completed(srv.turn, stop))
    BY <2>1, <2>2, EndIsLogged, MadeTypes DEF News
  <2>5. \A i \in DOMAIN es : News(es[i])
    BY <2>3, <2>4 DEF News
  <2> QED
    BY <1>1, <2>2, <2>5
<1>7. CASE \E es, rec : Releases(es, rec)
  <2>1. PICK es, rec : Releases(es, rec)
    BY <1>7
  <2>2. es \in Seq(Frames) /\ \A i \in DOMAIN es : News(es[i])
    BY <2>1, EmitsFrames, EmitsKinds DEF News, IsGone
  <2> QED
    BY <1>1, <2>1, <2>2 DEF Releases
<1>8. CASE TabKinds
  <2>1. CASE wire' = wire
    BY <2>1
  <2>2. CASE wire' = <<>>
    BY <2>2
  <2>3. CASE Receives
    BY <2>3, TypesReceives
  <2>4. wire' = wire \/ wire' = <<>> \/ Receives
    BY <1>8 DEF TabKinds, Begins, Fails, Cancels, AsksForOne, Resets, Waits, Paints, Loads,
                Joins, Drops, Closes, Hydrates, TabSide, Moves
  <2> QED
    BY <2>1, <2>2, <2>3, <2>4
<1> QED
  BY <1>2, <1>3, <1>4, <1>5, <1>6, <1>7, <1>8 DEF ServerKinds

LEMMA PendingComes ==
  ASSUME Types, TabKinds \/ ServerKinds
  PROVE  \A i \in DOMAIN pending' : \/ \E j \in DOMAIN pending : pending'[i] = pending[j]
                                    \/ \E j \in DOMAIN wire : pending'[i] = wire[j]
<1>1. CASE pending' = pending
  BY <1>1
<1>2. CASE pending' = <<>>
  BY <1>2
<1>3. CASE Receives /\ pending' = Append(pending, Head(wire))
  <2>1. Head(wire) \in Frames /\ Head(wire) = wire[1] /\ 1 \in DOMAIN wire /\ pending \in Seq(Frames)
    BY <1>3, TypesReceives DEF Types
  <2> QED
    BY <1>3, <2>1, AppendedOne
<1>4. \/ pending' = pending \/ pending' = <<>>
      \/ Receives /\ pending' = Append(pending, Head(wire))
  <2>1. CASE ServerKinds
    BY <2>1, ServerKindFacts DEF ServerSide
  <2>2. CASE Receives
    BY <2>2 DEF Receives
  <2>3. CASE TabKinds /\ ~Receives
    BY <2>3 DEF TabKinds, Begins, Fails, Cancels, AsksForOne, Resets, Waits, Paints, Loads,
                Joins, Drops, Closes, Hydrates, TabSide, Moves
  <2> QED
    BY <2>1, <2>2, <2>3
<1> QED
  BY <1>1, <1>2, <1>3, <1>4

LEMMA WireKept ==
  ASSUME Types, TabKinds \/ ServerKinds
  PROVE  wire' \in Seq(Frames) /\ cmds' \in Seq(Commands)
BY TabKeepsTypes, ServerKeepsTypes

LEMMA StepKeepsHome ==
  ASSUME Types, SentInv, HomeInv, TabKinds \/ ServerKinds
  PROVE  HomeInv'
<1>1. FreshInv /\ OneHome /\ RunsAtHome /\ ShownInv /\ OncePrompted /\ WaitsUnlogged /\ RefusedIsOut /\ FramesAreLogged
  BY DEF HomeInv
<1>2. \A t \in Turns, s \in Sessions : IsHome(t, s)' => IsHome(t, s) \/ (Begins(t) /\ s = view.of)
  BY <1>1, HomeAfter
<1>3. \A t \in Turns : Begins(t) => /\ prompted[t] = 0 /\ TabKinds /\ view.of \in Sessions
                                    /\ \A s \in Sessions : ~IsHome(t, s)
  BY <1>1, BeginsIsTab DEF FreshInv
<1>4. \A t \in Turns, s \in Sessions : LogHas(s, t)' => IsHome(t, s)
  BY <1>1, LogHasAfter, StartWasWaiting, NullTurn DEF IsHome, RunsAtHome
<1>5. FreshInv'
  <2> SUFFICES ASSUME NEW t \in Turns, prompted'[t] = 0
               PROVE  t \notin Shown' /\ \A s \in Sessions : ~IsHome(t, s)'
    BY DEF FreshInv
  <2>1. prompted[t] = 0 /\ ~Begins(t)
    BY PromptedAfter
  <2>2. t \notin Shown /\ \A s \in Sessions : ~IsHome(t, s)
    BY <1>1, <2>1 DEF FreshInv
  <2>3. t \notin Shown'
    BY <2>1, <2>2, ShownAfter DEF IsHome
  <2> QED
    BY <1>2, <2>1, <2>2, <2>3
<1>6. OneHome'
  <2> SUFFICES ASSUME NEW t \in Turns, NEW s \in Sessions, NEW r \in Sessions, IsHome(t, s)', IsHome(t, r)'
               PROVE  s = r
    BY DEF OneHome
  <2> QED
    BY <1>1, <1>2, <1>3 DEF OneHome
<1>7. OncePrompted'
  <2> SUFFICES ASSUME NEW i \in DOMAIN cmds', NEW j \in DOMAIN cmds',
                      cmds'[i].type = "session.prompt", cmds'[j].type = "session.prompt",
                      cmds'[i].arg = cmds'[j].arg
               PROVE  i = j
    BY DEF OncePrompted
  <2>1. cmds \in Seq(Commands) /\ \A k \in DOMAIN cmds : cmds[k] \in Commands
    BY DEF Types
  <2>2. CASE cmds' = cmds
    BY <1>1, <2>2 DEF OncePrompted
  <2>3. CASE cmds' = <<>>
    BY <2>3
  <2>4. CASE Takes
    <3>1. i + 1 \in DOMAIN cmds /\ cmds'[i] = cmds[i + 1] /\ j + 1 \in DOMAIN cmds /\ cmds'[j] = cmds[j + 1]
      BY <2>4, CommandsTaken
    <3>2. i + 1 = j + 1
      BY <1>1, <3>1 DEF OncePrompted
    <3>3. i \in Nat /\ j \in Nat
      BY <2>1, <2>4 DEF Takes
    <3> QED
      BY <3>2, <3>3
  <2>5. CASE \E t \in Turns : Begins(t) /\ cmds' = Append(cmds, Event("session.prompt", view.of, t))
    <3>1. PICK t \in Turns : Begins(t) /\ cmds' = Append(cmds, Event("session.prompt", view.of, t))
      BY <2>5
    <3> DEFINE c == Event("session.prompt", view.of, t)
    <3>2. c \in Commands /\ c.arg = t
      BY <1>3, <3>1, CommandsMade DEF Event
    <3>3. \A k \in DOMAIN cmds : cmds[k].type = "session.prompt" => cmds[k].arg # t
      <4> SUFFICES ASSUME NEW k \in DOMAIN cmds, cmds[k].type = "session.prompt", cmds[k].arg = t PROVE FALSE
        OBVIOUS
      <4>1. cmds[k] = Event("session.prompt", cmds[k].of, t) /\ cmds[k].of \in Sessions
        BY <2>1, CommandFacts
      <4> QED
        BY <1>3, <3>1, <4>1 DEF IsHome, Waiting
    <3> HIDE DEF c
    <3>4. cmds' = Append(cmds, c)
      BY <3>1 DEF c
    <3>5. /\ (i \in DOMAIN cmds /\ cmds'[i] = cmds[i]) \/ (i = Len(cmds) + 1 /\ cmds'[i] = c)
          /\ (j \in DOMAIN cmds /\ cmds'[j] = cmds[j]) \/ (j = Len(cmds) + 1 /\ cmds'[j] = c)
      BY <2>1, <3>2, <3>4, AppendedOne
    <3> QED
      BY <1>1, <3>2, <3>3, <3>5 DEF OncePrompted
  <2>6. CASE \E c \in Commands : cmds' = Append(cmds, c) /\ c.type # "session.prompt"
    <3>1. PICK c \in Commands : cmds' = Append(cmds, c) /\ c.type # "session.prompt"
      BY <2>6
    <3>2. /\ (i \in DOMAIN cmds /\ cmds'[i] = cmds[i]) \/ cmds'[i] = c
          /\ (j \in DOMAIN cmds /\ cmds'[j] = cmds[j]) \/ cmds'[j] = c
      BY <2>1, <3>1, AppendedOne
    <3> QED
      BY <1>1, <3>1, <3>2 DEF OncePrompted
  <2> QED
    BY <2>2, <2>3, <2>4, <2>5, <2>6, CmdsAfter
(* A prompt that was taken is not waiting any more.                          *)
<1>8. \A t \in Turns, s, r \in Sessions : Takes /\ Head(cmds) = Event("session.prompt", s, t) => ~Waiting(t, r)'
  <2> SUFFICES ASSUME NEW t \in Turns, NEW s \in Sessions, NEW r \in Sessions, Takes,
                      Head(cmds) = Event("session.prompt", s, t), Waiting(t, r)'
               PROVE  FALSE
    OBVIOUS
  <2>1. PICK i \in DOMAIN cmds' : cmds'[i] = Event("session.prompt", r, t)
    BY DEF Waiting
  <2>2. /\ i + 1 \in DOMAIN cmds /\ cmds[i + 1] = Event("session.prompt", r, t)
        /\ 1 \in DOMAIN cmds /\ cmds[1] = Event("session.prompt", s, t)
    BY <2>1, CommandsTaken
  <2>3. \A u : Event("session.prompt", u, t).type = "session.prompt" /\ Event("session.prompt", u, t).arg = t
    BY DEF Event
  <2>4. i + 1 = 1
    BY <1>1, <2>2, <2>3 DEF OncePrompted
  <2>5. i \in Nat \ {0}
    <3>1. cmds' \in Seq(Commands)
      BY CommandsTaken
    <3> QED
      BY <3>1
  <2> QED
    BY <2>4, <2>5
<1>9. WaitsUnlogged'
  <2> SUFFICES ASSUME NEW t \in Turns, NEW s \in Sessions, NEW r \in Sessions, Waiting(t, s)', LogHas(r, t)'
               PROVE  FALSE
    BY DEF WaitsUnlogged
  <2>1. CASE Begins(t)
    BY <1>3, <1>4, <2>1
  <2>2. CASE Waiting(t, s)
    <3>1. ~LogHas(r, t)
      BY <1>1, <2>2 DEF WaitsUnlogged
    <3>2. CASE StartsTurn(t) /\ r = srv.of
      BY <1>8, <3>2, StartWasWaiting DEF StartsTurn
    <3>3. CASE srv.turn = t /\ srv.of = r
      BY <1>1, <3>1, <3>3, NullTurn DEF RunsAtHome
    <3> QED
      BY <3>1, <3>2, <3>3, LogHasAfter
  <2> QED
    BY <2>1, <2>2, WaitingAfter
<1>10. RunsAtHome'
  <2> SUFFICES ASSUME NEW t \in Turns, NEW s \in Sessions, srv'.turn = t, srv'.of = s
               PROVE  LogHas(s, t)' /\ ~Ended(s, t)'
    BY DEF RunsAtHome
  <2>2. CASE UNCHANGED srv
    <3>1. LogHas(s, t) /\ ~Ended(s, t)
      BY <1>1, <2>2 DEF RunsAtHome
    <3> QED
      BY <2>2, <3>1, LogHasAfter, NullTurn
  <2>3. CASE \E u \in Turns : StartsTurn(u)
    <3>1. PICK u \in Turns : StartsTurn(u)
      BY <2>3
    <3>2. /\ srv.of = s /\ u = t /\ srv.turn = NoTurn
          /\ log' = [log EXCEPT ![srv.of] = @ \o <<Started(t)>>] /\ log \in [Sessions -> Seq(Frames)]
      BY <3>1 DEF StartsTurn, Types
    <3>3. log'[s] = log[s] \o <<Started(t)>> /\ log[s] \in Seq(Frames)
      BY <3>2
    <3>4. /\ IsAbout(Started(t), t) /\ Started(t) \in Frames /\ Started(t).type # "turn.completed"
      BY MadeTypes, FramesMade DEF IsAbout, TurnFrames
    <3>5. ~Ended(s, t)
      BY <1>1, <3>1, <3>2, StartWasWaiting DEF WaitsUnlogged, LogHas, Ended, IsAbout, TurnFrames
    <3>6. Len(log[s]) + 1 \in DOMAIN log'[s] /\ log'[s][Len(log[s]) + 1] = Started(t)
      BY <3>3
    <3>7. LogHas(s, t)'
      BY <3>4, <3>6 DEF LogHas
    <3>8. ~Ended(s, t)'
      BY <3>2, <3>5, LogHasAfter, NullTurn
    <3> QED
      BY <3>7, <3>8
  <2>4. srv' = srv \/ srv'.turn = NoTurn \/ \E u \in Turns : StartsTurn(u)
    <3>1. CASE TabKinds
      BY <3>1, TabKeepsTypes
    <3>2. CASE \E es : Refuses(es)
      BY <3>2 DEF Refuses
    <3>3. CASE \E r \in Sessions : \E es : Seats(r, es)
      BY <3>3 DEF Seats
    <3>4. CASE \E e : Streams(e)
      BY <3>4 DEF Streams
    <3>5. CASE \E stop, es : EndsTurn(stop, es)
      BY <3>5, EndIsLogged
    <3>6. CASE \E es, rec : Releases(es, rec)
      BY <3>6 DEF Releases, NoConnection
    <3> QED
      BY <3>1, <3>2, <3>3, <3>4, <3>5, <3>6 DEF ServerKinds
  <2> QED
    BY <2>2, <2>3, <2>4, NullTurn
<1>11. ShownInv'
  <2> SUFFICES ASSUME view'.of # NoSession, NEW t \in Shown', NEW s \in Sessions, IsHome(t, s)' PROVE s = view'.of
    BY DEF ShownInv
  <2>1. view'.of = view.of
    BY ShownAfter
  <2>2. t \in Shown => t \in Turns
    <3>1. view.entries \in Seq(ShapedEntries) /\ view.turn \in Turns \cup {NoTurn}
      BY DEF Types, ShapedViews
    <3>2. \A i \in DOMAIN view.entries : view.entries[i] \in ShapedEntries
      <4> DEFINE q == view.entries
      <4>1. q \in Seq(ShapedEntries)
        BY <3>1
      <4> HIDE DEF q
      <4>2. \A i \in DOMAIN q : q[i] \in ShapedEntries
        BY <4>1
      <4> QED
        BY <4>2 DEF q
    <3>3. \A e \in ShapedEntries : e.of \in Turns
      BY DEF ShapedEntries
    <3> QED
      BY <3>1, <3>2, <3>3 DEF Shown, Owners
  <2>3. t \in Turns
    BY <2>2, ShownAfter
  <2>4. CASE Begins(t)
    BY <1>2, <1>3, <2>1, <2>3, <2>4
  <2>5. CASE t \in Shown /\ ~Begins(t)
    BY <1>1, <1>2, <2>1, <2>3, <2>5 DEF ShownInv
  <2>6. CASE view.of \in Sessions /\ LogHas(view.of, t) /\ ~Begins(t)
    BY <1>1, <1>2, <2>1, <2>3, <2>6 DEF OneHome, IsHome
  <2> QED
    BY <2>4, <2>5, <2>6, ShownAfter
<1>12. RefusedIsOut'
  <2> SUFFICES ASSUME NEW t \in Turns, NEW i \in DOMAIN wire', wire'[i] = Refusal("session.prompt", t)
               PROVE  prompted'[t] > 0 /\ \A s \in Sessions : ~LogHas(s, t)' /\ ~Waiting(t, s)'
    BY DEF RefusedIsOut, RefusedHere
  <2>1. CASE \E j \in DOMAIN wire : wire'[i] = wire[j]
    <3>1. prompted[t] > 0 /\ \A s \in Sessions : ~LogHas(s, t) /\ ~Waiting(t, s)
      BY <1>1, <2>1 DEF RefusedIsOut, RefusedHere
    <3>2. ~Begins(t) /\ prompted'[t] > 0
      BY <1>3, <3>1, PromptedAfter
    <3>3. \A s \in Sessions : ~IsHome(t, s)'
      BY <1>2, <3>1, <3>2 DEF IsHome
    <3> QED
      BY <3>2, <3>3 DEF IsHome
  <2>2. CASE News(wire'[i])
    <3>1. wire'[i].type = "command.result" /\ wire'[i].of = t
      BY MadeTypes
    <3>2. PICK u \in Turns, s \in Sessions : /\ wire'[i] = Refusal("session.prompt", u) /\ Takes /\ UNCHANGED <<srv, log>>
                                /\ Head(cmds) = Event("session.prompt", s, u)
      BY <2>2, <3>1, MadeTypes, NullTurn DEF News
    <3>3. u = t
      BY <3>1, <3>2, MadeTypes
    <3>4. Waiting(t, s)
      BY <3>2, <3>3, CommandsTaken DEF Waiting
    <3>5. \A r \in Sessions : ~LogHas(r, t)'
      BY <1>1, <3>2, <3>4 DEF WaitsUnlogged, LogHas
    <3>6. prompted'[t] > 0
      BY <1>1, <3>2, <3>4, PromptedAfter DEF FreshInv, IsHome
    <3> QED
      BY <1>8, <3>2, <3>3, <3>5, <3>6
  <2> QED
    BY <2>1, <2>2, WireComes
<1>13. FramesAreLogged'
  <2>1. \A t \in Turns : (\E s \in Sessions : LogHas(s, t)) => (\E s \in Sessions : LogHas(s, t)')
    BY LogHasAfter
  <2>2. \A t \in Turns : (\E s \in Sessions : Ended(s, t)) => (\E s \in Sessions : Ended(s, t)')
    BY LogHasAfter
  <2>3. \A s \in Sessions, t \in Turns : Ended(s, t)' => LogHas(s, t)'
    BY DEF Ended, LogHas, IsAbout, TurnFrames
  <2>4. ASSUME NEW i \in DOMAIN wire', NEW t \in Turns, IsAbout(wire'[i], t) PROVE \E s \in Sessions : LogHas(s, t)'
    <3>1. CASE \E j \in DOMAIN wire : wire'[i] = wire[j]
      BY <1>1, <2>1, <2>4, <3>1 DEF FramesAreLogged
    <3>2. CASE News(wire'[i])
      <4>1. CASE \E u \in Turns : StartsTurn(u) /\ wire'[i] = Started(u)
        <5>1. PICK u \in Turns : StartsTurn(u) /\ wire'[i] = Started(u)
          BY <4>1
        <5>2. u = t /\ srv.of \in Sessions
          BY <2>4, <5>1, MadeTypes DEF IsAbout, StartsTurn
        <5>3. srv'.of = srv.of /\ srv'.turn = t
          BY <5>1, <5>2 DEF StartsTurn, Types
        <5>5. PICK s \in Sessions : s = srv.of
          BY <5>2
        <5>6. LogHas(s, t)'
          BY <1>10, <5>3, <5>5 DEF RunsAtHome
        <5> QED
          BY <5>6
      <4>2. CASE srv.turn \in Turns /\ srv.of \in Sessions /\ wire'[i].of = srv.turn
        BY <1>1, <2>1, <2>4, <4>2, NullTurn DEF RunsAtHome, IsAbout
      <4> QED
        BY <2>4, <3>2, <4>1, <4>2, MadeTypes DEF News, IsAbout, TurnFrames
    <3> QED
      BY <3>1, <3>2, WireComes
  <2>5. ASSUME NEW i \in DOMAIN pending', NEW t \in Turns, IsAbout(pending'[i], t) PROVE \E s \in Sessions : LogHas(s, t)'
    BY <1>1, <2>1, <2>5, PendingComes DEF FramesAreLogged
  <2>6. ASSUME NEW i \in DOMAIN wire', NEW t \in Turns, wire'[i].type = "turn.completed", wire'[i].of = t
        PROVE  \E s \in Sessions : Ended(s, t)'
    <3>3. CASE \E j \in DOMAIN wire : wire'[i] = wire[j]
      BY <1>1, <2>2, <2>6, <3>3 DEF FramesAreLogged
    <3>4. CASE News(wire'[i])
      BY <2>6, <3>4, MadeTypes DEF News
    <3> QED
      BY <3>3, <3>4, WireComes
  <2> QED
    BY <2>4, <2>5, <2>6 DEF FramesAreLogged
<1> QED
  BY <1>5, <1>6, <1>7, <1>9, <1>10, <1>11, <1>12, <1>13 DEF HomeInv

CoreInv == Types /\ GateInv /\ SentInv /\ LinkInv /\ ViewInv /\ HomeInv

LEMMA CoreInvariant == Spec => []CoreInv
<1>1. Init /\ Types => LinkInv /\ ViewInv /\ HomeInv
  <2> SUFFICES ASSUME Init, Types PROVE LinkInv /\ ViewInv /\ HomeInv
    OBVIOUS
  <2>1. pending = <<>> /\ wire = <<>> /\ cmds = <<>> /\ DOMAIN <<>> = {}
    BY DEF Init
  <2>2. /\ view.session = "none" /\ view.of = NoSession /\ view.turn = NoTurn
        /\ view.entries = <<>> /\ view.status = "idle"
    BY DEF Init, InitialView
  <2>3. Shown = {}
    BY <2>1, <2>2 DEF Shown, Owners
  <2>4. \A s \in Sessions, t \in Turns : ~LogHas(s, t) /\ ~Waiting(t, s)
    BY <2>1 DEF Init, LogHas, Waiting
  <2>5. LinkInv /\ ViewInv
    BY <2>1, <2>2 DEF Init, LinkInv, ViewInv, IsLive, NoConnection
  <2>6. HomeInv
    BY <2>1, <2>2, <2>3, <2>4, NullTurn DEF Init, NoConnection, HomeInv, FreshInv, OneHome, RunsAtHome, ShownInv,
       OncePrompted, WaitsUnlogged, RefusedIsOut, FramesAreLogged, RefusedHere, IsHome
  <2> QED
    BY <2>5, <2>6
<1>2. Types /\ GateInv /\ SentInv /\ LinkInv /\ ViewInv /\ HomeInv /\ [Next]_vars
        => LinkInv' /\ ViewInv' /\ HomeInv'
  <2> SUFFICES ASSUME Types, GateInv, SentInv, LinkInv, ViewInv, HomeInv, [Next]_vars
               PROVE  LinkInv' /\ ViewInv' /\ HomeInv'
    OBVIOUS
  <2>1. TabKinds \/ ServerKinds
    BY StepReduces DEF Steps, TabKinds, ServerKinds
  <2> QED
    BY <2>1, StepKeepsLink, StepKeepsView, StepKeepsHome
<1> QED
  BY <1>1, <1>2, TypesInvariant, PTL DEF Spec, CoreInv

(* What is on screen beside an open session belongs to it (reducer.ts,       *)
(* useStoredSessions.ts): a turn is only ever begun under the session that   *)
(* its prompt names, and what replaces a view is of one session alone.       *)
THEOREM OneTaskStays == Spec => []OneTaskOnScreen
<1>1. CoreInv => OneTaskOnScreen
  <2> SUFFICES ASSUME CoreInv, view.session = "open",
                      NEW i \in DOMAIN view.entries, NEW s \in Sessions \ {view.of},
                      Started(view.entries[i].of) \in ToSet(log[s])
               PROVE  FALSE
    BY DEF OneTaskOnScreen
  <2> DEFINE t == view.entries[i].of
  <2>1. view.of # NoSession /\ t \in Shown
    BY DEF CoreInv, ViewInv, Shown, Owners
  <2>2. view.entries \in Seq(ShapedEntries)
    BY DEF CoreInv, Types, ShapedViews
  <2>3. \A e \in ShapedEntries : e.of \in Turns
    BY DEF ShapedEntries
  <2>4. t \in Turns
    <3> DEFINE q == view.entries
    <3>1. q \in Seq(ShapedEntries) /\ i \in DOMAIN q
      BY <2>2
    <3> HIDE DEF q
    <3>2. q[i] \in ShapedEntries
      BY <3>1
    <3> QED
      BY <2>3, <3>2 DEF q
  <2> HIDE DEF t
  <2>5. \E k \in DOMAIN log[s] : log[s][k] = Started(t)
    BY DEF ToSet, t
  <2>6. LogHas(s, t)
    BY <2>5, MadeTypes DEF LogHas, IsAbout, TurnFrames
  <2> QED
    BY <2>1, <2>4, <2>6 DEF CoreInv, HomeInv, ShownInv, IsHome
<1> QED
  BY <1>1, CoreInvariant, PTL

----------------------------------------------------------------------------
(* What comes on the wire, by its places                                     *)

Last1 == Len(wire) + 1
FreshAt(i) == i \in DOMAIN wire' /\ i > Len(wire)

Extends ==
  /\ link = "open" /\ Len(wire) \in Nat /\ wire' \in Seq(Frames)
  /\ \A i \in DOMAIN wire : i \in DOMAIN wire' /\ wire'[i] = wire[i] /\ i <= Len(wire) /\ i \in Nat \ {0}
  /\ \A i \in DOMAIN wire' : i \in Nat /\ (i \in DOMAIN wire \/ i > Len(wire))

SaysNo ==
  /\ Takes /\ UNCHANGED <<srv, log>>
  /\ \A i : FreshAt(i) => wire'[i].type = "command.result" \/ (wire'[i].type = "session.failed" /\ srv.of = NoSession)
  /\ Head(cmds).type = "session.close" => Head(cmds).of # srv.of
  /\ Head(cmds).type = "session.prompt" => FreshAt(Last1) /\ wire'[Last1] = Refusal("session.prompt", Head(cmds).arg)

Sits(s) ==
  /\ Takes /\ srv.of = NoSession /\ srv' = [of |-> s, turn |-> NoTurn]
  /\ FreshAt(Last1) /\ wire'[Last1] = Opened(s)
  /\ \A i : FreshAt(i) => i = Last1 \/ wire'[i].type = "session.loaded"
  /\ \/ Head(cmds).type = "session.open" /\ log[s] = <<>>
     \/ Head(cmds).type = "session.load" /\ Head(cmds).of = s

Runs(t) ==
  /\ StartsTurn(t) /\ srv' = [of |-> srv.of, turn |-> t] /\ FreshAt(Last1) /\ wire'[Last1] = Started(t)
  /\ \A i : FreshAt(i) => i = Last1

Talks ==
  /\ UNCHANGED <<srv, cmds>>
  /\ \A i : FreshAt(i) => wire'[i].type \in {"turn.delta", "tool.updated"}

Stops ==
  /\ srv.turn \in Turns /\ srv.of \in Sessions /\ srv' = [of |-> srv.of, turn |-> NoTurn]
  /\ UNCHANGED cmds \/ (Takes /\ Head(cmds).type = "session.cancel")
  /\ FreshAt(Last1) /\ wire'[Last1].type = "turn.completed" /\ wire'[Last1].of = srv.turn
  /\ \A i : FreshAt(i) => i = Last1 \/ wire'[i].type = "session.failed"

Rises ==
  /\ srv.of \in Sessions /\ srv' = NoConnection
  /\ UNCHANGED cmds \/ (Takes /\ Head(cmds) = Event("session.close", srv.of, 0))
  /\ FreshAt(Last1)
  /\ \A i : FreshAt(i) => IsGone(wire'[i]) /\ wire'[i].of = srv.of

LEMMA Extending ==
  ASSUME Types, link = "open", NEW es \in Seq(Frames), wire' = wire \o es
  PROVE  /\ Extends
         /\ \A i : FreshAt(i) => i - Len(wire) \in DOMAIN es /\ wire'[i] = es[i - Len(wire)]
         /\ \A i : FreshAt(i) /\ i # Last1 => i - Len(wire) # 1
         /\ 1 \in DOMAIN es => FreshAt(Last1) /\ wire'[Last1] = es[1]
<1>1. wire \in Seq(Frames)
  BY DEF Types
<1>2. Len(wire) \in Nat /\ DOMAIN wire = 1..Len(wire) /\ wire' \in Seq(Frames)
      /\ DOMAIN wire' = 1..(Len(wire) + Len(es)) /\ DOMAIN es = 1..Len(es) /\ Len(es) \in Nat
  BY <1>1
<1>3. \A i \in 1..Len(wire) : wire'[i] = wire[i]
  BY <1>1
<1>4. \A i \in 1..Len(es) : wire'[Len(wire) + i] = es[i]
  BY <1>1
<1>5. Extends
  BY <1>2, <1>3 DEF Extends
<1>6. ASSUME NEW i, FreshAt(i)
      PROVE  i - Len(wire) \in DOMAIN es /\ wire'[i] = es[i - Len(wire)] /\ (i # Last1 => i - Len(wire) # 1)
  <2>1. i - Len(wire) \in 1..Len(es) /\ i = Len(wire) + (i - Len(wire)) /\ (i # Last1 => i - Len(wire) # 1)
    BY <1>2, <1>6 DEF FreshAt, Last1
  <2> QED
    BY <1>2, <1>4, <2>1
<1>7. 1 \in DOMAIN es => FreshAt(Last1) /\ wire'[Last1] = es[1]
  BY <1>2, <1>4 DEF FreshAt, Last1
<1> QED
  BY <1>5, <1>6, <1>7

LEMMA ServerWire ==
  ASSUME Types, link = "open", ServerKinds
  PROVE  /\ Extends /\ ServerSide
         /\ \/ SaysNo \/ Talks \/ Stops \/ Rises
            \/ \E s \in Sessions : Sits(s)
            \/ \E t \in Turns : Runs(t)
<1>1. ServerSide
  BY ServerKindFacts
<1>2. CASE \E es : Refuses(es)
  <2>1. PICK es : Refuses(es)
    BY <1>2
  <2> DEFINE c == Head(cmds)
  <2>2. es \in Seq(Frames) /\ wire' = wire \o es /\ Takes /\ UNCHANGED <<srv, log>>
    BY <2>1, EmitsFrames DEF Refuses
  <2>3. \/ /\ c.type # "session.prompt" /\ es = <<Refusal(c.type, NoTurn)>>
           /\ c.type = "session.close" => srv.of # c.of
        \/ c.type = "session.open" /\ srv.of = NoSession /\ es = <<Refusal(c.type, NoTurn), Failed(NoSession)>>
        \/ c.type = "session.prompt" /\ es = <<Refusal(c.type, c.arg)>>
        \/ c.type = "session.cancel" /\ es = <<>>
    BY <2>1 DEF Refuses
  <2> HIDE DEF c
  <2>4. /\ \A i \in DOMAIN es : es[i].type = "command.result" \/ (es[i].type = "session.failed" /\ srv.of = NoSession)
        /\ c.type = "session.prompt" => 1 \in DOMAIN es /\ es[1] = Refusal("session.prompt", c.arg)
        /\ c.type = "session.close" => c.of # srv.of
    <3>1. CASE c.type # "session.prompt" /\ es = <<Refusal(c.type, NoTurn)>> /\ (c.type = "session.close" => srv.of # c.of)
      BY <3>1, MadeTypes
    <3>2. CASE c.type = "session.open" /\ srv.of = NoSession /\ es = <<Refusal(c.type, NoTurn), Failed(NoSession)>>
      <4>1. Refusal(c.type, NoTurn).type = "command.result" /\ Failed(NoSession).type = "session.failed"
        BY MadeTypes
      <4> QED
        BY <3>2, <4>1
    <3>3. CASE c.type = "session.prompt" /\ es = <<Refusal(c.type, c.arg)>>
      BY <3>3, MadeTypes
    <3>4. CASE c.type = "session.cancel" /\ es = <<>>
      BY <3>4
    <3> QED
      BY <2>3, <3>1, <3>2, <3>3, <3>4
  <2>5. Extends
    BY <2>2, Extending
  <2>9. \A i : FreshAt(i) => i - Len(wire) \in DOMAIN es /\ wire'[i] = es[i - Len(wire)]
    BY <2>2, Extending
  <2>6. \A i : FreshAt(i) => wire'[i].type = "command.result" \/ (wire'[i].type = "session.failed" /\ srv.of = NoSession)
    BY <2>4, <2>9
  <2>7. c.type = "session.prompt" => FreshAt(Last1) /\ wire'[Last1] = Refusal("session.prompt", c.arg)
    BY <2>2, <2>4, Extending
  <2>8. SaysNo
    BY <2>2, <2>4, <2>6, <2>7 DEF SaysNo, c
  <2> QED
    BY <1>1, <2>5, <2>8
<1>3. CASE \E s \in Sessions : \E es : Seats(s, es)
  <2>1. PICK s \in Sessions : \E es : Seats(s, es)
    BY <1>3
  <2>2. PICK es : Seats(s, es)
    BY <2>1
  <2>3. es \in Seq(Frames) /\ wire' = wire \o es
    BY <2>2, EmitsFrames DEF Seats
  <2>4. DOMAIN es \in {{1}, {1, 2}} /\ es[1] = Opened(s) /\ \A i \in DOMAIN es : i # 1 => es[i].type = "session.loaded"
    BY <2>2, EmitsKinds
  <2>5. Extends /\ FreshAt(Last1) /\ wire'[Last1] = Opened(s)
    BY <2>3, <2>4, Extending
  <2>9. \A i : FreshAt(i) => i - Len(wire) \in DOMAIN es /\ wire'[i] = es[i - Len(wire)] /\ (i # Last1 => i - Len(wire) # 1)
    BY <2>3, Extending
  <2>6. \A i : FreshAt(i) => i = Last1 \/ wire'[i].type = "session.loaded"
    BY <2>4, <2>9
  <2>7. Sits(s)
    BY <2>2, <2>5, <2>6 DEF Sits, Seats
  <2> QED
    BY <1>1, <2>5, <2>7
<1>4. CASE \E t \in Turns : StartsTurn(t)
  <2>1. PICK t \in Turns : StartsTurn(t)
    BY <1>4
  <2> DEFINE es == <<Started(t)>>
  <2>2. es \in Seq(Frames) /\ wire' = wire \o es
    BY <2>1, EmitsFrames DEF StartsTurn
  <2>3. DOMAIN es = {1} /\ es[1] = Started(t)
    OBVIOUS
  <2> HIDE DEF es
  <2>4. Extends /\ FreshAt(Last1) /\ wire'[Last1] = Started(t)
    BY <2>2, <2>3, Extending
  <2>5. \A i : FreshAt(i) => i = Last1
    BY <2>2, <2>3, Extending
  <2>6. srv' = [of |-> srv.of, turn |-> t]
    BY <2>1 DEF StartsTurn, Types
  <2> QED
    BY <1>1, <2>1, <2>4, <2>5, <2>6 DEF Runs
<1>5. CASE \E e : Streams(e)
  <2>1. PICK e : Streams(e)
    BY <1>5
  <2> DEFINE es == <<e>>
  <2>2. es \in Seq(Frames) /\ wire' = wire \o es /\ UNCHANGED <<srv, cmds>>
    BY <2>1, EmitsFrames DEF Streams, Emitted
  <2>3. DOMAIN es = {1} /\ es[1].type \in {"turn.delta", "tool.updated"}
    BY <2>1, EmitsKinds
  <2> HIDE DEF es
  <2>4. Extends /\ \A i : FreshAt(i) => wire'[i].type \in {"turn.delta", "tool.updated"}
    BY <2>2, <2>3, Extending
  <2> QED
    BY <1>1, <2>2, <2>4 DEF Talks
<1>6. CASE \E stop, es : EndsTurn(stop, es)
  <2>1. PICK stop, es : EndsTurn(stop, es)
    BY <1>6
  <2>2. es \in Seq(Frames) /\ wire' = wire \o es
    BY <2>1, EmitsFrames DEF EndsTurn, Emitted
  <2>3. /\ DOMAIN es \in {{1}, {1, 2}} /\ es[1] = Completed(srv.turn, stop)
        /\ \A i \in DOMAIN es : i # 1 => es[i].type = "session.failed"
    BY <2>1, EmitsKinds
  <2>4. Completed(srv.turn, stop).type = "turn.completed" /\ Completed(srv.turn, stop).of = srv.turn
    BY MadeTypes
  <2>5. Extends /\ FreshAt(Last1) /\ wire'[Last1].type = "turn.completed" /\ wire'[Last1].of = srv.turn
    BY <2>2, <2>3, <2>4, Extending
  <2>9. \A i : FreshAt(i) => i - Len(wire) \in DOMAIN es /\ wire'[i] = es[i - Len(wire)] /\ (i # Last1 => i - Len(wire) # 1)
    BY <2>2, Extending
  <2>6. \A i : FreshAt(i) => i = Last1 \/ wire'[i].type = "session.failed"
    BY <2>3, <2>9
  <2>7. srv.turn \in Turns /\ srv.of \in Sessions /\ srv' = [of |-> srv.of, turn |-> NoTurn]
        /\ (UNCHANGED cmds \/ (Takes /\ Head(cmds).type = "session.cancel"))
    BY <2>1 DEF EndsTurn, Types
  <2> QED
    BY <1>1, <2>5, <2>6, <2>7 DEF Stops
<1>7. CASE \E es, rec : Releases(es, rec)
  <2>1. PICK es, rec : Releases(es, rec)
    BY <1>7
  <2>2. es \in Seq(Frames) /\ wire' = wire \o es
    BY <2>1, EmitsFrames DEF Releases, Emitted
  <2>3. \A i \in DOMAIN es : IsGone(es[i]) /\ es[i].of = srv.of
    BY <2>1, EmitsKinds
  <2>4. 1 \in DOMAIN es
    BY <2>1 DEF Releases
  <2>5. Extends /\ FreshAt(Last1)
    BY <2>2, <2>4, Extending
  <2>9. \A i : FreshAt(i) => i - Len(wire) \in DOMAIN es /\ wire'[i] = es[i - Len(wire)]
    BY <2>2, Extending
  <2>6. \A i : FreshAt(i) => IsGone(wire'[i]) /\ wire'[i].of = srv.of
    BY <2>3, <2>9
  <2>7. Rises
    BY <2>1, <2>5, <2>6 DEF Releases, Rises
  <2> QED
    BY <1>1, <2>5, <2>7
<1> QED
  BY <1>2, <1>3, <1>4, <1>5, <1>6, <1>7 DEF ServerKinds

----------------------------------------------------------------------------
(* What the tab does while the socket is open                                *)

TabOpen == link = "open" /\ link' = "open" /\ TabKinds /\ ~Receives

CmdsKept ==
  /\ Len(cmds) \in Nat
  /\ \A i \in DOMAIN cmds : i \in DOMAIN cmds' /\ cmds'[i] = cmds[i] /\ i <= Len(cmds)
  /\ \A i \in DOMAIN cmds' :
       \/ i \in DOMAIN cmds
       \/ /\ \A j \in DOMAIN cmds' : j <= i
          /\ cmds'[i].type = "session.load" => cmds'[i].of # view.of
          /\ cmds'[i].type = "session.close" => view'.turn = NoTurn
          /\ cmds'[i].type = "session.prompt" => cmds'[i].arg \in Turns /\ Begins(cmds'[i].arg)

(* A session is left only by asking the server to close it.                  *)
OfKept ==
  \/ view'.of = view.of
  \/ /\ view'.of = NoSession /\ view'.turn = NoTurn
     /\ \E i \in DOMAIN cmds' : cmds'[i].type = "session.close" /\ cmds'[i].of = view.of

(* A turn is left, kept, or begun.                                           *)
TurnKept ==
  \/ view'.turn = NoTurn /\ ~IsLive(view')
  \/ /\ view'.turn = view.turn /\ view'.prompt = view.prompt /\ view'.of = view.of
     /\ IsLive(view') => IsLive(view)
     /\ IsLive(view) => IsLive(view') \/ view.of = NoSession
     /\ view'.status = "error" => view.status = "error" \/ view.of = NoSession
     /\ view'.session = "open" => view.session = "open"
  \/ \E t \in Turns :
       /\ Begins(t) /\ ~IsLive(view) /\ view'.of = view.of /\ view.of \in Sessions
       /\ view'.turn = t /\ view'.prompt = t /\ view'.status = "running"
       /\ \E i \in DOMAIN cmds' : cmds'[i].type = "session.prompt" /\ cmds'[i].arg = t

LEMMA CmdsGrow ==
  ASSUME Types, NEW c \in Commands, cmds' = Append(cmds, c)
  PROVE  /\ Len(cmds) \in Nat
         /\ \A i \in DOMAIN cmds : i \in DOMAIN cmds' /\ cmds'[i] = cmds[i] /\ i <= Len(cmds)
         /\ \A i \in DOMAIN cmds' : i \in DOMAIN cmds \/ (cmds'[i] = c /\ \A j \in DOMAIN cmds' : j <= i)
         /\ \E i \in DOMAIN cmds' : cmds'[i] = c
<1>1. cmds \in Seq(Commands)
  BY DEF Types
<1>2. Len(cmds) \in Nat /\ DOMAIN cmds = 1..Len(cmds) /\ DOMAIN cmds' = 1..(Len(cmds) + 1)
      /\ cmds'[Len(cmds) + 1] = c /\ \A i \in DOMAIN cmds : cmds'[i] = cmds[i]
  BY <1>1, AppendedOne
<1> QED
  BY <1>2

LEMMA TabKeeps ==
  ASSUME Types, LinkInv, TabOpen
  PROVE  UNCHANGED <<wire, srv, log>> /\ CmdsKept /\ OfKept /\ TurnKept
<1>1. view \in ShapedViews /\ view.conn = "open" /\ link = "open" /\ link' = "open"
  BY DEF Types, LinkInv, TabOpen
<1>2. ASSUME UNCHANGED cmds PROVE CmdsKept
  <2>1. cmds \in Seq(Commands)
    BY DEF Types
  <2>2. DOMAIN cmds = 1..Len(cmds) /\ Len(cmds) \in Nat
    BY <2>1
  <2> QED
    BY <1>2, <2>2 DEF CmdsKept
<1>3. ASSUME NEW t \in Turns, Begins(t)
      PROVE  UNCHANGED <<wire, srv, log>> /\ CmdsKept /\ OfKept /\ TurnKept
  <2>1. /\ UNCHANGED <<wire, srv, log>> /\ view.of \in Sessions /\ view' = BeginTurn(view, t)
        /\ cmds' = Append(cmds, Event("session.prompt", view.of, t))
    BY <1>3 DEF Begins, TabSide
  <2> DEFINE c == Event("session.prompt", view.of, t)
  <2>2. c \in Commands /\ c.type = "session.prompt" /\ c.arg = t
    BY <2>1, CommandsMade DEF Event
  <2>3. cmds' = Append(cmds, c)
    BY <2>1
  <2> HIDE DEF c
  <2>4. CmdsKept /\ \E i \in DOMAIN cmds' : cmds'[i] = c
    BY <1>3, <2>2, <2>3, CmdsGrow DEF CmdsKept
  <2>5. view'.of = view.of
    BY <1>1, <2>1, BeginFacts
  <2>6. TurnKept
    <3>1. \/ IsLive(view) /\ view' = view
          \/ ~IsLive(view) /\ view'.turn = t /\ view'.prompt = t /\ view'.status = "running"
      BY <1>1, <2>1, BeginFacts
    <3>2. CASE view' = view
      BY <3>2 DEF TurnKept
    <3>3. CASE ~IsLive(view) /\ view'.turn = t /\ view'.prompt = t /\ view'.status = "running"
      BY <1>3, <2>1, <2>2, <2>4, <2>5, <3>3 DEF TurnKept
    <3> QED
      BY <3>1, <3>2, <3>3
  <2> QED
    BY <2>1, <2>4, <2>5, <2>6 DEF OfKept
<1>4. CASE Fails
  <2>1. view.of = NoSession
    BY <1>1, <1>4 DEF Fails
  <2> QED
    BY <1>2, <1>4, <2>1 DEF Fails, TabSide, OfKept, TurnKept
<1>5. CASE Cancels
  <2>1. view.of \in Sessions /\ UNCHANGED <<wire, srv, log>>
    BY <1>5 DEF Cancels, TabSide
  <2> DEFINE c == Event("session.cancel", view.of, 0)
  <2>2. c \in Commands /\ c.type = "session.cancel" /\ cmds' = Append(cmds, c)
    BY <1>5, <2>1, CommandsMade DEF Event, Cancels
  <2> HIDE DEF c
  <2>3. CmdsKept
    BY <2>2, CmdsGrow DEF CmdsKept
  <2>4. /\ view'.session = view.session /\ view'.of = view.of /\ view'.turn = view.turn /\ view'.prompt = view.prompt
        /\ IsLive(view) /\ IsLive(view')
    BY <1>1, <1>5, CancelFacts DEF Cancels
  <2> QED
    BY <2>1, <2>3, <2>4 DEF OfKept, TurnKept, IsLive
<1>6. CASE AsksForOne
  <2>1. view.of = NoSession /\ UNCHANGED <<wire, srv, log>>
    BY <1>6 DEF AsksForOne, TabSide
  <2> DEFINE c == Event("session.open", NoSession, 0)
  <2>2. c \in Commands /\ c.type = "session.open" /\ cmds' = Append(cmds, c)
    BY <1>6, CommandsMade DEF Event, AsksForOne
  <2> HIDE DEF c
  <2>3. CmdsKept
    BY <2>2, CmdsGrow DEF CmdsKept
  <2>4. /\ view'.session = "opening" /\ view'.of = view.of /\ view'.turn = view.turn /\ view'.prompt = view.prompt
        /\ view'.status = view.status
    BY <1>1, <1>6, OpeningFacts DEF AsksForOne
  <2> QED
    BY <2>1, <2>3, <2>4 DEF OfKept, TurnKept, IsLive
<1>7. CASE Resets
  <2>1. UNCHANGED <<wire, srv, log>> /\ view' = ResetSession(view)
    BY <1>7 DEF Resets
  <2>2. view'.of = NoSession /\ view'.turn = NoTurn /\ ~IsLive(view')
    BY <1>1, <2>1, ResetFacts DEF Blank, IsLive
  <2>3. CASE view.of = NoSession
    <3>1. UNCHANGED cmds
      BY <1>7, <2>3, NullSession DEF Resets
    <3> QED
      BY <1>2, <2>1, <2>2, <2>3, <3>1 DEF OfKept, TurnKept
  <2>4. CASE view.of \in Sessions
    <3> DEFINE c == Event("session.close", view.of, 0)
    <3>1. c \in Commands /\ c.type = "session.close" /\ c.of = view.of /\ cmds' = Append(cmds, c)
      BY <1>1, <1>7, <2>4, NullSession, CommandsMade DEF Event, Resets
    <3> HIDE DEF c
    <3>2. CmdsKept /\ \E i \in DOMAIN cmds' : cmds'[i] = c
      BY <2>2, <3>1, CmdsGrow DEF CmdsKept
    <3> QED
      BY <2>1, <2>2, <3>1, <3>2 DEF OfKept, TurnKept
  <2> QED
    BY <1>1, <2>3, <2>4 DEF ShapedViews
<1>8. CASE Waits
  BY <1>2, <1>8 DEF Waits, Moves, OfKept, TurnKept
<1>9. CASE Paints
  <2>1. SameCore(view, view') /\ UNCHANGED <<wire, srv, log, cmds>>
    BY <1>9, PendingView DEF Paints
  <2> QED
    BY <1>2, <2>1 DEF SameCore, OfKept, TurnKept, IsLive
<1>10. ASSUME NEW s \in Sessions, Loads(s)
       PROVE  UNCHANGED <<wire, srv, log>> /\ CmdsKept /\ OfKept /\ TurnKept
  <2>1. UNCHANGED <<wire, srv, log, view>> /\ s # view.of
    BY <1>10 DEF Loads, TabSide
  <2> DEFINE c == Event("session.load", s, 0)
  <2>2. c \in Commands /\ c.type = "session.load" /\ c.of = s /\ cmds' = Append(cmds, c)
    BY <1>10, CommandsMade DEF Event, Loads
  <2> HIDE DEF c
  <2>3. CmdsKept
    BY <2>1, <2>2, CmdsGrow DEF CmdsKept
  <2> QED
    BY <2>1, <2>3 DEF OfKept, TurnKept
<1>11. ASSUME NEW l \in Seq(Frames), Hydrates(l)
       PROVE  UNCHANGED <<wire, srv, log>> /\ CmdsKept /\ OfKept /\ TurnKept
  <2>1. UNCHANGED <<wire, srv, log, cmds>> /\ view' = HydrateTranscript(view, l)
    BY <1>11 DEF Hydrates, Moves
  <2>2. view'.of = view.of /\ view'.turn = NoTurn /\ view'.status \in {"idle", "error"}
    BY <1>1, <2>1, HydrateFacts
  <2> QED
    BY <1>2, <2>1, <2>2 DEF OfKept, TurnKept, IsLive
<1>12. ~Joins /\ ~Drops /\ ~Closes
  BY <1>1 DEF Joins, Drops, Closes
<1> QED
  BY <1>3, <1>4, <1>5, <1>6, <1>7, <1>8, <1>9, <1>10, <1>11, <1>12 DEF TabOpen, TabKinds

----------------------------------------------------------------------------
(* What is received                                                          *)

(* The session on screen changes by its opening and by its end.              *)
LEMMA ReceivedOf ==
  ASSUME Types, Receives
  PROVE  LET e == Head(wire) IN
         /\ e \in Frames /\ e = wire[1] /\ 1 \in DOMAIN wire
         /\ IsOpen(e) \/ IsGone(e) => e.of \in Sessions
         /\ \/ IsOpen(e) /\ view'.of = e.of
            \/ IsGone(e) /\ view.of = e.of /\ view'.of = NoSession
            \/ /\ view'.of = view.of /\ ~IsOpen(e)
               /\ IsGone(e) => e.of # view.of
         /\ view'.turn \in {view.turn, NoTurn}
<1> DEFINE e == Head(wire)
<1>1. e \in Frames /\ e = wire[1] /\ 1 \in DOMAIN wire
  <2>1. wire \in Seq(Frames) /\ wire # <<>>
    BY DEF Types, Receives
  <2> QED
    BY <2>1, TypesReceives
<1>2. IsOpen(e) \/ IsGone(e) => e.of \in Sessions
  BY <1>1, FrameFacts DEF SeatFrames
<1>3. CASE Coalesced(e)
  <2>1. view' = view /\ ~IsOpen(e) /\ ~IsGone(e)
    BY <1>3, Received DEF Coalesced, IsOpen, IsGone
  <2> QED
    BY <1>1, <1>2, <2>1
<1>4. CASE IsOpen(e)
  <2>1. view'.of = e.of /\ view'.turn \in {view.turn, NoTurn}
    BY <1>4, Received DEF Blank
  <2> QED
    BY <1>1, <1>2, <1>4, <2>1
<1>5. CASE IsGone(e)
  <2>1. \/ view.of = e.of /\ view'.of = NoSession /\ view'.turn = view.turn
        \/ view.of # e.of /\ view'.of = view.of /\ view'.turn = view.turn
    BY <1>5, Received DEF SameCore
  <2>2. ~IsOpen(e)
    BY <1>5 DEF IsOpen, IsGone
  <2> QED
    BY <1>1, <1>2, <1>5, <2>1, <2>2
<1>6. CASE e.type \in {"session.failed", "command.result", "turn.started", "turn.completed", "session.loaded"}
  <2>1. view'.of = view.of /\ view'.turn = view.turn
    BY <1>6, Received DEF SameCore
  <2>2. ~IsOpen(e) /\ ~IsGone(e)
    BY <1>6 DEF IsOpen, IsGone
  <2> QED
    BY <1>1, <1>2, <2>1, <2>2
<1> HIDE DEF e
<1>7. \/ Coalesced(e) \/ IsOpen(e) \/ IsGone(e)
      \/ e.type \in {"session.failed", "command.result", "turn.started", "turn.completed", "session.loaded"}
  BY <1>1, FrameFacts DEF Coalesced, IsOpen, IsGone
<1> QED
  BY <1>3, <1>4, <1>5, <1>6, <1>7 DEF e

(* A turn that runs on screen after a frame ran before it, or is started.    *)
LEMMA ReceivedLive ==
  ASSUME Types, Receives, view'.turn # NoTurn, IsLive(view')
  PROVE  LET e == Head(wire) IN
         /\ view'.turn = view.turn /\ view'.of = view.of
         /\ ~(IsGone(e) /\ e.of = view.of)
         /\ ~(e.type = "turn.completed" /\ e.of = view.turn)
         /\ e # Refusal("session.prompt", view.prompt)
         /\ \/ e.type = "turn.started" /\ e.of = view.turn
            \/ IsLive(view) /\ view'.prompt = view.prompt
<1> DEFINE e == Head(wire)
<1>1. e \in Frames
  BY Received
<1>2. e = Refusal("session.prompt", view.prompt) => e.type = "command.result"
  BY MadeTypes
<1>3. CASE Coalesced(e)
  <2>1. view' = view /\ e.type \in {"turn.delta", "tool.updated"}
    BY <1>3, Received DEF Coalesced
  <2> QED
    BY <1>2, <2>1 DEF IsGone
<1>4. CASE IsOpen(e)
  <2>1. view'.of = e.of
    BY <1>4, Received
  <2>2. view.of = e.of /\ view'.turn = view.turn /\ view'.prompt = view.prompt /\ view'.status = view.status
    BY <1>4, Received DEF Blank
  <2>3. ~IsGone(e) /\ e.type # "turn.completed" /\ e.type # "command.result"
    BY <1>4 DEF IsGone, IsOpen
  <2> QED
    BY <1>2, <2>1, <2>2, <2>3 DEF IsLive
<1>5. CASE IsGone(e)
  <2>1. \/ view.of = e.of /\ view'.status = StatusOr(view, "idle")
        \/ view.of # e.of /\ SameCore(view, view')
    BY <1>5, Received
  <2>2. ~IsLive(view') \/ (view.of # e.of /\ SameCore(view, view'))
    BY <2>1 DEF IsLive, StatusOr, IsTerminal
  <2>3. e.type # "turn.completed" /\ e.type # "command.result"
    BY <1>5 DEF IsGone
  <2> QED
    BY <1>2, <2>2, <2>3 DEF SameCore, IsLive
<1>6. CASE e.type = "session.failed"
  <2>1. view'.status = StatusOr(view, "error")
    BY <1>6, Received
  <2> QED
    BY <2>1 DEF IsLive, StatusOr, IsTerminal
<1>7. CASE e.type = "command.result"
  <2>1. /\ view'.turn = view.turn /\ view'.of = view.of /\ view'.prompt = view.prompt
        /\ view'.status \in {StatusOr(view, "error"), "error"} \/ SameCore(view, view')
        /\ e = Refusal("session.prompt", view.prompt) => ~IsLive(view')
    BY <1>7, Received
  <2>2. view'.status \in {StatusOr(view, "error"), "error"} => ~IsLive(view')
    BY DEF IsLive, StatusOr, IsTerminal
  <2>3. ~IsGone(e)
    BY <1>7 DEF IsGone
  <2> QED
    BY <1>7, <2>1, <2>2, <2>3 DEF SameCore, IsLive
<1>8. CASE e.type = "turn.started"
  <2>1. /\ view'.turn = view.turn /\ view'.of = view.of
        /\ view.turn = e.of \/ (view.turn # e.of /\ SameCore(view, view'))
    BY <1>8, Received
  <2>2. ~IsGone(e)
    BY <1>8 DEF IsGone
  <2> QED
    BY <1>2, <1>8, <2>1, <2>2 DEF SameCore, IsLive
<1>9. CASE e.type = "turn.completed"
  <2>1. /\ view'.turn = view.turn /\ view'.of = view.of
        /\ \/ view'.status \in {"done", "error"}
           \/ (view.turn # e.of \/ IsTerminal(view)) /\ SameCore(view, view')
    BY <1>9, Received
  <2>2. ~IsGone(e)
    BY <1>9 DEF IsGone
  <2> QED
    BY <1>2, <1>9, <2>1, <2>2 DEF SameCore, IsLive, IsTerminal
<1>10. CASE e.type = "session.loaded"
  <2>1. SameCore(view, view')
    BY <1>10, Received
  <2> QED
    BY <1>2, <1>10, <2>1 DEF SameCore, IsLive, IsGone
<1> HIDE DEF e
<1>11. \/ Coalesced(e) \/ IsOpen(e) \/ IsGone(e)
       \/ e.type \in {"session.failed", "command.result", "turn.started", "turn.completed", "session.loaded"}
  BY <1>1, FrameFacts DEF Coalesced, IsOpen, IsGone
<1> QED
  BY <1>3, <1>4, <1>5, <1>6, <1>7, <1>8, <1>9, <1>10, <1>11 DEF e

----------------------------------------------------------------------------
(* The seats that are announced on the wire                                  *)

(* Between two openings, the first session ends; what opens after the last   *)
(* end is the session of the connection; a turn starts in an open session.   *)
OpensApart ==
  \A i, j \in DOMAIN wire : i < j /\ IsOpen(wire[i]) /\ IsOpen(wire[j]) =>
    \E k \in DOMAIN wire : i < k /\ k < j /\ IsGone(wire[k]) /\ wire[k].of = wire[i].of
OpensAreHeld ==
  \A i \in DOMAIN wire : IsOpen(wire[i]) =>
    \/ srv.of = wire[i].of
    \/ \E k \in DOMAIN wire : i < k /\ IsGone(wire[k]) /\ wire[k].of = wire[i].of
StartsAreOpen ==
  \A i, j \in DOMAIN wire : i < j /\ IsGone(wire[i]) /\ wire[j].type = "turn.started" =>
    \E k \in DOMAIN wire : i < k /\ k < j /\ IsOpen(wire[k])

(* The tab shows the session of the connection, or is being told of it, or   *)
(* has asked for its end.                                                    *)
ToldAt(i) ==
  /\ i \in DOMAIN wire /\ IsOpen(wire[i]) /\ wire[i].of = srv.of
  /\ \A j \in DOMAIN wire : i < j => ~IsOpen(wire[j]) /\ ~IsGone(wire[j])
SeatShown ==
  \/ \E i \in DOMAIN wire : ToldAt(i)
  \/ /\ \A j \in DOMAIN wire : ~IsOpen(wire[j]) /\ ~IsGone(wire[j])
     /\ \/ view.of = srv.of
        \/ \E i \in DOMAIN cmds : cmds[i].type = "session.close" /\ cmds[i].of = srv.of

(* The session on screen is opened anew only when it has ended.              *)
EndsFirst ==
  \A i \in DOMAIN wire : IsOpen(wire[i]) /\ wire[i].of = view.of =>
    \E j \in DOMAIN wire : j < i /\ IsGone(wire[j]) /\ wire[j].of = view.of
NotLoaded ==
  \/ srv.of = view.of
  \/ \E j \in DOMAIN wire : IsGone(wire[j]) /\ wire[j].of = view.of
  \/ \A i \in DOMAIN cmds : ~(cmds[i].type = "session.load" /\ cmds[i].of = view.of)

(* The session the server holds is on screen, or its opening is on the way.  *)
SeatInv ==
  link = "open" =>
    /\ OpensApart /\ OpensAreHeld /\ StartsAreOpen
    /\ srv.of # NoSession => SeatShown
    /\ view.of # NoSession => EndsFirst /\ NotLoaded

LEMMA CmdsTaken ==
  ASSUME Types, Takes
  PROVE  /\ Head(cmds) \in Commands /\ 1 \in DOMAIN cmds /\ cmds[1] = Head(cmds)
         /\ \A i \in DOMAIN cmds' : i + 1 \in DOMAIN cmds /\ cmds'[i] = cmds[i + 1]
         /\ \A i \in DOMAIN cmds : i # 1 => i - 1 \in DOMAIN cmds' /\ cmds'[i - 1] = cmds[i]
<1>1. cmds \in Seq(Commands) /\ cmds # <<>> /\ cmds' = Tail(cmds)
  BY DEF Types, Takes
<1> QED
  BY <1>1, Tailed

(* What the server says of seats, whatever kind of step it takes.            *)
LEMMA ServerSays ==
  ASSUME Types, link = "open", ServerKinds
  PROVE  /\ \A i : FreshAt(i) /\ IsOpen(wire'[i]) => i = Last1 /\ srv.of = NoSession /\ srv'.of = wire'[i].of
         /\ \A i : FreshAt(i) /\ IsGone(wire'[i]) => wire'[i].of = srv.of /\ srv'.of = NoSession
         /\ \A i : FreshAt(i) /\ wire'[i].type = "turn.started" => i = Last1 /\ \E t \in Turns : Runs(t)
         /\ \/ srv'.of = srv.of
            \/ srv.of = NoSession /\ \E s \in Sessions : Sits(s)
            \/ Rises
<1>1. CASE SaysNo
  BY <1>1 DEF SaysNo, IsOpen, IsGone
<1>2. CASE Talks
  BY <1>2 DEF Talks, IsOpen, IsGone
<1>3. CASE Stops
  BY <1>3 DEF Stops, IsOpen, IsGone
<1>4. CASE Rises
  BY <1>4 DEF Rises, IsOpen, IsGone, NoConnection
<1>5. ASSUME NEW s \in Sessions, Sits(s)
      PROVE  /\ \A i : FreshAt(i) /\ IsOpen(wire'[i]) => i = Last1 /\ srv.of = NoSession /\ srv'.of = wire'[i].of
             /\ \A i : FreshAt(i) => ~IsGone(wire'[i]) /\ wire'[i].type # "turn.started"
             /\ srv.of = NoSession
  <2>1. /\ srv.of = NoSession /\ srv'.of = s /\ wire'[Last1].of = s /\ wire'[Last1].type = "session.opened"
        /\ \A i : FreshAt(i) => i = Last1 \/ wire'[i].type = "session.loaded"
    BY <1>5, MadeTypes DEF Sits
  <2> QED
    BY <2>1 DEF IsOpen, IsGone
<1>6. ASSUME NEW t \in Turns, Runs(t)
      PROVE  srv'.of = srv.of /\ \A i : FreshAt(i) => i = Last1 /\ ~IsOpen(wire'[i]) /\ ~IsGone(wire'[i])
  BY <1>6, MadeTypes DEF Runs, IsOpen, IsGone
<1> QED
  BY <1>1, <1>2, <1>3, <1>4, <1>5, <1>6, ServerWire

LEMMA ServerKeepsSeats ==
  ASSUME Types, ViewInv, SeatInv, link = "open", ServerKinds
  PROVE  SeatInv'
<1>1. /\ Extends /\ ServerSide /\ UNCHANGED <<view, link>>
      /\ SaysNo \/ Talks \/ Stops \/ Rises \/ (\E s \in Sessions : Sits(s)) \/ (\E t \in Turns : Runs(t))
  BY ServerWire DEF ServerSide
<1>2. /\ link = "open" /\ Len(wire) \in Nat
      /\ \A i \in DOMAIN wire : i \in DOMAIN wire' /\ wire'[i] = wire[i] /\ i <= Len(wire) /\ i \in Nat \ {0}
      /\ \A i \in DOMAIN wire' : i \in Nat /\ (i \in DOMAIN wire \/ FreshAt(i))
      /\ \A i : FreshAt(i) => i \in DOMAIN wire' /\ i > Len(wire)
  BY <1>1 DEF Extends, FreshAt
<1>3. \A i \in DOMAIN wire : IsOpen(wire[i]) \/ IsGone(wire[i]) => wire[i].of \in Sessions
  <2>1. \A i \in DOMAIN wire : wire[i] \in Frames
    BY DEF Types
  <2> QED
    BY <2>1, FrameFacts
<1>4. /\ OpensApart /\ OpensAreHeld /\ StartsAreOpen
      /\ srv.of # NoSession => SeatShown
      /\ view.of # NoSession => EndsFirst /\ NotLoaded
  BY <1>2 DEF SeatInv
<1>5. OpensApart'
  <2> SUFFICES ASSUME NEW i \in DOMAIN wire', NEW j \in DOMAIN wire', i < j, IsOpen(wire'[i]), IsOpen(wire'[j])
               PROVE  \E k \in DOMAIN wire' : i < k /\ k < j /\ IsGone(wire'[k]) /\ wire'[k].of = wire'[i].of
    BY DEF OpensApart, IsOpen, IsGone
  <2>1. CASE j \in DOMAIN wire
    <3>1. i \in DOMAIN wire
      BY <1>2, <2>1
    <3> QED
      BY <1>2, <1>4, <2>1, <3>1 DEF OpensApart
  <2>2. CASE FreshAt(j)
    <3>1. j = Last1 /\ srv.of = NoSession
      BY <2>2, ServerSays
    <3>2. i \in DOMAIN wire
      BY <1>2, <3>1 DEF Last1
    <3>3. srv.of # wire[i].of
      BY <1>2, <1>3, <3>1, <3>2, NullSession
    <3>4. PICK k \in DOMAIN wire : i < k /\ IsGone(wire[k]) /\ wire[k].of = wire[i].of
      BY <1>2, <1>4, <3>2, <3>3 DEF OpensAreHeld
    <3>5. k < j /\ k \in DOMAIN wire' /\ wire'[k] = wire[k] /\ wire'[i] = wire[i]
      BY <1>2, <3>1, <3>2 DEF Last1
    <3> QED
      BY <3>4, <3>5
  <2> QED
    BY <1>2, <2>1, <2>2
<1>6. OpensAreHeld'
  <2> SUFFICES ASSUME NEW i \in DOMAIN wire', IsOpen(wire'[i])
               PROVE  \/ srv'.of = wire'[i].of
                      \/ \E k \in DOMAIN wire' : i < k /\ IsGone(wire'[k]) /\ wire'[k].of = wire'[i].of
    BY DEF OpensAreHeld, IsOpen, IsGone
  <2>1. CASE FreshAt(i)
    BY <2>1, ServerSays
  <2>2. CASE i \in DOMAIN wire
    <3>1. wire'[i] = wire[i] /\ IsOpen(wire[i]) /\ wire[i].of # NoSession
      BY <1>2, <1>3, <2>2, NullSession
    <3>2. CASE \E k \in DOMAIN wire : i < k /\ IsGone(wire[k]) /\ wire[k].of = wire[i].of
      BY <1>2, <3>1, <3>2
    <3>3. CASE srv.of = wire[i].of
      <4>1. CASE Rises
        <5>1. FreshAt(Last1) /\ IsGone(wire'[Last1]) /\ wire'[Last1].of = srv.of
          BY <4>1 DEF Rises
        <5>2. i < Last1 /\ Last1 \in DOMAIN wire'
          BY <1>2, <2>2, <5>1 DEF Last1
        <5> QED
          BY <3>1, <3>3, <5>1, <5>2
      <4> QED
        BY <3>1, <3>3, <4>1, ServerSays
    <3> QED
      BY <1>4, <2>2, <3>1, <3>2, <3>3 DEF OpensAreHeld
  <2> QED
    BY <1>2, <2>1, <2>2
<1>7. StartsAreOpen'
  <2> SUFFICES ASSUME NEW i \in DOMAIN wire', NEW j \in DOMAIN wire', i < j, IsGone(wire'[i]),
                      wire'[j].type = "turn.started"
               PROVE  \E k \in DOMAIN wire' : i < k /\ k < j /\ IsOpen(wire'[k])
    BY DEF StartsAreOpen, IsOpen, IsGone
  <2>1. CASE j \in DOMAIN wire
    <3>1. i \in DOMAIN wire
      BY <1>2, <2>1
    <3> QED
      BY <1>2, <1>4, <2>1, <3>1 DEF StartsAreOpen
  <2>2. CASE FreshAt(j)
    <3>1. j = Last1 /\ srv.of # NoSession
      BY <2>2, ServerSays, NullSession DEF Runs, StartsTurn
    <3>2. i \in DOMAIN wire /\ wire'[i] = wire[i]
      BY <1>2, <3>1 DEF Last1
    <3>3. PICK k \in DOMAIN wire : ToldAt(k)
      BY <1>4, <3>1, <3>2 DEF SeatShown
    <3>4. i # k /\ ~(k < i)
      BY <3>2, <3>3 DEF ToldAt, IsOpen, IsGone
    <3>5. i < k /\ k < j /\ k \in DOMAIN wire' /\ wire'[k] = wire[k]
      BY <1>2, <3>1, <3>2, <3>4 DEF Last1
    <3> QED
      BY <3>3, <3>5 DEF ToldAt
  <2> QED
    BY <1>2, <2>1, <2>2
<1>8. srv'.of # NoSession => SeatShown'
  <2>1. CASE \E s \in Sessions : Sits(s)
    <3>1. PICK s \in Sessions : Sits(s)
      BY <2>1
    <3>2. /\ FreshAt(Last1) /\ srv'.of = s /\ wire'[Last1].of = s /\ wire'[Last1].type = "session.opened"
          /\ \A i : FreshAt(i) => i = Last1 \/ wire'[i].type = "session.loaded"
      BY <3>1, MadeTypes DEF Sits
    <3>3. Last1 \in DOMAIN wire' /\ \A j \in DOMAIN wire' : Last1 < j => FreshAt(j) /\ j # Last1
      BY <1>2, <3>2 DEF Last1
    <3>5. PICK k : k = Last1
      OBVIOUS
    <3>4. ToldAt(k)'
      <4>1. \A j \in DOMAIN wire' : Last1 < j => ~IsOpen(wire'[j]) /\ ~IsGone(wire'[j])
        BY <3>2, <3>3 DEF IsOpen, IsGone
      <4> QED
        BY <3>2, <3>3, <3>5, <4>1 DEF ToldAt, IsOpen, IsGone
    <3> QED
      BY <3>3, <3>4, <3>5 DEF SeatShown
  <2>2. ASSUME srv'.of = srv.of, srv.of # NoSession, \A s \in Sessions : ~Sits(s), ~Rises
        PROVE  SeatShown'
    <3>1. \A i : FreshAt(i) => ~IsOpen(wire'[i]) /\ ~IsGone(wire'[i])
      BY <2>2, ServerSays
    <3>2. CASE \E i \in DOMAIN wire : ToldAt(i)
      <4>1. PICK i \in DOMAIN wire : ToldAt(i)
        BY <3>2
      <4>2. ASSUME NEW j \in DOMAIN wire', i < j PROVE ~IsOpen(wire'[j]) /\ ~IsGone(wire'[j])
        BY <1>2, <3>1, <4>1, <4>2 DEF ToldAt
      <4>3. i \in DOMAIN wire' /\ IsOpen(wire'[i]) /\ wire'[i].of = srv'.of
        BY <1>2, <2>2, <4>1 DEF ToldAt
      <4> QED
        BY <4>2, <4>3 DEF SeatShown, ToldAt, IsOpen, IsGone
    <3>3. ASSUME \A j \in DOMAIN wire : ~IsOpen(wire[j]) /\ ~IsGone(wire[j]),
                 \/ view.of = srv.of
                 \/ \E i \in DOMAIN cmds : cmds[i].type = "session.close" /\ cmds[i].of = srv.of
          PROVE  SeatShown'
      <4>1. \A j \in DOMAIN wire' : ~IsOpen(wire'[j]) /\ ~IsGone(wire'[j])
        BY <1>2, <3>1, <3>3
      <4>2. CASE view.of = srv.of
        BY <1>1, <2>2, <4>1, <4>2 DEF SeatShown, IsOpen, IsGone
      <4>3. ASSUME NEW i \in DOMAIN cmds, cmds[i].type = "session.close", cmds[i].of = srv.of
            PROVE  \E k \in DOMAIN cmds' : cmds'[k].type = "session.close" /\ cmds'[k].of = srv'.of
        <5>1. CASE UNCHANGED cmds
          BY <2>2, <4>3, <5>1
        <5>2. CASE Takes
          <6>1. cmds[1] = Head(cmds) /\ \A k \in DOMAIN cmds : k # 1 => k - 1 \in DOMAIN cmds' /\ cmds'[k - 1] = cmds[k]
            BY <5>2, CmdsTaken
          <6>2. ~(Head(cmds).type = "session.close" /\ Head(cmds).of = srv.of)
            <7>1. CASE SaysNo
              BY <7>1 DEF SaysNo
            <7>2. CASE Talks
              <8>1. cmds \in Seq(Commands) /\ cmds # <<>> /\ cmds = Tail(cmds)
                BY <5>2, <7>2 DEF Types, Takes, Talks
              <8> QED
                BY <8>1, Tailed
            <7>3. CASE Stops
              <8>1. ~UNCHANGED cmds
                <9>1. cmds \in Seq(Commands) /\ cmds # <<>> /\ cmds' = Tail(cmds)
                  BY <5>2 DEF Types, Takes
                <9> QED
                  BY <9>1, Tailed
              <8> QED
                BY <7>3, <8>1 DEF Stops
            <7>4. CASE \E t \in Turns : Runs(t)
              <8>1. Head(cmds).type = "session.prompt"
                BY <7>4 DEF Runs, StartsTurn, Event
              <8> QED
                BY <8>1
            <7> QED
              BY <1>1, <2>2, <7>1, <7>2, <7>3, <7>4
          <6> QED
            BY <2>2, <4>3, <6>1, <6>2
        <5> QED
          BY <5>1, <5>2, ServerKindFacts
      <4> QED
        BY <3>3, <4>1, <4>2, <4>3 DEF SeatShown, IsOpen, IsGone
    <3> QED
      BY <1>4, <2>2, <3>2, <3>3 DEF SeatShown
  <2> QED
    BY <2>1, <2>2, ServerSays DEF Rises, NoConnection
<1>9. view'.of # NoSession => EndsFirst' /\ NotLoaded'
  <2> SUFFICES ASSUME view.of # NoSession, view' = view PROVE EndsFirst' /\ NotLoaded'
    BY <1>1
  <2>1. EndsFirst /\ NotLoaded
    BY <1>4
  <2>2. \A i \in DOMAIN cmds' : \E j \in DOMAIN cmds : cmds'[i] = cmds[j]
    <3>1. CASE UNCHANGED cmds
      BY <3>1
    <3> QED
      BY <3>1, CmdsTaken, ServerKindFacts
  <2>3. EndsFirst'
    <3> SUFFICES ASSUME NEW i \in DOMAIN wire', IsOpen(wire'[i]), wire'[i].of = view.of
                 PROVE  \E j \in DOMAIN wire' : j < i /\ IsGone(wire'[j]) /\ wire'[j].of = view.of
      BY DEF EndsFirst, IsOpen, IsGone
    <3>1. CASE i \in DOMAIN wire
      BY <1>2, <2>1, <3>1 DEF EndsFirst
    <3>2. CASE FreshAt(i)
      <4>1. srv.of = NoSession /\ srv'.of = view.of
        BY <3>2, ServerSays
      <4>2. PICK s \in Sessions : Sits(s)
        BY <4>1, ServerSays DEF Rises
      <4>3. s = view.of /\ log[s] # <<>>
        BY <4>1, <4>2 DEF Sits, ViewInv
      <4>4. Takes /\ Head(cmds).type = "session.load" /\ Head(cmds).of = view.of
        BY <4>2, <4>3 DEF Sits
      <4>5. 1 \in DOMAIN cmds /\ cmds[1] = Head(cmds)
        BY <4>4, CmdsTaken
      <4>6. PICK j \in DOMAIN wire : IsGone(wire[j]) /\ wire[j].of = view.of
        BY <2>1, <4>1, <4>4, <4>5 DEF NotLoaded
      <4> QED
        BY <1>2, <3>2, <4>6
    <3> QED
      BY <1>2, <3>1, <3>2
  <2>4. NotLoaded'
    <3>1. CASE \E j \in DOMAIN wire : IsGone(wire[j]) /\ wire[j].of = view.of
      BY <1>2, <3>1 DEF NotLoaded, IsGone
    <3>2. CASE \A i \in DOMAIN cmds : ~(cmds[i].type = "session.load" /\ cmds[i].of = view.of)
      BY <2>2, <3>2 DEF NotLoaded
    <3>3. CASE srv.of = view.of
      <4>1. CASE Rises
        <5>1. FreshAt(Last1) /\ IsGone(wire'[Last1]) /\ wire'[Last1].of = srv.of
          BY <4>1 DEF Rises
        <5>2. Last1 \in DOMAIN wire'
          BY <1>2, <5>1
        <5> QED
          BY <3>3, <5>1, <5>2 DEF NotLoaded, IsGone
      <4>2. CASE srv'.of = srv.of
        BY <3>3, <4>2 DEF NotLoaded
      <4> QED
        BY <3>3, <4>1, <4>2, ServerSays
    <3> QED
      BY <2>1, <3>1, <3>2, <3>3 DEF NotLoaded
  <2> QED
    BY <2>3, <2>4
<1> QED
  BY <1>5, <1>6, <1>7, <1>8, <1>9 DEF SeatInv

LEMMA WireTaken ==
  ASSUME Types, Receives
  PROVE  /\ Head(wire) = wire[1] /\ 1 \in DOMAIN wire
         /\ \A i \in DOMAIN wire : i \in Nat \ {0} /\ wire[i] \in Frames
         /\ \A i \in DOMAIN wire' : i \in Nat \ {0} /\ i + 1 \in DOMAIN wire /\ wire'[i] = wire[i + 1]
         /\ \A i \in DOMAIN wire : i # 1 => i - 1 \in DOMAIN wire' /\ wire'[i - 1] = wire[i]
<1>1. wire \in Seq(Frames) /\ wire # <<>> /\ wire' = Tail(wire)
  BY DEF Types, Receives
<1>2. DOMAIN wire = 1..Len(wire) /\ DOMAIN wire' = 1..Len(wire') /\ wire' \in Seq(Frames)
  BY <1>1, Tailed
<1> QED
  BY <1>1, <1>2, Tailed

LEMMA ReceiveKeepsSeats ==
  ASSUME Types, SeatInv, link = "open", Receives
  PROVE  SeatInv'
<1>1. UNCHANGED <<link, cmds, srv, log>>
  BY DEF Receives
<1>2. /\ OpensApart /\ OpensAreHeld /\ StartsAreOpen
      /\ srv.of # NoSession => SeatShown
      /\ view.of # NoSession => EndsFirst /\ NotLoaded
  BY DEF SeatInv
<1>3. /\ Head(wire) = wire[1] /\ 1 \in DOMAIN wire
      /\ \A i \in DOMAIN wire : i \in Nat \ {0} /\ wire[i] \in Frames
      /\ \A i \in DOMAIN wire' : i \in Nat \ {0} /\ i + 1 \in DOMAIN wire /\ wire'[i] = wire[i + 1]
      /\ \A i \in DOMAIN wire : i # 1 => i - 1 \in DOMAIN wire' /\ wire'[i - 1] = wire[i]
  BY WireTaken
<1>4. /\ IsOpen(wire[1]) \/ IsGone(wire[1]) => wire[1].of \in Sessions
      /\ \/ IsOpen(wire[1]) /\ view'.of = wire[1].of
         \/ IsGone(wire[1]) /\ view.of = wire[1].of /\ view'.of = NoSession
         \/ /\ view'.of = view.of /\ ~IsOpen(wire[1])
            /\ IsGone(wire[1]) => wire[1].of # view.of
  BY <1>3, ReceivedOf
<1>5. OpensApart'
  <2> SUFFICES ASSUME NEW i \in DOMAIN wire', NEW j \in DOMAIN wire', i < j, IsOpen(wire'[i]), IsOpen(wire'[j])
               PROVE  \E k \in DOMAIN wire' : i < k /\ k < j /\ IsGone(wire'[k]) /\ wire'[k].of = wire'[i].of
    BY DEF OpensApart, IsOpen, IsGone
  <2>1. i + 1 < j + 1 /\ i \in Nat \ {0} /\ j \in Nat \ {0}
    BY <1>3
  <2>2. PICK k \in DOMAIN wire : i + 1 < k /\ k < j + 1 /\ IsGone(wire[k]) /\ wire[k].of = wire[i + 1].of
    BY <1>2, <1>3, <2>1 DEF OpensApart
  <2>3. i < k - 1 /\ k - 1 < j /\ k # 1
    BY <1>3, <2>1, <2>2
  <2> QED
    BY <1>3, <2>2, <2>3
<1>6. OpensAreHeld'
  <2> SUFFICES ASSUME NEW i \in DOMAIN wire', IsOpen(wire'[i]), srv.of # wire'[i].of
               PROVE  \E k \in DOMAIN wire' : i < k /\ IsGone(wire'[k]) /\ wire'[k].of = wire'[i].of
    BY <1>1 DEF OpensAreHeld, IsOpen, IsGone
  <2>1. PICK k \in DOMAIN wire : i + 1 < k /\ IsGone(wire[k]) /\ wire[k].of = wire[i + 1].of
    BY <1>2, <1>3 DEF OpensAreHeld
  <2>2. i < k - 1 /\ k # 1
    BY <1>3, <2>1
  <2> QED
    BY <1>3, <2>1, <2>2
<1>7. StartsAreOpen'
  <2> SUFFICES ASSUME NEW i \in DOMAIN wire', NEW j \in DOMAIN wire', i < j, IsGone(wire'[i]),
                      wire'[j].type = "turn.started"
               PROVE  \E k \in DOMAIN wire' : i < k /\ k < j /\ IsOpen(wire'[k])
    BY DEF StartsAreOpen, IsOpen, IsGone
  <2>1. i + 1 < j + 1 /\ i \in Nat \ {0} /\ j \in Nat \ {0}
    BY <1>3
  <2>2. PICK k \in DOMAIN wire : i + 1 < k /\ k < j + 1 /\ IsOpen(wire[k])
    BY <1>2, <1>3, <2>1 DEF StartsAreOpen
  <2>3. i < k - 1 /\ k - 1 < j /\ k # 1
    BY <1>3, <2>1, <2>2
  <2> QED
    BY <1>3, <2>2, <2>3
<1>8. ASSUME srv.of # NoSession PROVE SeatShown'
  <2>1. CASE \E i \in DOMAIN wire : ToldAt(i)
    <3>1. PICK i \in DOMAIN wire : ToldAt(i)
      BY <2>1
    <3>2. CASE i = 1
      <4>1. view'.of = srv.of
        BY <1>4, <3>1, <3>2 DEF ToldAt, IsOpen, IsGone
      <4>2. ASSUME NEW j \in DOMAIN wire' PROVE ~IsOpen(wire'[j]) /\ ~IsGone(wire'[j])
        <5>1. 1 < j + 1 /\ j + 1 \in DOMAIN wire /\ wire'[j] = wire[j + 1]
          BY <1>3
        <5> QED
          BY <3>1, <3>2, <5>1 DEF ToldAt
      <4> QED
        BY <1>1, <4>1, <4>2 DEF SeatShown, IsOpen, IsGone
    <3>3. CASE i # 1
      <4>1. PICK k : k = i - 1
        OBVIOUS
      <4>2. k \in DOMAIN wire' /\ wire'[k] = wire[i]
        BY <1>3, <3>3, <4>1
      <4>3. ASSUME NEW j \in DOMAIN wire', k < j PROVE ~IsOpen(wire'[j]) /\ ~IsGone(wire'[j])
        <5>1. i < j + 1 /\ j + 1 \in DOMAIN wire /\ wire'[j] = wire[j + 1]
          BY <1>3, <4>1, <4>3
        <5> QED
          BY <3>1, <5>1 DEF ToldAt
      <4> QED
        BY <1>1, <3>1, <4>2, <4>3 DEF SeatShown, ToldAt, IsOpen, IsGone
    <3> QED
      BY <3>2, <3>3
  <2>2. ASSUME \A j \in DOMAIN wire : ~IsOpen(wire[j]) /\ ~IsGone(wire[j]),
               \/ view.of = srv.of
               \/ \E i \in DOMAIN cmds : cmds[i].type = "session.close" /\ cmds[i].of = srv.of
        PROVE  SeatShown'
    <3>1. view'.of = view.of
      BY <1>3, <1>4, <2>2
    <3>2. \A j \in DOMAIN wire' : ~IsOpen(wire'[j]) /\ ~IsGone(wire'[j])
      BY <1>3, <2>2
    <3> QED
      BY <1>1, <2>2, <3>1, <3>2 DEF SeatShown, IsOpen, IsGone
  <2> QED
    BY <1>2, <1>8, <2>1, <2>2 DEF SeatShown
<1>9. ASSUME view'.of # NoSession PROVE EndsFirst' /\ NotLoaded'
  <2>1. ASSUME view'.of = view.of, ~IsOpen(wire[1]), IsGone(wire[1]) => wire[1].of # view.of
        PROVE  EndsFirst' /\ NotLoaded'
    <3>1. EndsFirst /\ NotLoaded
      BY <1>2, <1>9, <2>1
    <3>2. EndsFirst'
      <4> SUFFICES ASSUME NEW i \in DOMAIN wire', IsOpen(wire'[i]), wire'[i].of = view.of
                   PROVE  \E j \in DOMAIN wire' : j < i /\ IsGone(wire'[j]) /\ wire'[j].of = view.of
        BY <2>1 DEF EndsFirst, IsOpen, IsGone
      <4>1. PICK j \in DOMAIN wire : j < i + 1 /\ IsGone(wire[j]) /\ wire[j].of = view.of
        BY <1>3, <3>1 DEF EndsFirst
      <4>2. j # 1
        BY <2>1, <4>1
      <4>3. j - 1 < i
        BY <1>3, <4>1
      <4> QED
        BY <1>3, <4>1, <4>2, <4>3
    <3>3. NotLoaded'
      <4>1. CASE \E j \in DOMAIN wire : IsGone(wire[j]) /\ wire[j].of = view.of
        <5>1. PICK j \in DOMAIN wire : IsGone(wire[j]) /\ wire[j].of = view.of
          BY <4>1
        <5>2. j # 1
          BY <2>1, <5>1
        <5> QED
          BY <1>3, <2>1, <5>1, <5>2 DEF NotLoaded, IsGone
      <4> QED
        BY <1>1, <2>1, <3>1, <4>1 DEF NotLoaded
    <3> QED
      BY <3>2, <3>3
  <2>2. ASSUME IsOpen(wire[1]), view'.of = wire[1].of
        PROVE  EndsFirst' /\ NotLoaded'
    <3>1. EndsFirst'
      <4> SUFFICES ASSUME NEW i \in DOMAIN wire', IsOpen(wire'[i]), wire'[i].of = view'.of
                   PROVE  \E j \in DOMAIN wire' : j < i /\ IsGone(wire'[j]) /\ wire'[j].of = view'.of
        BY DEF EndsFirst, IsOpen, IsGone
      <4>1. i \in Nat \ {0} /\ 1 < i + 1 /\ i + 1 \in DOMAIN wire /\ wire'[i] = wire[i + 1]
        BY <1>3
      <4>2. PICK k \in DOMAIN wire : 1 < k /\ k < i + 1 /\ IsGone(wire[k]) /\ wire[k].of = wire[1].of
        BY <1>2, <1>3, <2>2, <4>1 DEF OpensApart
      <4>3. k # 1 /\ k - 1 < i
        BY <1>3, <4>1, <4>2
      <4> QED
        BY <1>3, <2>2, <4>2, <4>3
    <3>2. NotLoaded'
      <4>1. CASE srv.of = wire[1].of
        BY <1>1, <2>2, <4>1 DEF NotLoaded
      <4>2. CASE srv.of # wire[1].of
        <5>1. PICK k \in DOMAIN wire : 1 < k /\ IsGone(wire[k]) /\ wire[k].of = wire[1].of
          BY <1>2, <1>3, <2>2, <4>2 DEF OpensAreHeld
        <5>2. k # 1
          BY <5>1
        <5> QED
          BY <1>3, <2>2, <5>1, <5>2 DEF NotLoaded, IsGone
      <4> QED
        BY <4>1, <4>2
    <3> QED
      BY <3>1, <3>2
  <2> QED
    BY <1>4, <1>9, <2>1, <2>2
<1> QED
  BY <1>1, <1>5, <1>6, <1>7, <1>8, <1>9 DEF SeatInv

LEMMA TabKeepsSeats ==
  ASSUME Types, LinkInv, SeatInv, TabOpen
  PROVE  SeatInv'
<1>1. link = "open" /\ UNCHANGED <<wire, srv, log>> /\ CmdsKept /\ OfKept
  BY TabKeeps DEF TabOpen
<1>2. /\ OpensApart /\ OpensAreHeld /\ StartsAreOpen
      /\ srv.of # NoSession => SeatShown
      /\ view.of # NoSession => EndsFirst /\ NotLoaded
  BY <1>1 DEF SeatInv
<1>3. OpensApart' /\ OpensAreHeld' /\ StartsAreOpen'
  BY <1>1, <1>2 DEF OpensApart, OpensAreHeld, StartsAreOpen
<1>4. ASSUME srv.of # NoSession PROVE SeatShown'
  <2>1. CASE \E i \in DOMAIN wire : ToldAt(i)
    BY <1>1, <2>1 DEF SeatShown, ToldAt
  <2>2. CASE view.of = srv.of
    BY <1>1, <1>2, <1>4, <2>2 DEF SeatShown, OfKept, ToldAt
  <2>3. CASE \E i \in DOMAIN cmds : cmds[i].type = "session.close" /\ cmds[i].of = srv.of
    <3>1. \E i \in DOMAIN cmds' : cmds'[i].type = "session.close" /\ cmds'[i].of = srv.of
      BY <1>1, <2>3 DEF CmdsKept
    <3> QED
      BY <1>1, <1>2, <1>4, <3>1 DEF SeatShown, ToldAt
  <2> QED
    BY <1>2, <1>4, <2>1, <2>2, <2>3 DEF SeatShown
<1>5. ASSUME view'.of # NoSession PROVE EndsFirst' /\ NotLoaded'
  <2>1. view'.of = view.of /\ EndsFirst /\ NotLoaded
    BY <1>1, <1>2, <1>5 DEF OfKept
  <2>2. EndsFirst'
    BY <1>1, <2>1 DEF EndsFirst
  <2>3. NotLoaded'
    <3>1. ASSUME \A i \in DOMAIN cmds : ~(cmds[i].type = "session.load" /\ cmds[i].of = view.of)
          PROVE  \A i \in DOMAIN cmds' : ~(cmds'[i].type = "session.load" /\ cmds'[i].of = view.of)
      BY <1>1, <3>1 DEF CmdsKept
    <3> QED
      BY <1>1, <2>1, <3>1 DEF NotLoaded
  <2> QED
    BY <2>2, <2>3
<1> QED
  BY <1>1, <1>3, <1>4, <1>5 DEF SeatInv

(* The socket that opens finds nothing on the way, and no seat.              *)
LEMMA JoinsAfresh ==
  ASSUME Types, LinkInv, Joins
  PROVE  /\ DOMAIN wire' = {} /\ DOMAIN cmds' = {} /\ srv' = NoConnection /\ ~IsLive(view')
         /\ srv'.of = NoSession /\ srv'.turn = NoTurn
<1>1. link = "connecting" /\ UNCHANGED <<wire, cmds, srv>> /\ srv = NoConnection /\ view' = [view EXCEPT !.conn = "open"]
  BY DEF Joins
<1>2. wire = <<>> /\ cmds = <<>> /\ ~IsLive(view)
  BY <1>1 DEF LinkInv
<1>3. view'.status = view.status
  BY <1>1, JoinedFacts DEF Types
<1> QED
  BY <1>1, <1>2, <1>3 DEF IsLive, NoConnection

LEMMA OpenSteps ==
  ASSUME Types, TabKinds \/ ServerKinds, link' = "open"
  PROVE  \/ link = "open" /\ (ServerKinds \/ Receives \/ TabOpen)
         \/ Joins
<1>1. CASE ServerKinds
  BY <1>1, ServerKindFacts DEF ServerSide
<1>2. CASE TabKinds /\ ~Joins /\ ~Receives
  <2>1. link = "open"
    BY <1>2 DEF TabKinds, Begins, Fails, Cancels, AsksForOne, Resets, Waits, Receives, Paints, Loads, Drops, Closes,
                Hydrates, TabSide, Moves
  <2> QED
    BY <1>2, <2>1 DEF TabOpen
<1>3. CASE Receives
  BY <1>3 DEF Receives
<1> QED
  BY <1>1, <1>2, <1>3

LEMMA StepKeepsSeats ==
  ASSUME Types, LinkInv, ViewInv, SeatInv, TabKinds \/ ServerKinds
  PROVE  SeatInv'
<1>1. CASE link' # "open"
  BY <1>1 DEF SeatInv
<1>2. CASE Joins
  <2>1. DOMAIN wire' = {} /\ DOMAIN cmds' = {} /\ srv'.of = NoSession
    BY <1>2, JoinsAfresh
  <2> QED
    BY <2>1 DEF SeatInv, OpensApart, OpensAreHeld, StartsAreOpen, EndsFirst, NotLoaded
<1>3. CASE link = "open" /\ (ServerKinds \/ Receives \/ TabOpen)
  BY <1>3, ServerKeepsSeats, ReceiveKeepsSeats, TabKeepsSeats
<1> QED
  BY <1>1, <1>2, <1>3, OpenSteps

----------------------------------------------------------------------------
(* The turn on screen, and the one the server runs                           *)

Prompts(c, t) == c.type = "session.prompt" /\ c.arg = t
IsWaiting(t) == \E i \in DOMAIN cmds : Prompts(cmds[i], t)
IsStart(e, t) == e.type = "turn.started" /\ e.of = t
IsEnd(e, t) == e.type = "turn.completed" /\ e.of = t

LEMMA WaitingIs ==
  ASSUME Types, NEW t, IsWaiting(t)
  PROVE  t \in Turns /\ \E s \in Sessions : Waiting(t, s)
<1>1. PICK i \in DOMAIN cmds : Prompts(cmds[i], t)
  BY DEF IsWaiting
<1>2. cmds[i] \in Commands
  BY DEF Types
<1>3. cmds[i] = Event("session.prompt", cmds[i].of, t) /\ cmds[i].of \in Sessions /\ t \in Turns
  BY <1>1, <1>2, CommandFacts DEF Prompts
<1> QED
  BY <1>3 DEF Waiting

(* What a server step does to the turns.                                     *)
LEMMA ServerTurns ==
  ASSUME Types, link = "open", ServerKinds
  PROVE  /\ \A t : IsWaiting(t)' => IsWaiting(t)
         /\ \A t : IsWaiting(t) => \/ IsWaiting(t)'
                                   \/ t \in Turns /\ Runs(t)
                                   \/ FreshAt(Last1) /\ wire'[Last1] = Refusal("session.prompt", t)
         /\ \/ srv'.turn = srv.turn
            \/ srv'.turn = NoTurn /\ (Stops \/ Rises)
            \/ srv.turn = NoTurn /\ srv'.turn \in Turns /\ Runs(srv'.turn)
         /\ \A i : FreshAt(i) /\ wire'[i].type = "turn.started" => i = Last1 /\ wire'[i].of \in Turns /\ Runs(wire'[i].of)
         /\ \A t \in Turns : Runs(t) => srv.turn = NoTurn /\ IsWaiting(t) /\ srv'.turn = t /\ srv.of \in Sessions
<1>1. UNCHANGED cmds \/ Takes
  BY ServerKindFacts
<1>2. \A t : IsWaiting(t)' => IsWaiting(t)
  <2>1. CASE UNCHANGED cmds
    BY <2>1 DEF IsWaiting
  <2>2. CASE Takes
    BY <2>2, CmdsTaken DEF IsWaiting
  <2> QED
    BY <1>1, <2>1, <2>2
<1>3. ASSUME NEW t, IsWaiting(t), ~IsWaiting(t)'
      PROVE  \/ t \in Turns /\ Runs(t)
             \/ FreshAt(Last1) /\ wire'[Last1] = Refusal("session.prompt", t)
  <2>1. Takes
    BY <1>1, <1>3 DEF IsWaiting
  <2>2. Prompts(Head(cmds), t) /\ Head(cmds) \in Commands
    <3>1. PICK i \in DOMAIN cmds : Prompts(cmds[i], t)
      BY <1>3 DEF IsWaiting
    <3>2. i = 1
      BY <1>3, <2>1, <3>1, CmdsTaken DEF IsWaiting
    <3> QED
      BY <2>1, <3>1, <3>2, CmdsTaken
  <2>3. t \in Turns
    BY <2>2, CommandFacts DEF Prompts
  <2>4. CASE SaysNo
    BY <2>2, <2>4 DEF SaysNo, Prompts
  <2>5. CASE \E u \in Turns : Runs(u)
    <3>1. PICK u \in Turns : Runs(u)
      BY <2>5
    <3>2. Head(cmds).arg = u
      BY <3>1 DEF Runs, StartsTurn, Event
    <3> QED
      BY <2>2, <2>3, <3>1, <3>2 DEF Prompts
  <2>6. ~Talks
    <3>1. cmds' # cmds
      <4>1. cmds \in Seq(Commands) /\ cmds # <<>> /\ cmds' = Tail(cmds)
        BY <2>1 DEF Types, Takes
      <4> QED
        BY <4>1, Tailed
    <3> QED
      BY <3>1 DEF Talks
  <2>7. cmds' # cmds
    BY <1>3 DEF IsWaiting
  <2>8. ~Stops /\ ~Rises /\ \A s \in Sessions : ~Sits(s)
    BY <2>2, <2>7 DEF Stops, Rises, Sits, Prompts, Event
  <2> QED
    BY <2>4, <2>5, <2>6, <2>8, ServerWire
<1>4. \A t \in Turns : Runs(t) => srv.turn = NoTurn /\ IsWaiting(t) /\ srv'.turn = t /\ srv.of \in Sessions
  <2> SUFFICES ASSUME NEW t \in Turns, Runs(t)
               PROVE  srv.turn = NoTurn /\ IsWaiting(t) /\ srv'.turn = t /\ srv.of \in Sessions
    OBVIOUS
  <2>1. srv.turn = NoTurn /\ srv.of \in Sessions /\ Takes /\ Head(cmds) = Event("session.prompt", srv.of, t) /\ srv'.turn = t
    BY DEF Runs, StartsTurn
  <2>2. 1 \in DOMAIN cmds /\ Prompts(cmds[1], t)
    BY <2>1, CmdsTaken DEF Prompts, Event
  <2> QED
    BY <2>1, <2>2 DEF IsWaiting
<1>5. ASSUME NEW i, FreshAt(i), wire'[i].type = "turn.started"
      PROVE  i = Last1 /\ wire'[i].of \in Turns /\ Runs(wire'[i].of)
  <2>1. PICK t \in Turns : Runs(t)
    BY <1>5, ServerSays
  <2>2. i = Last1 /\ wire'[i] = Started(t)
    BY <1>5, <2>1 DEF Runs
  <2> QED
    BY <2>1, <2>2, MadeTypes
<1>6. \/ srv'.turn = srv.turn
      \/ srv'.turn = NoTurn /\ (Stops \/ Rises)
      \/ srv.turn = NoTurn /\ srv'.turn \in Turns /\ Runs(srv'.turn)
  <2>1. CASE SaysNo \/ Talks
    BY <2>1 DEF SaysNo, Talks
  <2>2. CASE Stops \/ Rises
    BY <2>2 DEF Stops, Rises, NoConnection
  <2>3. CASE \E s \in Sessions : Sits(s)
    BY <2>3 DEF Sits, Types
  <2>4. CASE \E t \in Turns : Runs(t)
    BY <1>4, <2>4
  <2> QED
    BY <2>1, <2>2, <2>3, <2>4, ServerWire
<1> QED
  BY <1>2, <1>3, <1>4, <1>5, <1>6

----------------------------------------------------------------------------

(* The tab asks for the end of a session only after the turns it prompted    *)
(* there; a turn starts on screen in a session that is.                      *)
PromptIsLast ==
  \A i, j \in DOMAIN cmds : i < j /\ Prompts(cmds[i], view.turn) => cmds[j].type # "session.close"
StartIsOpened ==
  view.of = NoSession =>
    \A i \in DOMAIN wire : IsStart(wire[i], view.turn) => \E j \in DOMAIN wire : j < i /\ IsOpen(wire[j])
LiveIsOpen == IsLive(view) => view.of # NoSession
(* Nothing comes between a prompt and its turn that would close the session. *)
GapInv == link = "open" /\ view.turn # NoTurn => PromptIsLast /\ StartIsOpened /\ LiveIsOpen

(* A turn that was announced runs, or its end is on the way.                 *)
StartIsTrue(i) ==
  \/ srv.turn = wire[i].of
  \/ \E j \in DOMAIN wire : i < j /\ IsEnd(wire[j], wire[i].of)
  \/ \E j \in DOMAIN wire : i < j /\ IsGone(wire[j]) /\ LogHas(wire[j].of, wire[i].of)
StartInv ==
  link = "open" => \A i \in DOMAIN wire : wire[i].type = "turn.started" => StartIsTrue(i)

LEMMA ServerKeepsGap ==
  ASSUME Types, SeatInv, GapInv, link = "open", ServerKinds
  PROVE  GapInv'
<1> SUFFICES ASSUME view.turn # NoTurn PROVE PromptIsLast' /\ StartIsOpened' /\ LiveIsOpen'
  BY ServerKindFacts DEF GapInv, ServerSide
<1>1. UNCHANGED <<view, link>> /\ PromptIsLast /\ StartIsOpened /\ LiveIsOpen
  BY ServerKindFacts DEF GapInv, ServerSide
<1>2. Extends
  BY ServerWire
<1>3. PromptIsLast'
  <2>1. CASE UNCHANGED cmds
    BY <1>1, <2>1 DEF PromptIsLast
  <2>2. CASE Takes
    <3> SUFFICES ASSUME NEW i \in DOMAIN cmds', NEW j \in DOMAIN cmds', i < j, Prompts(cmds'[i], view.turn)
                 PROVE  cmds'[j].type # "session.close"
      BY <1>1 DEF PromptIsLast
    <3>1. i + 1 \in DOMAIN cmds /\ j + 1 \in DOMAIN cmds /\ cmds'[i] = cmds[i + 1] /\ cmds'[j] = cmds[j + 1]
      BY <2>2, CmdsTaken
    <3>2. i \in Nat /\ j \in Nat
      <4>1. cmds' \in Seq(Commands)
        BY <2>2, CommandsTaken
      <4> QED
        BY <4>1
    <3> QED
      BY <1>1, <3>1, <3>2 DEF PromptIsLast
  <2> QED
    BY <2>1, <2>2, ServerKindFacts
<1>4. StartIsOpened'
  <2> SUFFICES ASSUME view.of = NoSession, NEW i \in DOMAIN wire', IsStart(wire'[i], view.turn)
               PROVE  \E j \in DOMAIN wire' : j < i /\ IsOpen(wire'[j])
    BY <1>1 DEF StartIsOpened, IsOpen
  <2>1. CASE i \in DOMAIN wire
    BY <1>1, <1>2, <2>1 DEF StartIsOpened, Extends
  <2>2. CASE FreshAt(i)
    <3>1. Runs(view.turn) /\ view.turn \in Turns /\ i > Len(wire)
      BY <2>2, ServerTurns DEF IsStart, FreshAt
    <3>2. srv.of \in Sessions /\ Takes /\ Head(cmds) = Event("session.prompt", srv.of, view.turn)
      BY <3>1 DEF Runs, StartsTurn
    <3>3. Prompts(cmds[1], view.turn) /\ 1 \in DOMAIN cmds
      BY <3>2, CmdsTaken DEF Prompts, Event
    <3>4. ASSUME NEW k \in DOMAIN cmds, cmds[k].type = "session.close" PROVE FALSE
      <4>1. k # 1 /\ k \in Nat \ {0}
        <5>1. cmds \in Seq(Commands)
          BY DEF Types
        <5> QED
          BY <3>3, <3>4, <5>1 DEF Prompts
      <4> QED
        BY <1>1, <3>3, <3>4, <4>1 DEF PromptIsLast
    <3>5. SeatShown /\ view.of # srv.of
      BY <3>2, NullSession DEF SeatInv
    <3>6. PICK j \in DOMAIN wire : ToldAt(j)
      BY <3>4, <3>5 DEF SeatShown
    <3>7. j < i /\ j \in DOMAIN wire' /\ wire'[j] = wire[j]
      <4>1. j \in DOMAIN wire' /\ wire'[j] = wire[j] /\ j <= Len(wire) /\ j \in Nat /\ i \in Nat /\ Len(wire) \in Nat
        BY <1>2 DEF Extends
      <4> QED
        BY <3>1, <4>1
    <3> QED
      BY <3>6, <3>7 DEF ToldAt
  <2> QED
    BY <1>2, <2>1, <2>2 DEF Extends, FreshAt
<1> QED
  BY <1>1, <1>3, <1>4 DEF LiveIsOpen

LEMMA ReceiveKeepsGap ==
  ASSUME Types, SeatInv, GapInv, link = "open", Receives
  PROVE  GapInv'
<1> SUFFICES ASSUME view'.turn # NoTurn PROVE PromptIsLast' /\ StartIsOpened' /\ LiveIsOpen'
  BY DEF GapInv
<1>1. /\ 1 \in DOMAIN wire
      /\ \A i \in DOMAIN wire : i \in Nat \ {0} /\ wire[i] \in Frames
      /\ \A i \in DOMAIN wire' : i \in Nat \ {0} /\ i + 1 \in DOMAIN wire /\ wire'[i] = wire[i + 1]
      /\ \A i \in DOMAIN wire : i # 1 => i - 1 \in DOMAIN wire' /\ wire'[i - 1] = wire[i]
  BY WireTaken
<1>2. /\ Head(wire) = wire[1] /\ view'.turn = view.turn
      /\ IsOpen(wire[1]) \/ IsGone(wire[1]) => wire[1].of \in Sessions
      /\ \/ IsOpen(wire[1]) /\ view'.of = wire[1].of
         \/ IsGone(wire[1]) /\ view.of = wire[1].of /\ view'.of = NoSession
         \/ view'.of = view.of /\ ~IsOpen(wire[1])
  BY ReceivedOf
<1>3. PromptIsLast /\ StartIsOpened /\ LiveIsOpen
  BY <1>2 DEF GapInv
<1>4. PromptIsLast'
  BY <1>2, <1>3 DEF PromptIsLast, Receives
<1>5. StartIsOpened'
  <2> SUFFICES ASSUME view'.of = NoSession, NEW i \in DOMAIN wire', IsStart(wire'[i], view.turn)
               PROVE  \E j \in DOMAIN wire' : j < i /\ IsOpen(wire'[j])
    BY <1>2 DEF StartIsOpened, IsOpen
  <2>1. PICK j \in DOMAIN wire : 1 < j /\ j < i + 1 /\ IsOpen(wire[j])
    <3>1. CASE IsGone(wire[1])
      <4>1. 1 < i + 1
        BY <1>1
      <4> QED
        BY <1>1, <3>1, <4>1 DEF SeatInv, StartsAreOpen, IsStart
    <3>2. CASE view'.of = view.of /\ ~IsOpen(wire[1])
      <4>1. PICK j \in DOMAIN wire : j < i + 1 /\ IsOpen(wire[j])
        BY <1>1, <1>3, <3>2 DEF StartIsOpened
      <4>2. j # 1 /\ j \in Nat \ {0}
        BY <1>1, <3>2, <4>1
      <4> QED
        BY <4>1, <4>2
    <3> QED
      BY <1>2, <3>1, <3>2, NullSession
  <2>2. j # 1 /\ j - 1 < i
    BY <1>1, <2>1
  <2> QED
    BY <1>1, <2>1, <2>2
<1>6. LiveIsOpen'
  <2> SUFFICES ASSUME IsLive(view'), view'.of = NoSession PROVE FALSE
    BY DEF LiveIsOpen, IsLive
  <2>1. /\ view.of = NoSession
        /\ IsStart(wire[1], view.turn) \/ IsLive(view)
    BY <1>2, ReceivedLive DEF IsStart
  <2>2. IsStart(wire[1], view.turn)
    BY <1>3, <2>1 DEF LiveIsOpen
  <2>3. PICK j \in DOMAIN wire : j < 1 /\ IsOpen(wire[j])
    BY <1>1, <1>3, <2>1, <2>2 DEF StartIsOpened
  <2> QED
    BY <1>1, <2>3
<1> QED
  BY <1>4, <1>5, <1>6

LEMMA TabKeepsGap ==
  ASSUME Types, LinkInv, HomeInv, GapInv, TabOpen
  PROVE  GapInv'
<1> SUFFICES ASSUME view'.turn # NoTurn PROVE PromptIsLast' /\ StartIsOpened' /\ LiveIsOpen'
  BY DEF GapInv
<1>1. link = "open" /\ UNCHANGED <<wire, srv, log>> /\ CmdsKept /\ TurnKept
  BY TabKeeps DEF TabOpen
<1>2. ASSUME view'.turn = view.turn, view'.of = view.of, IsLive(view') => IsLive(view)
      PROVE  PromptIsLast' /\ StartIsOpened' /\ LiveIsOpen'
  <2>1. PromptIsLast /\ StartIsOpened /\ LiveIsOpen
    BY <1>1, <1>2 DEF GapInv
  <2>2. PromptIsLast'
    <3> SUFFICES ASSUME NEW i \in DOMAIN cmds', NEW j \in DOMAIN cmds', i < j, Prompts(cmds'[i], view.turn)
                 PROVE  cmds'[j].type # "session.close"
      BY <1>2 DEF PromptIsLast
    <3>1. i \in Nat /\ j \in Nat
      <4>1. cmds' \in Seq(Commands)
        BY TabKeepsTypes DEF TabOpen
      <4> QED
        BY <4>1
    <3>2. i \in DOMAIN cmds
      BY <1>1, <3>1 DEF CmdsKept
    <3> QED
      BY <1>1, <1>2, <2>1, <3>1, <3>2 DEF CmdsKept, PromptIsLast
  <2>3. StartIsOpened'
    BY <1>1, <1>2, <2>1 DEF StartIsOpened
  <2> QED
    BY <1>2, <2>1, <2>2, <2>3 DEF LiveIsOpen, IsLive
<1>3. ASSUME NEW t \in Turns, Begins(t), view'.of = view.of, view.of \in Sessions, view'.turn = t
      PROVE  PromptIsLast' /\ StartIsOpened' /\ LiveIsOpen'
  <2>1. view'.of # NoSession
    BY <1>3, NullSession
  <2>2. ~IsWaiting(t)
    <3>1. prompted[t] = 0
      BY <1>3 DEF Begins
    <3>2. \A s \in Sessions : ~Waiting(t, s)
      BY <3>1 DEF HomeInv, FreshInv, IsHome
    <3> QED
      BY <3>2, WaitingIs
  <2>3. PromptIsLast'
    <3> SUFFICES ASSUME NEW i \in DOMAIN cmds', NEW j \in DOMAIN cmds', i < j, Prompts(cmds'[i], t)
                 PROVE  FALSE
      BY <1>3 DEF PromptIsLast
    <3>1. i \in Nat /\ j \in Nat
      <4>1. cmds' \in Seq(Commands)
        BY TabKeepsTypes DEF TabOpen
      <4> QED
        BY <4>1
    <3>2. i \notin DOMAIN cmds
      BY <1>1, <2>2 DEF IsWaiting, CmdsKept
    <3> QED
      BY <1>1, <3>1, <3>2 DEF CmdsKept
  <2> QED
    BY <2>1, <2>3 DEF StartIsOpened, LiveIsOpen
<1> QED
  BY <1>1, <1>2, <1>3 DEF TurnKept

LEMMA StepKeepsGap ==
  ASSUME Types, LinkInv, HomeInv, SeatInv, GapInv, TabKinds \/ ServerKinds
  PROVE  GapInv'
<1>1. CASE link' # "open"
  BY <1>1 DEF GapInv
<1>2. CASE Joins
  <2>1. DOMAIN wire' = {} /\ DOMAIN cmds' = {} /\ ~IsLive(view')
    BY <1>2, JoinsAfresh
  <2> QED
    BY <2>1 DEF GapInv, PromptIsLast, StartIsOpened, LiveIsOpen
<1>3. CASE link = "open" /\ (ServerKinds \/ Receives \/ TabOpen)
  BY <1>3, ServerKeepsGap, ReceiveKeepsGap, TabKeepsGap
<1> QED
  BY <1>1, <1>2, <1>3, OpenSteps

LEMMA ServerKeepsStarts ==
  ASSUME Types, HomeInv, StartInv, link = "open", ServerKinds
  PROVE  StartInv'
<1>1. Extends
  BY ServerWire
<1>2. \A i \in DOMAIN wire : wire[i] \in Frames
  BY DEF Types
<1>3. \A i \in DOMAIN wire : wire[i].type = "turn.started" => wire[i].of \in Turns
  <2>1. "turn.started" \in TurnFrames
    BY DEF TurnFrames
  <2> QED
    BY <1>2, <2>1, FrameFacts
<1>4. \A i \in DOMAIN wire : IsGone(wire[i]) => wire[i].of \in Sessions
  BY <1>2, FrameFacts
<1>5. \A s \in Sessions, t \in Turns : LogHas(s, t) => LogHas(s, t)'
  BY LogHasAfter
<1>6. srv.turn \in Turns => srv.of \in Sessions /\ LogHas(srv.of, srv.turn)
  <2>1. srv.turn \in Turns => srv.of \in Sessions
    BY NullTurn DEF Types
  <2> QED
    BY <2>1 DEF HomeInv, RunsAtHome
<1>7. SUFFICES ASSUME NEW i \in DOMAIN wire', wire'[i].type = "turn.started" PROVE StartIsTrue(i)'
  BY DEF StartInv
<1>8. CASE FreshAt(i)
  <2>1. wire'[i].of \in Turns /\ Runs(wire'[i].of)
    BY <1>7, <1>8, ServerTurns
  <2>2. srv'.turn = wire'[i].of
    BY <2>1, ServerTurns
  <2> QED
    BY <2>2 DEF StartIsTrue
<1>9. CASE i \in DOMAIN wire
  <2>1. wire'[i] = wire[i] /\ wire[i].of \in Turns /\ StartIsTrue(i) /\ i <= Len(wire) /\ i \in Nat
    BY <1>1, <1>3, <1>7, <1>9 DEF StartInv, Extends
  <2>2. CASE srv.turn = wire[i].of
    <3>1. srv.of \in Sessions /\ LogHas(srv.of, srv.turn) /\ srv.turn \in Turns /\ srv.turn # NoTurn
      BY <1>6, <2>1, <2>2, NullTurn
    <3>2. CASE srv'.turn = srv.turn
      BY <2>1, <2>2, <3>2 DEF StartIsTrue
    <3>3. ASSUME FreshAt(Last1) PROVE i < Last1 /\ Last1 \in DOMAIN wire'
      BY <1>1, <2>1, <3>3 DEF FreshAt, Last1, Extends
    <3>4. CASE Stops
      <4>1. FreshAt(Last1) /\ IsEnd(wire'[Last1], srv.turn)
        BY <3>4 DEF Stops, IsEnd
      <4> QED
        BY <2>1, <2>2, <3>3, <4>1 DEF StartIsTrue, IsEnd
    <3>5. CASE Rises
      <4>1. FreshAt(Last1) /\ IsGone(wire'[Last1]) /\ wire'[Last1].of = srv.of
        BY <3>5 DEF Rises
      <4>2. \E k \in DOMAIN log'[srv.of] : IsAbout(log'[srv.of][k], srv.turn)
        BY <1>5, <3>1 DEF LogHas
      <4> QED
        BY <2>1, <2>2, <3>3, <4>1, <4>2 DEF StartIsTrue, LogHas, IsGone
    <3> QED
      BY <3>1, <3>2, <3>4, <3>5, ServerTurns
  <2>3. ASSUME NEW j \in DOMAIN wire, i < j, IsEnd(wire[j], wire[i].of) PROVE StartIsTrue(i)'
    BY <1>1, <2>1, <2>3 DEF StartIsTrue, IsEnd, Extends
  <2>4. ASSUME NEW j \in DOMAIN wire, i < j, IsGone(wire[j]), LogHas(wire[j].of, wire[i].of) PROVE StartIsTrue(i)'
    <3>1. j \in DOMAIN wire' /\ wire'[j] = wire[j] /\ wire[j].of \in Sessions
      BY <1>1, <1>4, <2>4 DEF Extends
    <3>2. \E k \in DOMAIN log'[wire[j].of] : IsAbout(log'[wire[j].of][k], wire[i].of)
      BY <1>5, <2>1, <2>4, <3>1 DEF LogHas
    <3> QED
      BY <2>1, <2>4, <3>1, <3>2 DEF StartIsTrue, LogHas, IsGone
  <2> QED
    BY <2>1, <2>2, <2>3, <2>4 DEF StartIsTrue
<1> QED
  BY <1>1, <1>8, <1>9 DEF Extends, FreshAt

LEMMA StepKeepsStarts ==
  ASSUME Types, LinkInv, HomeInv, StartInv, TabKinds \/ ServerKinds
  PROVE  StartInv'
<1>1. CASE link' # "open"
  BY <1>1 DEF StartInv
<1>2. CASE Joins
  BY <1>2, JoinsAfresh DEF StartInv
<1>3. CASE link = "open" /\ TabOpen
  <2>1. UNCHANGED <<wire, srv, log>>
    BY <1>3, TabKeeps
  <2> QED
    BY <1>3, <2>1 DEF StartInv, StartIsTrue, LogHas
<1>4. CASE link = "open" /\ Receives
  <2>1. /\ \A i \in DOMAIN wire : i \in Nat \ {0}
        /\ \A i \in DOMAIN wire' : i \in Nat \ {0} /\ i + 1 \in DOMAIN wire /\ wire'[i] = wire[i + 1]
        /\ \A i \in DOMAIN wire : i # 1 => i - 1 \in DOMAIN wire' /\ wire'[i - 1] = wire[i]
        /\ UNCHANGED <<srv, log>>
    BY <1>4, WireTaken DEF Receives
  <2> SUFFICES ASSUME NEW i \in DOMAIN wire', wire'[i].type = "turn.started" PROVE StartIsTrue(i)'
    BY DEF StartInv
  <2>2. StartIsTrue(i + 1) /\ wire'[i] = wire[i + 1]
    BY <1>4, <2>1 DEF StartInv
  <2>3. ASSUME NEW j \in DOMAIN wire, i + 1 < j
        PROVE  j - 1 \in DOMAIN wire' /\ wire'[j - 1] = wire[j] /\ i < j - 1
    <3>1. j # 1 /\ i < j - 1
      BY <2>1, <2>3
    <3> QED
      BY <2>1, <3>1
  <2>4. CASE srv.turn = wire[i + 1].of
    BY <2>1, <2>2, <2>4 DEF StartIsTrue
  <2>5. ASSUME NEW j \in DOMAIN wire, i + 1 < j, IsEnd(wire[j], wire[i + 1].of) PROVE StartIsTrue(i)'
    BY <2>2, <2>3, <2>5 DEF StartIsTrue, IsEnd
  <2>6. ASSUME NEW j \in DOMAIN wire, i + 1 < j, IsGone(wire[j]), LogHas(wire[j].of, wire[i + 1].of)
        PROVE  StartIsTrue(i)'
    BY <2>1, <2>2, <2>3, <2>6 DEF StartIsTrue, IsGone, LogHas
  <2> QED
    BY <2>2, <2>4, <2>5, <2>6 DEF StartIsTrue
<1>5. CASE link = "open" /\ ServerKinds
  BY <1>5, ServerKeepsStarts
<1> QED
  BY <1>1, <1>2, <1>3, <1>4, <1>5, OpenSteps

----------------------------------------------------------------------------

(* A turn that waits or runs, in an open session, is not failed.             *)
InHand(t) == IsWaiting(t) \/ srv.turn = t
NotFailedInv ==
  link = "open" /\ view.turn # NoTurn /\ view.session = "open" /\ InHand(view.turn)
    => view.status # "error"

(* A turn in hand was not refused, and has not ended.                        *)
LEMMA InHandFacts ==
  ASSUME Types, HomeInv, NEW t \in Turns, InHand(t)
  PROVE  /\ ~RefusedHere(t)
         /\ \A i \in DOMAIN wire : ~IsEnd(wire[i], t)
         /\ srv.turn = t => srv.of \in Sessions /\ LogHas(srv.of, t) /\ ~Ended(srv.of, t)
<1>1. srv.turn = t => srv.of \in Sessions /\ LogHas(srv.of, t) /\ ~Ended(srv.of, t)
  <2>1. srv.turn = t => srv.of \in Sessions
    BY NullTurn DEF Types
  <2> QED
    BY <2>1 DEF HomeInv, RunsAtHome
<1>2. ~RefusedHere(t)
  <2>1. ASSUME RefusedHere(t) PROVE FALSE
    <3>1. \A s \in Sessions : ~LogHas(s, t) /\ ~Waiting(t, s)
      BY <2>1 DEF HomeInv, RefusedIsOut
    <3> QED
      BY <1>1, <3>1, WaitingIs DEF InHand
  <2> QED
    BY <2>1
<1>3. ASSUME NEW i \in DOMAIN wire, IsEnd(wire[i], t) PROVE FALSE
  <2>1. PICK s \in Sessions : Ended(s, t)
    BY <1>3 DEF HomeInv, FramesAreLogged, IsEnd
  <2>2. LogHas(s, t)
    BY <2>1 DEF Ended, LogHas, IsAbout, TurnFrames
  <2>3. ~IsWaiting(t)
    BY <2>2, WaitingIs DEF HomeInv, WaitsUnlogged
  <2>4. srv.turn = t
    BY <2>3 DEF InHand
  <2>5. s = srv.of
    BY <1>1, <2>2, <2>4 DEF HomeInv, OneHome, IsHome
  <2> QED
    BY <1>1, <2>1, <2>4, <2>5
<1> QED
  BY <1>1, <1>2, <1>3

LEMMA ReceiveKeepsStatus ==
  ASSUME Types, ViewInv, HomeInv, SeatInv, NotFailedInv, link = "open", Receives
  PROVE  NotFailedInv'
<1> SUFFICES ASSUME view'.turn # NoTurn, view'.session = "open", InHand(view.turn)', view'.status = "error"
             PROVE  FALSE
  BY DEF NotFailedInv
<1> DEFINE e == Head(wire)
<1>1. e \in Frames /\ e = wire[1] /\ 1 \in DOMAIN wire /\ view'.turn = view.turn
  BY ReceivedOf
<1>2. InHand(view.turn) /\ view.turn \in Turns
  <2>1. UNCHANGED <<cmds, srv>>
    BY DEF Receives
  <2> QED
    BY <1>1, <2>1 DEF InHand, IsWaiting, Types, ShapedViews
<1>3. ~(SameCore(view, view') \/ (view'.status = view.status /\ view.session = "open"))
  BY <1>1, <1>2 DEF SameCore, NotFailedInv
<1>4. CASE Coalesced(e)
  BY <1>3, <1>4, Received DEF SameCore
<1>5. CASE IsOpen(e)
  <2>1. view.of = e.of
    BY <1>5, Received DEF Blank
  <2>2. e.of # NoSession
    BY <1>5, ReceivedOf, NullSession
  <2>3. PICK j \in DOMAIN wire : j < 1
    BY <1>1, <1>5, <2>1, <2>2 DEF SeatInv, EndsFirst
  <2>4. j \in Nat \ {0}
    BY WireTaken
  <2> QED
    BY <2>3, <2>4
<1>6. CASE IsGone(e)
  BY <1>3, <1>6, Received
<1>7. CASE e.type = "session.failed"
  BY <1>7, Received
<1>8. CASE e.type = "command.result"
  <2>1. e = Refusal("session.prompt", view.prompt) /\ view.prompt \in Turns
    BY <1>3, <1>8, Received
  <2>2. view.prompt = view.turn
    BY <1>1, <2>1, NullTurn DEF ViewInv
  <2>3. RefusedHere(view.turn)
    BY <1>1, <2>1, <2>2 DEF RefusedHere
  <2> QED
    BY <1>2, <2>3, InHandFacts
<1>9. CASE e.type = "turn.started"
  BY <1>3, <1>9, Received
<1>10. CASE e.type = "turn.completed"
  <2>1. e.of = view.turn
    BY <1>3, <1>10, Received
  <2> QED
    BY <1>1, <1>2, <1>10, <2>1, InHandFacts DEF IsEnd
<1>11. CASE e.type = "session.loaded"
  BY <1>3, <1>11, Received
<1> HIDE DEF e
<1>12. \/ Coalesced(e) \/ IsOpen(e) \/ IsGone(e)
       \/ e.type \in {"session.failed", "command.result", "turn.started", "turn.completed", "session.loaded"}
  BY <1>1, FrameFacts DEF Coalesced, IsOpen, IsGone
<1> QED
  BY <1>4, <1>5, <1>6, <1>7, <1>8, <1>9, <1>10, <1>11, <1>12

(* Nothing but a prompt makes the tab wait.                                  *)
LEMMA TabWaits ==
  ASSUME Types, LinkInv, TabOpen, NEW t
  PROVE  /\ IsWaiting(t) => IsWaiting(t)'
         /\ IsWaiting(t)' => IsWaiting(t) \/ (t \in Turns /\ Begins(t))
<1>1. CmdsKept
  BY TabKeeps
<1> QED
  BY <1>1 DEF CmdsKept, IsWaiting, Prompts

LEMMA TabKeepsStatus ==
  ASSUME Types, SentInv, LinkInv, ViewInv, ViewInv', HomeInv, NotFailedInv, TabOpen
  PROVE  NotFailedInv'
<1> SUFFICES ASSUME view'.turn # NoTurn, view'.session = "open", InHand(view.turn)', view'.status = "error"
             PROVE  FALSE
  BY DEF NotFailedInv
<1>1. link = "open" /\ UNCHANGED srv /\ TurnKept
  BY TabKeeps DEF TabOpen
<1>2. /\ view'.turn = view.turn /\ view'.of = view.of
      /\ view.status = "error" \/ view.of = NoSession
      /\ view.session = "open"
  BY <1>1 DEF TurnKept
<1>3. view.status = "error" /\ view.turn \in Turns
  BY <1>2 DEF ViewInv, Types, ShapedViews
<1>4. PICK t : t = view.turn
  OBVIOUS
<1>5. IsWaiting(t)' \/ srv.turn = t
  BY <1>1, <1>2, <1>4 DEF InHand, IsWaiting
<1>6. ~Begins(t)
  <2>1. t \in Shown
    BY <1>3, <1>4, NullTurn DEF Shown
  <2> QED
    BY <1>3, <1>4, <2>1 DEF Begins, HomeInv, FreshInv
<1>7. InHand(view.turn)
  BY <1>4, <1>5, <1>6, TabWaits DEF InHand
<1> QED
  BY <1>1, <1>2, <1>3, <1>7, NullTurn DEF NotFailedInv

LEMMA StepKeepsStatus ==
  ASSUME Types, SentInv, LinkInv, ViewInv, ViewInv', HomeInv, SeatInv, NotFailedInv, TabKinds \/ ServerKinds
  PROVE  NotFailedInv'
<1>1. CASE link' # "open"
  BY <1>1 DEF NotFailedInv
<1>2. CASE Joins
  BY <1>2, JoinsAfresh DEF NotFailedInv, InHand, IsWaiting
<1>3. CASE link = "open" /\ ServerKinds
  <2>1. UNCHANGED view
    BY <1>3, ServerKindFacts DEF ServerSide
  <2>2. ASSUME NEW t \in Turns, IsWaiting(t)' \/ srv'.turn = t PROVE InHand(t)
    BY <1>3, <2>2, ServerTurns, NullTurn DEF InHand
  <2>3. PICK t : t = view.turn
    OBVIOUS
  <2>4. view.turn \in Turns /\ InHand(view.turn)' => InHand(view.turn)
    <3>1. InHand(view.turn)' => IsWaiting(t)' \/ srv'.turn = t
      BY <2>1, <2>3 DEF InHand, IsWaiting
    <3> QED
      BY <2>2, <2>3, <3>1
  <2>5. view.turn # NoTurn => view.turn \in Turns
    BY DEF Types, ShapedViews
  <2> QED
    BY <1>3, <2>1, <2>4, <2>5 DEF NotFailedInv
<1>4. CASE link = "open" /\ (Receives \/ TabOpen)
  BY <1>4, ReceiveKeepsStatus, TabKeepsStatus
<1> QED
  BY <1>1, <1>2, <1>3, <1>4, OpenSteps

----------------------------------------------------------------------------
(* The turn the server runs is shown as running                              *)

Calm(e) == e.type \in {"turn.delta", "tool.updated", "command.result"}
CalmFrom(i) == \A j \in DOMAIN wire : i < j => Calm(wire[j])

(* It is on the way, or has been shown to start, and nothing else is coming. *)
RunsShown ==
  \/ \E i \in DOMAIN wire : IsStart(wire[i], view.turn) /\ CalmFrom(i)
  \/ (\A j \in DOMAIN wire : Calm(wire[j])) /\ IsLive(view) /\ view.of = srv.of /\ view.prompt = NoTurn
(* A turn that runs is shown as running, or will be.                         *)
RunsInv == link = "open" /\ view.turn # NoTurn /\ srv.turn = view.turn => RunsShown

LEMMA ServerKeepsRuns ==
  ASSUME Types, RunsInv, link = "open", ServerKinds
  PROVE  RunsInv'
<1>1. UNCHANGED view /\ Extends
  BY ServerKindFacts, ServerWire DEF ServerSide
<1> SUFFICES ASSUME view.turn # NoTurn, srv'.turn = view.turn PROVE RunsShown'
  BY <1>1 DEF RunsInv
<1>2. /\ \A i \in DOMAIN wire : i \in DOMAIN wire' /\ wire'[i] = wire[i] /\ i <= Len(wire) /\ i \in Nat
      /\ \A i \in DOMAIN wire' : i \in Nat /\ (i \in DOMAIN wire \/ FreshAt(i)) /\ (FreshAt(i) => i > Len(wire))
      /\ Len(wire) \in Nat
  BY <1>1 DEF Extends, FreshAt
<1>3. CASE srv'.turn = srv.turn
  <2>1. RunsShown
    BY <1>3 DEF RunsInv
  <2>2. srv.of \in Sessions /\ srv.turn \in Turns
    BY <1>3, NullTurn DEF Types
  <2>3. \A i : FreshAt(i) => Calm(wire'[i])
    <3>1. CASE SaysNo
      BY <2>2, <3>1, NullSession DEF SaysNo, Calm
    <3>2. CASE Talks
      BY <3>2 DEF Talks, Calm
    <3>3. ~Stops /\ ~Rises /\ (\A s \in Sessions : ~Sits(s))
      BY <1>3 DEF Stops, Rises, Sits, NoConnection
    <3>4. \A t \in Turns : ~Runs(t)
      BY <1>3, NullTurn, ServerTurns
    <3> QED
      BY <3>1, <3>2, <3>3, <3>4, ServerWire
  <2>4. srv'.of = srv.of
    BY <1>3, <2>2, NullSession, ServerSays DEF Rises, NoConnection
  <2>5. ASSUME NEW i \in DOMAIN wire, IsStart(wire[i], view.turn), CalmFrom(i) PROVE RunsShown'
    <3>1. CalmFrom(i)'
      BY <1>2, <2>3, <2>5 DEF CalmFrom, Calm
    <3> QED
      BY <1>1, <1>2, <2>5, <3>1 DEF RunsShown, IsStart
  <2>6. ASSUME \A j \in DOMAIN wire : Calm(wire[j]), IsLive(view), view.of = srv.of, view.prompt = NoTurn
        PROVE  RunsShown'
    <3>1. \A j \in DOMAIN wire' : Calm(wire'[j])
      BY <1>2, <2>3, <2>6
    <3> QED
      BY <1>1, <2>4, <2>6, <3>1 DEF RunsShown, Calm, IsLive
  <2> QED
    BY <2>1, <2>5, <2>6 DEF RunsShown
<1>4. CASE srv.turn = NoTurn /\ srv'.turn \in Turns /\ Runs(srv'.turn)
  <2>1. Runs(view.turn)
    BY <1>4
  <2>2. FreshAt(Last1) /\ wire'[Last1] = Started(view.turn) /\ \A i : FreshAt(i) => i = Last1
    BY <2>1 DEF Runs
  <2>3. PICK k : k = Last1
    OBVIOUS
  <2>4. Last1 \in DOMAIN wire' /\ \A j \in DOMAIN wire' : ~(Last1 < j)
    BY <1>2, <2>2 DEF FreshAt, Last1
  <2>5. CalmFrom(k)'
    BY <2>3, <2>4 DEF CalmFrom
  <2>6. k \in DOMAIN wire' /\ IsStart(wire'[k], view.turn)
    BY <2>2, <2>3, <2>4, MadeTypes DEF IsStart
  <2> QED
    BY <1>1, <2>5, <2>6 DEF RunsShown, IsStart
<1> QED
  BY <1>3, <1>4, ServerTurns

LEMMA ReceiveKeepsRuns ==
  ASSUME Types, ViewInv, HomeInv, SeatInv, GapInv, RunsInv, link = "open", Receives
  PROVE  RunsInv'
<1> SUFFICES ASSUME view'.turn # NoTurn, srv.turn = view'.turn PROVE RunsShown'
  BY DEF RunsInv, Receives
<1>1. /\ Head(wire) = wire[1] /\ 1 \in DOMAIN wire
      /\ \A i \in DOMAIN wire : i \in Nat \ {0} /\ wire[i] \in Frames
      /\ \A i \in DOMAIN wire' : i \in Nat \ {0} /\ i + 1 \in DOMAIN wire /\ wire'[i] = wire[i + 1]
      /\ \A i \in DOMAIN wire : i # 1 => i - 1 \in DOMAIN wire' /\ wire'[i - 1] = wire[i]
      /\ UNCHANGED srv
  BY WireTaken DEF Receives
<1>2. view'.turn = view.turn /\ srv.turn = view.turn /\ RunsShown
  BY ReceivedOf DEF RunsInv
<1>3. /\ srv.of \in Sessions /\ srv.turn \in Turns
      /\ LogHas(srv.of, srv.turn)
  <2>1. srv.of \in Sessions /\ srv.turn \in Turns
    BY NullTurn DEF Types
  <2> QED
    BY <2>1 DEF HomeInv, RunsAtHome
<1>4. ASSUME NEW i \in DOMAIN wire, IsStart(wire[i], view.turn), CalmFrom(i), i # 1 PROVE RunsShown'
  <2>1. PICK k : k = i - 1
    OBVIOUS
  <2>2. k \in DOMAIN wire' /\ wire'[k] = wire[i]
    BY <1>1, <1>4, <2>1
  <2>3. ASSUME NEW j \in DOMAIN wire', k < j PROVE Calm(wire'[j])
    <3>1. i < j + 1 /\ j + 1 \in DOMAIN wire /\ wire'[j] = wire[j + 1]
      BY <1>1, <2>1, <2>3
    <3> QED
      BY <1>4, <3>1 DEF CalmFrom
  <2>4. CalmFrom(k)'
    BY <2>3 DEF CalmFrom, Calm
  <2> QED
    BY <1>2, <1>4, <2>2, <2>4 DEF RunsShown, IsStart
<1>5. ASSUME IsStart(wire[1], view.turn), CalmFrom(1) PROVE RunsShown'
  <2>1. \A j \in DOMAIN wire : j # 1 => Calm(wire[j])
    <3> SUFFICES ASSUME NEW j \in DOMAIN wire, j # 1 PROVE 1 < j
      BY <1>5 DEF CalmFrom
    <3> QED
      BY <1>1
  <2>2. \A j \in DOMAIN wire' : Calm(wire'[j])
    <3> SUFFICES ASSUME NEW j \in DOMAIN wire' PROVE j + 1 # 1 /\ j + 1 \in DOMAIN wire /\ wire'[j] = wire[j + 1]
      BY <2>1
    <3> QED
      BY <1>1
  <2>3. view'.of = view.of /\ view'.status = "running" /\ view'.prompt = NoTurn
    BY <1>1, <1>5, Received DEF IsStart
  <2>4. view.of = srv.of
    <3>1. \A j \in DOMAIN wire : ~IsOpen(wire[j])
      BY <1>5, <2>1 DEF Calm, IsOpen, IsStart
    <3>2. CASE view.of = NoSession
      BY <1>1, <1>2, <1>5, <3>1, <3>2 DEF GapInv, StartIsOpened
    <3>3. CASE view.of # NoSession
      <4>1. view.turn \in Shown
        BY <1>2 DEF Shown
      <4> QED
        BY <1>2, <1>3, <3>3, <4>1 DEF HomeInv, ShownInv, IsHome
    <3> QED
      BY <3>2, <3>3
  <2> QED
    BY <1>1, <2>2, <2>3, <2>4 DEF RunsShown, IsLive, Calm
<1>6. ASSUME \A j \in DOMAIN wire : Calm(wire[j]), IsLive(view), view.of = srv.of, view.prompt = NoTurn
      PROVE  RunsShown'
  <2>1. SameCore(view, view')
    <3>1. CASE Coalesced(wire[1])
      BY <1>1, <3>1, Received DEF SameCore
    <3>2. CASE wire[1].type = "command.result"
      <4>1. view.session # "opening"
        BY <1>3, <1>6, NullSession DEF ViewInv
      <4>2. view.prompt \notin Turns
        BY <1>6, NullTurn
      <4> QED
        BY <1>1, <3>2, <4>1, <4>2, Received
    <3> QED
      BY <1>1, <1>6, <3>1, <3>2 DEF Calm, Coalesced
  <2>2. \A j \in DOMAIN wire' : Calm(wire'[j])
    BY <1>1, <1>6
  <2> QED
    BY <1>1, <1>6, <2>1, <2>2 DEF RunsShown, IsLive, Calm, SameCore
<1> QED
  BY <1>2, <1>4, <1>5, <1>6 DEF RunsShown

LEMMA TabKeepsRuns ==
  ASSUME Types, SentInv, LinkInv, HomeInv, RunsInv, TabOpen
  PROVE  RunsInv'
<1>1. link = "open" /\ UNCHANGED <<wire, srv>> /\ TurnKept
  BY TabKeeps DEF TabOpen
<1> SUFFICES ASSUME view'.turn # NoTurn, srv.turn = view'.turn PROVE RunsShown'
  BY <1>1 DEF RunsInv
<1>2. srv.of \in Sessions /\ srv.turn \in Turns
  BY NullTurn DEF Types
<1>3. ASSUME NEW t \in Turns, Begins(t), view'.turn = t PROVE FALSE
  <2>1. LogHas(srv.of, t)
    BY <1>2, <1>3 DEF HomeInv, RunsAtHome
  <2>2. prompted[t] = 0
    BY <1>3 DEF Begins
  <2> QED
    BY <1>2, <2>1, <2>2 DEF HomeInv, FreshInv, IsHome
<1>4. /\ view'.turn = view.turn /\ view'.prompt = view.prompt /\ view'.of = view.of
      /\ IsLive(view) => IsLive(view') \/ view.of = NoSession
  BY <1>1, <1>3 DEF TurnKept
<1>5. RunsShown
  BY <1>1, <1>4 DEF RunsInv
<1>6. ASSUME NEW i \in DOMAIN wire, IsStart(wire[i], view.turn), CalmFrom(i) PROVE RunsShown'
  BY <1>1, <1>4, <1>6 DEF RunsShown, IsStart, CalmFrom
<1>7. ASSUME \A j \in DOMAIN wire : Calm(wire[j]), IsLive(view), view.of = srv.of, view.prompt = NoTurn
      PROVE  RunsShown'
  <2>1. IsLive(view') /\ view'.of = srv.of /\ view'.prompt = NoTurn
    BY <1>2, <1>4, <1>7, NullSession
  <2> QED
    BY <1>1, <1>7, <2>1 DEF RunsShown, IsLive, Calm
<1> QED
  BY <1>5, <1>6, <1>7 DEF RunsShown

LEMMA StepKeepsRuns ==
  ASSUME Types, SentInv, LinkInv, ViewInv, HomeInv, SeatInv, GapInv, RunsInv, TabKinds \/ ServerKinds
  PROVE  RunsInv'
<1>1. CASE link' # "open"
  BY <1>1 DEF RunsInv
<1>2. CASE Joins
  BY <1>2, JoinsAfresh DEF RunsInv
<1>3. CASE link = "open" /\ (ServerKinds \/ Receives \/ TabOpen)
  BY <1>3, ServerKeepsRuns, ReceiveKeepsRuns, TabKeepsRuns
<1> QED
  BY <1>1, <1>2, <1>3, OpenSteps

----------------------------------------------------------------------------
(* What is shown as running runs, or its start or its end is on the way      *)

LiveFor ==
  \/ IsWaiting(view.turn) /\ view.prompt = view.turn
  \/ RefusedHere(view.turn) /\ view.prompt = view.turn
  \/ srv.turn = view.turn
  \/ \E i \in DOMAIN wire : IsEnd(wire[i], view.turn)
  \/ \E i \in DOMAIN wire : IsGone(wire[i]) /\ wire[i].of = view.of
(* A turn shown as running has something that will end it.                   *)
LiveInv == link = "open" /\ view.turn # NoTurn /\ IsLive(view) => LiveFor

LEMMA ServerKeepsLive ==
  ASSUME Types, HomeInv, GapInv, LiveInv, link = "open", ServerKinds
  PROVE  LiveInv'
<1>1. UNCHANGED view /\ Extends
  BY ServerKindFacts, ServerWire DEF ServerSide
<1> SUFFICES ASSUME view.turn # NoTurn, IsLive(view) PROVE LiveFor'
  BY <1>1 DEF LiveInv
<1>2. /\ \A i \in DOMAIN wire : i \in DOMAIN wire' /\ wire'[i] = wire[i]
      /\ FreshAt(Last1) => Last1 \in DOMAIN wire'
      /\ LiveFor /\ view.turn \in Turns
  BY <1>1 DEF Extends, FreshAt, LiveInv, Types, ShapedViews
<1>3. PICK t \in Turns : t = view.turn
  BY <1>2
<1>4. ASSUME IsWaiting(t), view.prompt = t PROVE LiveFor'
  <2>1. CASE IsWaiting(t)'
    BY <1>1, <1>3, <1>4, <2>1 DEF LiveFor, IsWaiting
  <2>2. CASE Runs(t)
    <3>1. srv'.turn = t
      BY <2>2, ServerTurns
    <3> QED
      BY <1>1, <1>3, <3>1 DEF LiveFor
  <2>3. CASE FreshAt(Last1) /\ wire'[Last1] = Refusal("session.prompt", t)
    <3>1. RefusedHere(t)'
      BY <1>2, <2>3 DEF RefusedHere
    <3> QED
      BY <1>1, <1>3, <1>4, <3>1 DEF LiveFor, RefusedHere
  <2> QED
    BY <1>4, <2>1, <2>2, <2>3, ServerTurns
<1>5. ASSUME RefusedHere(t), view.prompt = t PROVE LiveFor'
  <2>1. RefusedHere(t)'
    BY <1>2, <1>5 DEF RefusedHere
  <2> QED
    BY <1>1, <1>3, <1>5, <2>1 DEF LiveFor, RefusedHere
<1>6. ASSUME srv.turn = t PROVE LiveFor'
  <2>1. CASE srv'.turn = srv.turn
    BY <1>1, <1>3, <1>6, <2>1 DEF LiveFor
  <2>2. CASE Stops
    <3>1. FreshAt(Last1) /\ IsEnd(wire'[Last1], t)
      BY <1>6, <2>2 DEF Stops, IsEnd
    <3>2. \E i \in DOMAIN wire' : IsEnd(wire'[i], t)
      BY <1>2, <3>1
    <3> QED
      BY <1>1, <1>3, <3>2 DEF LiveFor, IsEnd
  <2>3. CASE Rises
    <3>1. FreshAt(Last1) /\ IsGone(wire'[Last1]) /\ wire'[Last1].of = srv.of /\ srv.of \in Sessions
      BY <2>3 DEF Rises
    <3>2. view.of = srv.of
      <4>1. view.of # NoSession
        BY DEF GapInv, LiveIsOpen
      <4>2. LogHas(srv.of, t) /\ t \in Shown
        BY <1>3, <1>6, <3>1 DEF HomeInv, RunsAtHome, Shown
      <4> QED
        BY <3>1, <4>1, <4>2 DEF HomeInv, ShownInv, IsHome
    <3>3. \E i \in DOMAIN wire' : IsGone(wire'[i]) /\ wire'[i].of = view.of
      BY <1>2, <3>1, <3>2
    <3> QED
      BY <1>1, <3>3 DEF LiveFor, IsGone
  <2> QED
    BY <1>3, <1>6, <2>1, <2>2, <2>3, ServerTurns
<1>7. ASSUME NEW i \in DOMAIN wire, IsEnd(wire[i], t) PROVE LiveFor'
  BY <1>1, <1>2, <1>3, <1>7 DEF LiveFor, IsEnd
<1>8. ASSUME NEW i \in DOMAIN wire, IsGone(wire[i]), wire[i].of = view.of PROVE LiveFor'
  BY <1>1, <1>2, <1>8 DEF LiveFor, IsGone
<1> QED
  BY <1>2, <1>3, <1>4, <1>5, <1>6, <1>7, <1>8 DEF LiveFor

LEMMA ReceiveKeepsLive ==
  ASSUME Types, ViewInv, HomeInv, GapInv, StartInv, LiveInv, link = "open", Receives
  PROVE  LiveInv'
<1> SUFFICES ASSUME view'.turn # NoTurn, IsLive(view') PROVE LiveFor'
  BY DEF LiveInv
<1>1. /\ Head(wire) = wire[1] /\ 1 \in DOMAIN wire
      /\ \A i \in DOMAIN wire : i \in Nat \ {0} /\ wire[i] \in Frames
      /\ \A i \in DOMAIN wire : i # 1 => i - 1 \in DOMAIN wire' /\ wire'[i - 1] = wire[i]
      /\ UNCHANGED <<srv, cmds>>
  BY WireTaken DEF Receives
<1>2. /\ view'.turn = view.turn /\ view'.of = view.of
      /\ ~(IsGone(wire[1]) /\ wire[1].of = view.of)
      /\ ~IsEnd(wire[1], view.turn)
      /\ wire[1] # Refusal("session.prompt", view.prompt)
      /\ IsStart(wire[1], view.turn) \/ (IsLive(view) /\ view'.prompt = view.prompt)
  BY <1>1, ReceivedLive DEF IsEnd, IsStart
<1>3. view.turn \in Turns
  BY <1>2 DEF Types, ShapedViews
<1>4. ASSUME NEW i \in DOMAIN wire, IsEnd(wire[i], view.turn) PROVE LiveFor'
  BY <1>1, <1>2, <1>4 DEF LiveFor, IsEnd
<1>5. ASSUME NEW i \in DOMAIN wire, IsGone(wire[i]), wire[i].of = view.of PROVE LiveFor'
  BY <1>1, <1>2, <1>5 DEF LiveFor, IsGone
<1>6. ASSUME srv.turn = view.turn PROVE LiveFor'
  BY <1>1, <1>2, <1>6 DEF LiveFor
<1>7. CASE IsStart(wire[1], view.turn)
  <2>1. StartIsTrue(1)
    BY <1>1, <1>7 DEF StartInv, IsStart
  <2>2. ASSUME NEW j \in DOMAIN wire, IsGone(wire[j]), LogHas(wire[j].of, view.turn)
        PROVE  LiveFor'
    <3>1. wire[j].of \in Sessions
      BY <1>1, <2>2, FrameFacts
    <3>2. view.of # NoSession
      <4>1. \A k \in DOMAIN wire : ~(k < 1)
        BY <1>1
      <4> QED
        BY <1>1, <1>2, <1>7, <4>1 DEF GapInv, StartIsOpened
    <3>3. wire[j].of = view.of
      <4>1. view.turn \in Shown
        BY <1>2 DEF Shown
      <4> QED
        BY <1>3, <2>2, <3>1, <3>2, <4>1 DEF HomeInv, ShownInv, IsHome
    <3> QED
      BY <1>5, <2>2, <3>3
  <2> QED
    BY <1>4, <1>6, <1>7, <2>1, <2>2 DEF StartIsTrue, IsStart
<1>8. CASE IsLive(view) /\ view'.prompt = view.prompt
  <2>1. LiveFor
    BY <1>2, <1>8 DEF LiveInv
  <2>2. ASSUME IsWaiting(view.turn), view.prompt = view.turn PROVE LiveFor'
    BY <1>1, <1>2, <1>8, <2>2 DEF LiveFor, IsWaiting
  <2>3. ASSUME RefusedHere(view.turn), view.prompt = view.turn PROVE LiveFor'
    <3>1. PICK i \in DOMAIN wire : wire[i] = Refusal("session.prompt", view.turn)
      BY <2>3 DEF RefusedHere
    <3>2. i # 1
      BY <1>2, <2>3, <3>1
    <3> QED
      BY <1>1, <1>2, <1>8, <2>3, <3>1, <3>2 DEF LiveFor, RefusedHere
  <2> QED
    BY <1>4, <1>5, <1>6, <2>1, <2>2, <2>3 DEF LiveFor
<1> QED
  BY <1>2, <1>7, <1>8

LEMMA TabKeepsLive ==
  ASSUME Types, LinkInv, LiveInv, TabOpen
  PROVE  LiveInv'
<1>1. link = "open" /\ UNCHANGED <<wire, srv>> /\ TurnKept
  BY TabKeeps DEF TabOpen
<1> SUFFICES ASSUME view'.turn # NoTurn, IsLive(view') PROVE LiveFor'
  BY <1>1 DEF LiveInv
<1>2. PICK t : t = view'.turn
  OBVIOUS
<1>3. CASE \E u \in Turns : /\ view'.turn = u /\ view'.prompt = u
                            /\ \E i \in DOMAIN cmds' : cmds'[i].type = "session.prompt" /\ cmds'[i].arg = u
  BY <1>3 DEF LiveFor, IsWaiting, Prompts
<1>4. CASE view'.turn = view.turn /\ view'.prompt = view.prompt /\ view'.of = view.of /\ IsLive(view)
  <2>1. LiveFor
    BY <1>1, <1>4 DEF LiveInv
  <2>2. IsWaiting(t) => IsWaiting(t)'
    BY TabWaits
  <2>3. IsWaiting(t)' => IsWaiting(view.turn)'
    BY <1>2 DEF IsWaiting
  <2> QED
    BY <1>1, <1>2, <1>4, <2>1, <2>2, <2>3 DEF LiveFor, RefusedHere
<1> QED
  BY <1>1, <1>3, <1>4 DEF TurnKept

LEMMA StepKeepsLive ==
  ASSUME Types, LinkInv, ViewInv, HomeInv, GapInv, StartInv, LiveInv, TabKinds \/ ServerKinds
  PROVE  LiveInv'
<1>1. CASE link' # "open"
  BY <1>1 DEF LiveInv
<1>2. CASE Joins
  BY <1>2, JoinsAfresh DEF LiveInv
<1>3. CASE link = "open" /\ (ServerKinds \/ Receives \/ TabOpen)
  BY <1>3, ServerKeepsLive, ReceiveKeepsLive, TabKeepsLive
<1> QED
  BY <1>1, <1>2, <1>3, OpenSteps

----------------------------------------------------------------------------

AgreeInv == SeatInv /\ GapInv /\ StartInv /\ NotFailedInv /\ RunsInv /\ LiveInv

LEMMA AgreeInvariant == Spec => [](CoreInv /\ AgreeInv)
<1>1. Init => AgreeInv
  BY DEF Init, AgreeInv, SeatInv, GapInv, StartInv, NotFailedInv, RunsInv, LiveInv
<1>2. CoreInv /\ CoreInv' /\ AgreeInv /\ [Next]_vars => AgreeInv'
  <2> SUFFICES ASSUME CoreInv, ViewInv', AgreeInv, [Next]_vars PROVE AgreeInv'
    BY DEF CoreInv
  <2>1. Types /\ GateInv /\ SentInv /\ LinkInv /\ ViewInv /\ HomeInv
    BY DEF CoreInv
  <2>2. TabKinds \/ ServerKinds
    BY <2>1, StepReduces DEF Steps, TabKinds, ServerKinds
  <2>3. SeatInv' /\ GapInv' /\ StartInv'
    BY <2>1, <2>2, StepKeepsSeats, StepKeepsGap, StepKeepsStarts DEF AgreeInv
  <2>4. NotFailedInv' /\ RunsInv' /\ LiveInv'
    BY <2>1, <2>2, StepKeepsStatus, StepKeepsRuns, StepKeepsLive DEF AgreeInv
  <2> QED
    BY <2>3, <2>4 DEF AgreeInv
<1> QED
  BY <1>1, <1>2, CoreInvariant, PTL DEF Spec

(* A turn the server runs in an open session never reads as failed           *)
(* (reducer.ts, command.result): a refusal fails only the turn whose prompt  *)
(* it names, that prompt is then nowhere any more, and a session on screen   *)
(* is not opened anew before it has ended.                                   *)
THEOREM RunningTurnsShow == Spec => []RunningTurnIsNotFailed
<1>1. AgreeInv => RunningTurnIsNotFailed
  BY DEF AgreeInv, NotFailedInv, InHand, RunningTurnIsNotFailed
<1> QED
  BY <1>1, AgreeInvariant, PTL

(* When nothing is on its way, tab and server agree on the session, and on   *)
(* whether the turn on screen runs (useK5Socket.ts, App.tsx).                *)
THEOREM QuietIsAgreed == Spec => []AgreesWhenQuiet
<1>1. AgreeInv => AgreesWhenQuiet
  <2> SUFFICES ASSUME AgreeInv, link = "open", wire = <<>>, cmds = <<>>
               PROVE  /\ srv.of # NoSession => view.of = srv.of
                      /\ view.turn # NoTurn => (IsLive(view) <=> srv.turn = view.turn)
    BY DEF AgreesWhenQuiet, Quiet
  <2>1. DOMAIN wire = {} /\ DOMAIN cmds = {}
    OBVIOUS
  <2>2. srv.of # NoSession => view.of = srv.of
    BY <2>1 DEF AgreeInv, SeatInv, SeatShown
  <2>3. view.turn # NoTurn /\ IsLive(view) => srv.turn = view.turn
    BY <2>1 DEF AgreeInv, LiveInv, LiveFor, IsWaiting, RefusedHere
  <2>4. view.turn # NoTurn /\ srv.turn = view.turn => IsLive(view)
    BY <2>1 DEF AgreeInv, RunsInv, RunsShown
  <2> QED
    BY <2>2, <2>3, <2>4 DEF IsLive
<1> QED
  BY <1>1, AgreeInvariant, PTL

----------------------------------------------------------------------------
(* The texts: what a log says of a turn                                      *)

(* A log that grows by nothing a turn says has said the same of it.          *)
LEMMA CountSame ==
  ASSUME NEW l \in Seq(Frames), NEW r \in Seq(Frames), NEW t \in Turns,
         \A i \in DOMAIN l : i \in DOMAIN r /\ r[i] = l[i],
         \A i \in DOMAIN r : i \in DOMAIN l \/ ~(r[i].type = "turn.delta" /\ r[i].of = t)
  PROVE  SaidAt(r, t, "turn.delta") = SaidAt(l, t, "turn.delta") /\ Count(r, t) = Count(l, t)
<1>1. ASSUME NEW i PROVE i \in SaidAt(r, t, "turn.delta") <=> i \in SaidAt(l, t, "turn.delta")
  BY DEF SaidAt
<1>2. SaidAt(r, t, "turn.delta") = SaidAt(l, t, "turn.delta")
  BY <1>1
<1> QED
  BY <1>2 DEF Count

LEMMA CountTyped ==
  ASSUME NEW X, NEW l \in Seq(X), NEW t
  PROVE  /\ IsFiniteSet(SaidAt(l, t, "turn.delta")) /\ Count(l, t) \in Nat
         /\ Count(l, t) > 0 => \E i \in DOMAIN l : l[i].type = "turn.delta" /\ l[i].of = t
<1>1. Len(l) \in Nat /\ SaidAt(l, t, "turn.delta") \in SUBSET (1..Len(l))
  BY SaidPlaces
<1>2. IsFiniteSet(1..Len(l))
  BY <1>1, FS_Interval
<1>3. IsFiniteSet(SaidAt(l, t, "turn.delta"))
  BY <1>1, <1>2, FS_Subset
<1>4. Count(l, t) \in Nat /\ (Count(l, t) > 0 => SaidAt(l, t, "turn.delta") # {})
  BY <1>3, FS_CardinalityType, FS_EmptySet DEF Count
<1> QED
  BY <1>3, <1>4 DEF SaidAt

(* The chunks of one turn are numbered in their order.                       *)
InOrder(l, t) ==
  \A i \in SaidAt(l, t, "turn.delta") :
    l[i].arg = Cardinality({j \in SaidAt(l, t, "turn.delta") : j <= i})

(* One chunk more is the next in number.                                     *)
LEMMA CountOne ==
  ASSUME NEW l \in Seq(Frames), NEW e \in Frames, NEW t \in Turns, NEW r, r = Append(l, e),
         e.type = "turn.delta", e.of = t, e.arg = Count(l, t) + 1,
         InOrder(l, t)
  PROVE  Count(r, t) = Count(l, t) + 1 /\ InOrder(r, t)
<1> DEFINE old == SaidAt(l, t, "turn.delta")
           new == SaidAt(r, t, "turn.delta")
           n == Len(l) + 1
<1>1. /\ r \in Seq(Frames) /\ Len(l) \in Nat /\ Len(r) = n /\ DOMAIN l = 1..Len(l)
      /\ DOMAIN r = 1..n /\ r[n] = e /\ \A i \in DOMAIN l : r[i] = l[i]
  BY AppendedOne
<1>2. ASSUME NEW i PROVE i \in new <=> i \in old \cup {n}
  BY <1>1 DEF SaidAt
<1>3. old \subseteq 1..Len(l) /\ n \notin old
  BY <1>1 DEF SaidAt
<1>4. IsFiniteSet(old) /\ Cardinality(old) = Count(l, t) /\ Cardinality(new) = Count(r, t)
      /\ \A i \in old : l[i].arg = Cardinality({j \in old : j <= i})
  BY CountTyped DEF Count, InOrder
<1>5. new = old \cup {n}
  BY <1>2
<1> HIDE DEF old, new
<1>6. Cardinality(new) = Cardinality(old) + 1
  BY <1>3, <1>4, <1>5, FS_AddElement
<1>7. ASSUME NEW i \in new PROVE r[i].arg = Cardinality({j \in new : j <= i})
  <2>1. CASE i = n
    <3>1. {j \in new : j <= n} = new
      <4>1. \A j \in new : j <= n
        BY <1>1, <1>3, <1>5
      <4> QED
        BY <4>1
    <3> QED
      BY <1>1, <1>4, <1>6, <2>1, <3>1
  <2>2. CASE i \in old
    <3>1. {j \in new : j <= i} = {j \in old : j <= i}
      BY <1>1, <1>3, <1>5, <2>2
    <3>2. i \in DOMAIN l
      BY <1>1, <1>3, <2>2
    <3> QED
      BY <1>1, <1>4, <2>2, <3>1, <3>2
  <2> QED
    BY <1>5, <2>1, <2>2
<1> QED
  BY <1>4, <1>6, <1>7 DEF new, InOrder

(* A log has the chunks of each turn in order, and no more than the bound.   *)
LogInv == \A s \in Sessions : Numbered(log[s]) /\ \A t \in Turns : Count(log[s], t) <= MaxChunks

(* What a server step says: a chunk of its turn, the next one, or none.      *)
Chunk(n) ==
  /\ srv.of \in Sessions /\ srv.turn \in Turns
  /\ n = Count(log[srv.of], srv.turn) + 1 /\ n <= MaxChunks
  /\ log' = [log EXCEPT ![srv.of] = @ \o <<Delta(srv.turn, n)>>]
  /\ Emitted(wire', <<Delta(srv.turn, n)>>)
  /\ UNCHANGED <<cmds, srv>>
NoChunk ==
  /\ \A s \in Sessions : \A i \in DOMAIN log'[s] : i \in DOMAIN log[s] \/ log'[s][i].type # "turn.delta"
  /\ link = "open" => \A i : FreshAt(i) => wire'[i].type # "turn.delta"

LEMMA StreamIsChunk ==
  ASSUME Types, LogInv, NEW e, Streams(e), e.type = "turn.delta"
  PROVE  Chunk(e.arg)
<1>1. srv.of \in Sessions /\ srv.turn \in Turns /\ Spoken < MaxChunks /\ UNCHANGED <<cmds, srv>>
  BY DEF Streams
<1> DEFINE l == log[srv.of]
<1>2. l \in Seq(Frames) /\ Numbered(l)
  BY <1>1 DEF Types, LogInv
<1>3. e = Delta(srv.turn, Len(TextOf(l, srv.turn)) + 1)
  BY MadeTypes DEF Streams, Tool, Event
<1>4. Count(l, srv.turn) \in Nat /\ Len(TextOf(l, srv.turn)) = Count(l, srv.turn)
  <2>1. Count(l, srv.turn) \in Nat /\ TextOf(l, srv.turn) = Upto(Count(l, srv.turn))
    BY <1>1, <1>2, TextFacts
  <2> QED
    BY <2>1 DEF Upto
<1>5. Spoken \in Nat /\ Count(l, srv.turn) <= Spoken
  <2> DEFINE said == {i \in DOMAIN l : l[i].of = srv.turn /\ Coalesced(l[i])}
  <2>1. IsFiniteSet(said)
    <3>1. Len(l) \in Nat /\ DOMAIN l = 1..Len(l)
      BY <1>2
    <3>2. said \in SUBSET (1..Len(l)) /\ IsFiniteSet(1..Len(l))
      BY <3>1, FS_Interval
    <3> QED
      BY <3>2, FS_Subset
  <2>2. SaidAt(l, srv.turn, "turn.delta") \in SUBSET said
    BY DEF SaidAt, Coalesced
  <2>3. Spoken = Cardinality(said)
    BY DEF Spoken
  <2> HIDE DEF said
  <2> QED
    BY <2>1, <2>2, <2>3, FS_Subset, FS_CardinalityType DEF Count
<1>6. MaxChunks \in Nat
  BY BoundsAreNatural
<1>7. e.arg = Count(l, srv.turn) + 1 /\ e = Delta(srv.turn, e.arg)
  BY <1>3, <1>4, MadeTypes
<1>8. e.arg <= MaxChunks
  BY <1>1, <1>4, <1>5, <1>6, <1>7
<1>9. log' = [log EXCEPT ![srv.of] = @ \o <<e>>] /\ Emitted(wire', <<e>>)
  BY DEF Streams
<1> QED
  BY <1>1, <1>7, <1>8, <1>9 DEF Chunk

LEMMA ServerChunks ==
  ASSUME Types, LogInv, ServerKinds
  PROVE  NoChunk \/ \E n : Chunk(n)
<1> SUFFICES ASSUME ~\E n : Chunk(n) PROVE NoChunk
  OBVIOUS
<1>1. \A e : Streams(e) => e.type # "turn.delta"
  BY StreamIsChunk
<1>2. ASSUME NEW s \in Sessions, NEW i \in DOMAIN log'[s], i \notin DOMAIN log[s]
      PROVE  log'[s][i].type # "turn.delta"
  <2>1. Adds(s, log'[s][i])
    BY <1>2, LogAfter
  <2>2. ASSUME log'[s][i].type \notin TurnFrames PROVE log'[s][i].type # "turn.delta"
    BY <2>2 DEF TurnFrames
  <2>3. \A t : Started(t).type # "turn.delta"
    BY MadeTypes
  <2> QED
    BY <1>1, <2>1, <2>2, <2>3 DEF Adds
<1>3. ASSUME link = "open", NEW es \in Seq(Frames), wire' = wire \o es,
             \A i \in DOMAIN es : es[i].type # "turn.delta", NEW i, FreshAt(i)
      PROVE  wire'[i].type # "turn.delta"
  <2>1. i - Len(wire) \in DOMAIN es /\ wire'[i] = es[i - Len(wire)]
    BY <1>3, Extending
  <2> QED
    BY <1>3, <2>1
<1>4. ASSUME link = "open"
      PROVE  \E es \in Seq(Frames) : wire' = wire \o es /\ \A i \in DOMAIN es : es[i].type # "turn.delta"
  <2>1. ASSUME NEW es, Refuses(es) PROVE <1>4!2
    <3>1. es \in Seq(Frames) /\ \A i \in DOMAIN es : es[i].type \in {"command.result", "session.failed"}
      BY <2>1, EmitsFrames, EmitsKinds
    <3> QED
      BY <2>1, <3>1 DEF Refuses
  <2>2. ASSUME NEW s \in Sessions, NEW es, Seats(s, es) PROVE <1>4!2
    <3>1. es \in Seq(Frames) /\ DOMAIN es \in {{1}, {1, 2}} /\ es[1] = Opened(s)
          /\ \A i \in DOMAIN es : i # 1 => es[i].type = "session.loaded"
      BY <2>2, EmitsFrames, EmitsKinds
    <3> QED
      BY <2>2, <3>1, MadeTypes DEF Seats
  <2>3. ASSUME NEW t \in Turns, StartsTurn(t) PROVE <1>4!2
    <3>1. <<Started(t)>> \in Seq(Frames) /\ \A i \in DOMAIN <<Started(t)>> : <<Started(t)>>[i].type = "turn.started"
      BY <2>3, EmitsFrames, MadeTypes
    <3> QED
      BY <2>3, <3>1 DEF StartsTurn
  <2>4. ASSUME NEW e, Streams(e) PROVE <1>4!2
    <3>1. <<e>> \in Seq(Frames) /\ \A i \in DOMAIN <<e>> : <<e>>[i] = e
      BY <2>4, EmitsFrames
    <3> QED
      BY <1>1, <1>4, <2>4, <3>1 DEF Streams, Emitted
  <2>5. ASSUME NEW stop, NEW es, EndsTurn(stop, es) PROVE <1>4!2
    <3>1. es \in Seq(Frames) /\ DOMAIN es \in {{1}, {1, 2}} /\ es[1] = Completed(srv.turn, stop)
          /\ \A i \in DOMAIN es : i # 1 => es[i].type = "session.failed"
      BY <2>5, EmitsFrames, EmitsKinds
    <3>2. \A i \in DOMAIN es : es[i].type # "turn.delta"
      BY <3>1, MadeTypes
    <3>3. wire' = wire \o es
      BY <1>4, <2>5 DEF EndsTurn, Emitted
    <3> QED
      BY <3>1, <3>2, <3>3
  <2>6. ASSUME NEW es, NEW rec, Releases(es, rec) PROVE <1>4!2
    <3>1. es \in Seq(Frames) /\ \A i \in DOMAIN es : IsGone(es[i])
      BY <2>6, EmitsFrames, EmitsKinds
    <3> QED
      BY <1>4, <2>6, <3>1 DEF Releases, Emitted, IsGone
  <2> QED
    BY <2>1, <2>2, <2>3, <2>4, <2>5, <2>6 DEF ServerKinds
<1> QED
  BY <1>2, <1>3, <1>4 DEF NoChunk

(* What a step of the server does to the counts of chunks.                   *)
LEMMA NoChunkCounts ==
  ASSUME Types, LogInv, ServerKinds, NoChunk, NEW s \in Sessions
  PROVE  /\ Numbered(log'[s])
         /\ \A t \in Turns : Count(log'[s], t) = Count(log[s], t)
<1>1. /\ log[s] \in Seq(Frames) /\ log'[s] \in Seq(Frames)
      /\ \A i \in DOMAIN log[s] : i \in DOMAIN log'[s] /\ log'[s][i] = log[s][i]
  BY LogsGrow
<1>2. \A t \in Turns : /\ SaidAt(log'[s], t, "turn.delta") = SaidAt(log[s], t, "turn.delta")
                       /\ Count(log'[s], t) = Count(log[s], t)
  BY <1>1, CountSame DEF NoChunk
<1>3. ASSUME NEW t \in Turns, NEW i \in SaidAt(log'[s], t, "turn.delta")
      PROVE  log'[s][i].arg = Cardinality({j \in SaidAt(log'[s], t, "turn.delta") : j <= i})
  <2>1. i \in SaidAt(log[s], t, "turn.delta") /\ log'[s][i] = log[s][i]
    BY <1>1, <1>2, <1>3 DEF SaidAt
  <2>2. log[s][i].arg = Cardinality({j \in SaidAt(log[s], t, "turn.delta") : j <= i})
    BY <2>1 DEF LogInv, Numbered
  <2> QED
    BY <1>2, <2>1, <2>2
<1> QED
  BY <1>2, <1>3 DEF Numbered

LEMMA ChunkCounts ==
  ASSUME Types, LogInv, NEW n, Chunk(n), NEW s \in Sessions
  PROVE  /\ Numbered(log'[s])
         /\ Count(log'[srv.of], srv.turn) = n
         /\ \A t \in Turns : s # srv.of \/ t # srv.turn => Count(log'[s], t) = Count(log[s], t)
<1>1. /\ srv.of \in Sessions /\ srv.turn \in Turns /\ n = Count(log[srv.of], srv.turn) + 1
      /\ log' = [log EXCEPT ![srv.of] = @ \o <<Delta(srv.turn, n)>>]
      /\ log \in [Sessions -> Seq(Frames)]
  BY DEF Chunk, Types
<1>2. PICK e : e = Delta(srv.turn, n)
  OBVIOUS
<1>3. Count(log[srv.of], srv.turn) \in Nat
  BY <1>1, CountTyped
<1>4. e \in Frames /\ e.type = "turn.delta" /\ e.of = srv.turn /\ e.arg = n
  BY <1>1, <1>2, <1>3, FramesMade, MadeTypes
<1>5. log'[srv.of] = Append(log[srv.of], e) /\ \A r \in Sessions : r # srv.of => log'[r] = log[r]
  BY <1>1, <1>2, <1>4
<1>6. Numbered(log[srv.of]) /\ Numbered(log[s])
  BY <1>1 DEF LogInv
<1>7. PICK l, r : l = log[srv.of] /\ r = log'[srv.of]
  OBVIOUS
<1>8. l \in Seq(Frames) /\ r = Append(l, e) /\ r \in Seq(Frames)
  BY <1>1, <1>4, <1>5, <1>7
<1>9. Count(r, srv.turn) = n /\ InOrder(r, srv.turn)
  <2>1. InOrder(l, srv.turn)
    BY <1>1, <1>6, <1>7 DEF Numbered, InOrder
  <2>2. e.arg = Count(l, srv.turn) + 1
    BY <1>1, <1>4, <1>7
  <2> QED
    BY <1>1, <1>4, <1>8, <2>1, <2>2, CountOne
<1>10. ASSUME NEW t \in Turns, t # srv.turn
       PROVE  /\ Count(r, t) = Count(l, t)
              /\ \A i \in SaidAt(r, t, "turn.delta") :
                   r[i].arg = Cardinality({j \in SaidAt(r, t, "turn.delta") : j <= i})
  <2>1. /\ \A i \in DOMAIN l : i \in DOMAIN r /\ r[i] = l[i]
        /\ \A i \in DOMAIN r : i \in DOMAIN l \/ r[i] = e
    BY <1>4, <1>8, AppendedOne
  <2>2. SaidAt(r, t, "turn.delta") = SaidAt(l, t, "turn.delta") /\ Count(r, t) = Count(l, t)
    BY <1>4, <1>8, <1>10, <2>1, CountSame
  <2>3. \A i \in SaidAt(l, t, "turn.delta") : i \in DOMAIN l
    BY DEF SaidAt
  <2> QED
    BY <1>6, <1>7, <2>1, <2>2, <2>3 DEF Numbered
<1>11. Numbered(r)
  BY <1>9, <1>10 DEF Numbered, InOrder
<1>12. CASE s = srv.of
  BY <1>7, <1>9, <1>10, <1>11, <1>12
<1>13. CASE s # srv.of
  BY <1>5, <1>6, <1>7, <1>9, <1>13
<1> QED
  BY <1>12, <1>13

LEMMA ServerKeepsLogs ==
  ASSUME Types, LogInv, ServerKinds
  PROVE  /\ LogInv'
         /\ \A s \in Sessions, t \in Turns : /\ Count(log[s], t) \in Nat /\ Count(log'[s], t) \in Nat
                                             /\ Count(log[s], t) <= Count(log'[s], t)
<1>1. MaxChunks \in Nat
  BY BoundsAreNatural
<1>2. \A s \in Sessions : log[s] \in Seq(Frames) /\ log'[s] \in Seq(Frames)
  BY LogsGrow
<1>3. \A s \in Sessions, t \in Turns : Count(log[s], t) \in Nat /\ Count(log'[s], t) \in Nat
  BY <1>2, CountTyped
<1>4. CASE NoChunk
  <2>1. \A s \in Sessions : Numbered(log'[s]) /\ \A t \in Turns : Count(log'[s], t) = Count(log[s], t)
    BY <1>4, NoChunkCounts
  <2> QED
    BY <1>3, <2>1 DEF LogInv
<1>5. ASSUME NEW n, Chunk(n) PROVE LogInv' /\ \A s \in Sessions, t \in Turns : Count(log[s], t) <= Count(log'[s], t)
  <2>1. \A s \in Sessions : /\ Numbered(log'[s])
                            /\ \A t \in Turns : s # srv.of \/ t # srv.turn => Count(log'[s], t) = Count(log[s], t)
    BY <1>5, ChunkCounts
  <2>2. Count(log'[srv.of], srv.turn) = n /\ n = Count(log[srv.of], srv.turn) + 1 /\ n <= MaxChunks
        /\ srv.of \in Sessions /\ srv.turn \in Turns
    BY <1>5, ChunkCounts DEF Chunk
  <2> QED
    BY <1>3, <2>1, <2>2 DEF LogInv
<1> QED
  BY <1>3, <1>4, <1>5, ServerChunks

----------------------------------------------------------------------------
(* The texts: what is on its way to the screen                               *)

IsDelta(e, t) == e.type = "turn.delta" /\ e.of = t
(* The numbers of the chunks of t that are in a queue.                       *)
Arrive(q, t)  == {q[i].arg : i \in {j \in DOMAIN q : IsDelta(q[j], t)}}

(* The server has said so much of a turn, and nothing more.                  *)
HasBeen(t, k) == k > 0 => \E s \in Sessions : k <= Count(log[s], t)
IsAll(t, k) ==
  \A s \in Sessions : link = "open" /\ srv.of = s /\ srv.turn = t => k = Count(log[s], t)

(* What is on its way follows a text of n chunks without a gap.              *)
Follows(q, t, n) ==
  \E k \in Nat : n <= k /\ Arrive(q, t) = (n + 1)..k /\ HasBeen(t, k) /\ IsAll(t, k)

(* Chunks are in their order; nothing of a turn comes before its start, and  *)
(* a start brings the turn from the first chunk on; what comes was said.     *)
Rising(q) ==
  \A i, j \in DOMAIN q : \A t \in Turns :
    i < j /\ IsDelta(q[i], t) /\ IsDelta(q[j], t) => q[i].arg < q[j].arg
StartsFirst(q) ==
  \A i, j \in DOMAIN q : \A t \in Turns : i < j /\ IsStart(q[j], t) => ~IsAbout(q[i], t)
StartsWhole(q) ==
  \A j \in DOMAIN q : \A t \in Turns : IsStart(q[j], t) => Follows(q, t, 0)
Heard(q) == \A i \in DOMAIN q : \A t \in Turns : IsDelta(q[i], t) => HasBeen(t, q[i].arg)
Unwaited(q) == \A i \in DOMAIN q : \A t \in Turns : IsAbout(q[i], t) => ~IsWaiting(t)
(* What is on its way to the screen: the coalescer's events, then the wire.  *)
Queue(q) == Rising(q) /\ StartsFirst(q) /\ StartsWhole(q) /\ Heard(q)

(* A text is the first chunks of its turn, as many as were said at least. On *)
(* the turn on screen nothing has come before its start, and while it is not *)
(* over the next chunk is the next to come.                                  *)
Sound(e) == /\ e.text = Upto(Len(e.text)) /\ HasBeen(e.of, Len(e.text))
            /\ e.role = "user" => e.text = <<>>
ToCome(q, t) == IsWaiting(t) \/ \E j \in DOMAIN q : IsStart(q[j], t)
FitsEntry(v, q, e) ==
  /\ Sound(e)
  /\ e.role = "assistant" /\ e.of = v.turn =>
       /\ ToCome(q, e.of) => e.text = <<>>
       /\ ~IsTerminal(v) => Follows(q, e.of, Len(e.text))
Fits(v, q) == \A i \in DOMAIN v.entries : FitsEntry(v, q, v.entries[i])

LEMMA TailOfQueue ==
  ASSUME NEW q \in Seq(Frames), q # <<>>, NEW r, r = Tail(q), NEW t
  PROVE  /\ ~IsDelta(q[1], t) => Arrive(r, t) = Arrive(q, t)
         /\ IsDelta(q[1], t) => Arrive(q, t) = {q[1].arg} \cup Arrive(r, t)
         /\ t \in Turns /\ Rising(q) /\ IsDelta(q[1], t) => \A x \in Arrive(r, t) : q[1].arg < x
<1>1. /\ 1 \in DOMAIN q /\ \A i \in DOMAIN r : i + 1 \in DOMAIN q /\ r[i] = q[i + 1] /\ 1 < i + 1
      /\ \A i \in DOMAIN q : i # 1 => i - 1 \in DOMAIN r /\ r[i - 1] = q[i]
  BY Tailed
<1>2. ASSUME NEW x PROVE x \in Arrive(r, t) => x \in Arrive(q, t)
  BY <1>1 DEF Arrive
<1>3. ASSUME NEW x, x \in Arrive(q, t) PROVE x \in Arrive(r, t) \/ (IsDelta(q[1], t) /\ x = q[1].arg)
  <2>1. PICK i \in DOMAIN q : IsDelta(q[i], t) /\ x = q[i].arg
    BY <1>3 DEF Arrive
  <2>2. CASE i = 1
    BY <2>1, <2>2
  <2>3. CASE i # 1
    <3>1. i - 1 \in DOMAIN r /\ r[i - 1] = q[i]
      BY <1>1, <2>3
    <3> QED
      BY <2>1, <3>1 DEF Arrive
  <2> QED
    BY <2>2, <2>3
<1>4. ASSUME t \in Turns, Rising(q), IsDelta(q[1], t), NEW x \in Arrive(r, t) PROVE q[1].arg < x
  BY <1>1, <1>4 DEF Arrive, Rising
<1>5. ASSUME IsDelta(q[1], t) PROVE q[1].arg \in Arrive(q, t)
  BY <1>1, <1>5 DEF Arrive
<1>6. ASSUME ~IsDelta(q[1], t) PROVE Arrive(r, t) = Arrive(q, t)
  <2>1. \A x : x \in Arrive(r, t) <=> x \in Arrive(q, t)
    BY <1>2, <1>3, <1>6
  <2> QED
    BY <2>1
<1>7. ASSUME IsDelta(q[1], t) PROVE Arrive(q, t) = {q[1].arg} \cup Arrive(r, t)
  <2>1. \A x : x \in Arrive(q, t) <=> x \in {q[1].arg} \cup Arrive(r, t)
    BY <1>2, <1>3, <1>5, <1>7
  <2> QED
    BY <2>1
<1> QED
  BY <1>4, <1>6, <1>7

(* What is left of a queue is one.                                           *)
LEMMA TailIsQueue ==
  ASSUME NEW q \in Seq(Frames), q # <<>>, NEW r, r = Tail(q), Queue(q), Unwaited(q)
  PROVE  r \in Seq(Frames) /\ Queue(r) /\ Unwaited(r)
<1>1. /\ r \in Seq(Frames) /\ 1 \in DOMAIN q
      /\ \A i \in DOMAIN r : i \in Nat /\ i + 1 \in DOMAIN q /\ r[i] = q[i + 1] /\ 1 < i + 1
  BY Tailed
<1>2. Rising(r) /\ StartsFirst(r)
  <2>1. \A i, j \in DOMAIN r : i < j => i + 1 < j + 1
    BY <1>1
  <2> QED
    BY <1>1, <2>1 DEF Queue, Rising, StartsFirst
<1>3. Heard(r) /\ Unwaited(r)
  BY <1>1 DEF Queue, Heard, Unwaited
<1>4. StartsWhole(r)
  <2> SUFFICES ASSUME NEW j \in DOMAIN r, NEW t \in Turns, IsStart(r[j], t) PROVE Follows(r, t, 0)
    BY DEF StartsWhole
  <2>1. Follows(q, t, 0)
    BY <1>1 DEF Queue, StartsWhole
  <2>2. ~IsDelta(q[1], t)
    <3>1. ~IsAbout(q[1], t)
      BY <1>1 DEF Queue, StartsFirst
    <3> QED
      BY <3>1 DEF IsDelta, IsAbout, TurnFrames
  <2>3. Arrive(r, t) = Arrive(q, t)
    <3>1. q \in Seq(Frames) /\ q # <<>> /\ r = Tail(q)
      OBVIOUS
    <3> QED
      BY <2>2, <3>1, TailOfQueue, Zenon
  <2> QED
    BY <2>1, <2>3 DEF Follows
<1> QED
  BY <1>1, <1>2, <1>3, <1>4 DEF Queue

(* The first of the chunks on their way is the next one of the text.         *)
LEMMA NextChunk ==
  ASSUME NEW q \in Seq(Frames), q # <<>>, NEW r, r = Tail(q), Queue(q), NEW t \in Turns,
         IsDelta(q[1], t), NEW n \in Nat, Follows(q, t, n)
  PROVE  q[1].arg = n + 1 /\ Follows(r, t, n + 1) /\ HasBeen(t, n + 1)
<1>1. PICK k \in Nat : n <= k /\ Arrive(q, t) = (n + 1)..k /\ HasBeen(t, k) /\ IsAll(t, k)
  BY DEF Follows
<1>2. Arrive(q, t) = {q[1].arg} \cup Arrive(r, t) /\ \A x \in Arrive(r, t) : q[1].arg < x
  BY TailOfQueue DEF Queue
<1> DEFINE x1 == q[1].arg
<1>3. x1 \in (n + 1)..k
  BY <1>1, <1>2
<1> HIDE DEF x1
<1>4. x1 = n + 1
  <2>1. x1 \in Int /\ n + 1 <= x1 /\ x1 <= k
    BY <1>3
  <2>2. n + 1 \in Arrive(q, t)
    BY <1>1, <2>1
  <2>3. n + 1 = x1 \/ x1 < n + 1
    BY <1>2, <2>2 DEF x1
  <2> QED
    BY <2>1, <2>3
<1>5. ASSUME NEW x PROVE x \in Arrive(r, t) <=> x \in ((n + 1) + 1)..k
  <2>1. x \in Arrive(q, t) <=> x \in (n + 1)..k
    BY <1>1
  <2>2. x \in Arrive(q, t) <=> x = x1 \/ x \in Arrive(r, t)
    BY <1>2 DEF x1
  <2>3. x \in Arrive(r, t) => x1 < x
    BY <1>2 DEF x1
  <2> QED
    BY <1>4, <2>1, <2>2, <2>3
<1>6. Arrive(r, t) = ((n + 1) + 1)..k /\ n + 1 <= k /\ n + 1 \in Nat
  <2>1. n + 1 <= k
    BY <1>3, <1>4
  <2>2. Arrive(r, t) = ((n + 1) + 1)..k
    BY <1>5, Zenon
  <2> QED
    BY <2>1, <2>2
<1>7. HasBeen(t, n + 1)
  <2>1. 1 \in DOMAIN q
    BY Tailed
  <2> QED
    BY <1>4, <2>1 DEF Queue, Heard, x1
<1> QED
  BY <1>1, <1>4, <1>6, <1>7 DEF Follows, x1

(* A frame that is no chunk leaves the entries as they are, or clears them.  *)
LEMMA OtherFrames ==
  ASSUME NEW v \in ShapedViews, NEW e \in Frames, e.type # "turn.delta", NEW w, w = Applied(v, e)
  PROVE  /\ w \in ShapedViews
         /\ \/ w.entries = <<>>
            \/ /\ w.turn = v.turn /\ w.entries = v.entries
               /\ IsTerminal(v) => IsTerminal(w) \/ IsStart(e, v.turn)
<1>1. \A s : IsTerminal(v) => StatusOr(v, s) = v.status
  BY DEF StatusOr
<1>2. CASE Coalesced(e)
  <2>1. w \in ShapedViews /\ SameCore(v, w) /\ (w.entries = v.entries \/ e \in Deltas)
    BY <1>2, CoalescedFacts
  <2>2. e \notin Deltas
    BY DEF Deltas
  <2> QED
    BY <2>1, <2>2 DEF SameCore, IsTerminal
<1>3. CASE IsOpen(e)
  <2>1. w \in ShapedViews /\ ((w.turn = v.turn /\ w.status = v.status /\ w.entries = v.entries) \/ Blank(w))
    BY <1>3, OpenedFacts
  <2> QED
    BY <2>1 DEF Blank, IsTerminal
<1>4. CASE IsGone(e)
  <2>1. /\ w \in ShapedViews /\ w.turn = v.turn /\ w.entries = v.entries
        /\ w.status = StatusOr(v, "idle") \/ w = v
    BY <1>4, GoneFacts
  <2> QED
    BY <1>1, <2>1 DEF IsTerminal
<1>5. CASE e.type = "session.failed"
  <2>1. w \in ShapedViews /\ w.turn = v.turn /\ w.entries = v.entries /\ w.status = StatusOr(v, "error")
    BY <1>5, FailedFacts
  <2> QED
    BY <1>1, <2>1 DEF IsTerminal
<1>6. CASE e.type = "command.result"
  <2>1. /\ w \in ShapedViews /\ w.turn = v.turn /\ w.entries = v.entries
        /\ w.status = StatusOr(v, "error") \/ w.status = "error" \/ w = v
    BY <1>6, RefusedFacts
  <2> QED
    BY <1>1, <2>1 DEF IsTerminal
<1>7. CASE e.type = "turn.started"
  <2>1. w \in ShapedViews /\ w.turn = v.turn /\ w.entries = v.entries /\ (v.turn = e.of \/ w = v)
    BY <1>7, StartedFacts
  <2> QED
    BY <1>7, <2>1 DEF IsStart
<1>8. CASE e.type = "turn.completed"
  <2>1. w \in ShapedViews /\ w.turn = v.turn /\ w.entries = v.entries /\ (w.status \in {"done", "error"} \/ w = v)
    BY <1>8, CompletedFacts
  <2> QED
    BY <2>1 DEF IsTerminal
<1>9. CASE e.type = "session.loaded"
  <2>1. w = v
    BY <1>9, LoadedFacts
  <2> QED
    BY <2>1
<1> QED
  BY <1>2, <1>3, <1>4, <1>5, <1>6, <1>7, <1>8, <1>9, FrameFacts DEF Coalesced, IsOpen, IsGone

LEMMA EntryShape ==
  ASSUME NEW v \in ShapedViews, NEW i \in DOMAIN v.entries
  PROVE  /\ v.entries[i] \in ShapedEntries /\ v.entries[i].of \in Turns
         /\ v.entries[i].text \in Seq(Nat) /\ Len(v.entries[i].text) \in Nat
<1>1. PICK q : q = v.entries
  OBVIOUS
<1>2. q \in Seq(ShapedEntries) /\ i \in DOMAIN q
  BY <1>1 DEF ShapedViews
<1>3. q[i] \in ShapedEntries
  BY <1>2
<1>4. q[i].of \in Turns /\ q[i].text \in Seq(Nat)
  BY <1>3 DEF ShapedEntries
<1> QED
  BY <1>1, <1>3, <1>4

LEMMA UptoGrows ==
  ASSUME NEW n \in Nat
  PROVE  Append(Upto(n), n + 1) = Upto(n + 1) /\ Upto(n) \in Seq(Nat) /\ Len(Upto(n)) = n
<1>1. Upto(n) \in Seq(Nat) /\ Len(Upto(n)) = n
  BY DEF Upto
<1>2. Upto(n + 1) \in Seq(Nat) /\ Len(Upto(n + 1)) = n + 1
  BY DEF Upto
<1>3. PICK r : r = Append(Upto(n), n + 1)
  OBVIOUS
<1>4. /\ r \in Seq(Nat) /\ DOMAIN r = 1..(n + 1) /\ r[n + 1] = n + 1 /\ Len(r) = n + 1
      /\ \A i \in 1..n : r[i] = Upto(n)[i]
  BY <1>1, <1>3, AppendedOne
<1>5. \A i \in 1..(n + 1) : r[i] = Upto(n + 1)[i]
  BY <1>4 DEF Upto
<1>6. r = Upto(n + 1)
  BY <1>2, <1>4, <1>5
<1> QED
  BY <1>1, <1>3, <1>6

(* The first frame of the queue, applied.                                    *)
LEMMA FirstFits ==
  ASSUME NEW q \in Seq(Frames), q # <<>>, NEW r, r = Tail(q), Queue(q), Unwaited(q),
         NEW v \in ShapedViews, Fits(v, q), NEW w, w = Applied(v, q[1])
  PROVE  w \in ShapedViews /\ Fits(w, r)
<1>1. /\ q[1] \in Frames /\ 1 \in DOMAIN q
      /\ \A j \in DOMAIN r : j + 1 \in DOMAIN q /\ r[j] = q[j + 1] /\ 1 < j + 1
  BY Tailed
<1>2. \A t : ToCome(r, t) => ToCome(q, t)
  BY <1>1 DEF ToCome
<1>3. ASSUME NEW t, ~IsDelta(q[1], t), NEW n, Follows(q, t, n) PROVE Follows(r, t, n)
  <2>1. Arrive(r, t) = Arrive(q, t)
    BY <1>3, TailOfQueue, Zenon
  <2> QED
    BY <1>3, <2>1 DEF Follows
(* An entry that stays.                                                      *)
<1>4. ASSUME NEW e, FitsEntry(v, q, e), e.of \in Turns, w.turn = v.turn,
             ~IsDelta(q[1], v.turn) \/ IsTerminal(w),
             IsTerminal(v) => IsTerminal(w) \/ IsStart(q[1], v.turn)
      PROVE  FitsEntry(w, r, e)
  <2> SUFFICES ASSUME e.role = "assistant", e.of = w.turn
               PROVE  /\ ToCome(r, e.of) => e.text = <<>>
                      /\ ~IsTerminal(w) => Follows(r, e.of, Len(e.text))
    BY <1>4 DEF FitsEntry
  <2>1. ToCome(q, e.of) => e.text = <<>>
    BY <1>4 DEF FitsEntry
  <2>2. ASSUME ~IsTerminal(w) PROVE Follows(q, e.of, Len(e.text))
    <3>1. CASE ~IsTerminal(v)
      BY <1>4, <3>1 DEF FitsEntry
    <3>2. CASE IsStart(q[1], v.turn)
      <4>1. ToCome(q, e.of) /\ Follows(q, e.of, 0)
        BY <1>1, <1>4, <3>2 DEF ToCome, Queue, StartsWhole
      <4>2. Len(e.text) = 0
        BY <2>1, <4>1
      <4> QED
        BY <4>1, <4>2
    <3> QED
      BY <1>4, <2>2, <3>1, <3>2
  <2> QED
    BY <1>2, <1>3, <1>4, <2>1, <2>2
<1>5. CASE q[1].type # "turn.delta"
  <2>1. /\ w \in ShapedViews
        /\ \/ w.entries = <<>>
           \/ /\ w.turn = v.turn /\ w.entries = v.entries
              /\ IsTerminal(v) => IsTerminal(w) \/ IsStart(q[1], v.turn)
    BY <1>1, <1>5, OtherFrames
  <2>2. CASE w.entries = <<>>
    BY <2>1, <2>2 DEF Fits
  <2>3. CASE w.turn = v.turn /\ w.entries = v.entries /\ (IsTerminal(v) => IsTerminal(w) \/ IsStart(q[1], v.turn))
    <3>1. ~IsDelta(q[1], v.turn)
      BY <1>5 DEF IsDelta
    <3> SUFFICES ASSUME NEW i \in DOMAIN w.entries PROVE FitsEntry(w, r, w.entries[i])
      BY <2>1 DEF Fits
    <3>2. FitsEntry(v, q, v.entries[i]) /\ v.entries[i].of \in Turns
      BY <2>3, EntryShape DEF Fits
    <3> QED
      BY <1>4, <2>3, <3>1, <3>2
  <2> QED
    BY <2>1, <2>2, <2>3
<1>6. CASE q[1].type = "turn.delta"
  <2>1. q[1] \in Deltas /\ q[1].arg \in Nat /\ q[1].of \in Turns /\ Coalesced(q[1])
    BY <1>1, <1>6, FrameFacts DEF Coalesced, TurnFrames
  <2>2. /\ w \in ShapedViews /\ w.turn = v.turn /\ w.status = v.status
        /\ \/ w.entries = v.entries
           \/ v.turn = q[1].of /\ ~IsTerminal(v) /\ w.entries = AppendTo(v.entries, q[1].of, q[1].arg)
        /\ v.turn = q[1].of /\ ~IsTerminal(v) => w.entries = AppendTo(v.entries, q[1].of, q[1].arg)
    BY <1>1, <2>1, CoalescedFacts DEF SameCore
  <2>3. CASE v.turn # q[1].of \/ IsTerminal(v)
    <3> SUFFICES ASSUME NEW i \in DOMAIN w.entries PROVE FitsEntry(w, r, w.entries[i])
      BY <2>2 DEF Fits
    <3>1. FitsEntry(v, q, v.entries[i]) /\ v.entries[i].of \in Turns /\ w.entries[i] = v.entries[i]
      BY <2>2, <2>3, EntryShape DEF Fits
    <3>2. ~IsDelta(q[1], v.turn) \/ IsTerminal(w)
      BY <2>2, <2>3 DEF IsDelta, IsTerminal
    <3>3. IsTerminal(v) => IsTerminal(w)
      BY <2>2 DEF IsTerminal
    <3> QED
      BY <1>4, <2>2, <3>1, <3>2, <3>3
  <2>4. CASE v.turn = q[1].of /\ ~IsTerminal(v)
    <3> SUFFICES ASSUME NEW i \in DOMAIN w.entries PROVE FitsEntry(w, r, w.entries[i])
      BY <2>2 DEF Fits
    <3>1. PICK t \in Turns : t = v.turn
      BY <2>1, <2>4
    <3>2. IsDelta(q[1], t) /\ IsAbout(q[1], t)
      BY <1>6, <2>4, <3>1 DEF IsDelta, IsAbout, TurnFrames
    <3>3. PICK j \in DOMAIN v.entries : w.entries[i] = Grown(v.entries[j], t, q[1].arg)
      <4>1. v.entries \in Seq(ShapedEntries)
        BY DEF ShapedViews
      <4>2. w.entries = AppendTo(v.entries, t, q[1].arg)
        BY <2>2, <2>4, <3>1
      <4> QED
        BY <2>1, <4>1, <4>2, AppendFacts
    <3>4. PICK e : e = v.entries[j]
      OBVIOUS
    <3>5. FitsEntry(v, q, e) /\ e.of \in Turns /\ Len(e.text) \in Nat /\ e.text \in Seq(Nat)
      BY <3>4, EntryShape DEF Fits
    <3>6. CASE e.role = "assistant" /\ e.of = t
      <4>1. PICK n \in Nat : n = Len(e.text)
        BY <3>5
      <4>2. Follows(q, t, n) /\ e.text = Upto(n)
        BY <2>4, <3>1, <3>5, <3>6, <4>1 DEF FitsEntry, Sound
      <4>3. q[1].arg = n + 1 /\ Follows(r, t, n + 1) /\ HasBeen(t, n + 1)
        BY <3>2, <4>2, NextChunk
      <4>4. w.entries[i] = Answer(t, Upto(n + 1)) /\ Len(Upto(n + 1)) = n + 1
        <5>1. w.entries[i] = Answer(t, Append(Upto(n), n + 1))
          BY <3>3, <3>4, <3>6, <4>2, <4>3 DEF Grown
        <5>2. Append(Upto(n), n + 1) = Upto(n + 1)
          BY UptoGrows
        <5>3. n + 1 \in Nat
          OBVIOUS
        <5>4. Len(Upto(n + 1)) = n + 1
          BY <5>3, UptoGrows
        <5> QED
          BY <5>1, <5>2, <5>4
      <4>5. ~ToCome(r, t)
        <5>1. ~IsWaiting(t)
          BY <1>1, <3>2 DEF Unwaited
        <5>2. \A k \in DOMAIN r : ~IsStart(r[k], t)
          BY <1>1, <3>2 DEF Queue, StartsFirst
        <5> QED
          BY <5>1, <5>2 DEF ToCome
      <4>6. PICK f : f = w.entries[i]
        OBVIOUS
      <4>7. f.role = "assistant" /\ f.of = t /\ f.text = Upto(n + 1) /\ Len(f.text) = n + 1
        BY <4>4, <4>6 DEF Answer
      <4> QED
        BY <4>3, <4>5, <4>6, <4>7 DEF FitsEntry, Sound
    <3>7. CASE ~(e.role = "assistant" /\ e.of = t)
      <4>1. w.entries[i] = e
        BY <3>3, <3>4, <3>7 DEF Grown
      <4> QED
        BY <2>2, <3>1, <3>5, <3>7, <4>1 DEF FitsEntry
    <3> QED
      BY <3>6, <3>7
  <2> QED
    BY <2>3, <2>4
<1> QED
  BY <1>5, <1>6

(* All that has been received, applied.                                      *)
LEMMA SameSeq ==
  ASSUME NEW X, NEW r \in Seq(X), NEW d \in Seq(X), Len(r) = Len(d), \A j \in 1..Len(r) : r[j] = d[j]
  PROVE  r = d
OBVIOUS

(* The queue as each of the frames of p leaves it.                           *)
Rests(c, p, w) ==
  /\ c[0] = p \o w /\ c[Len(p)] = w
  /\ \A i \in 0..(Len(p) - 1) :
       c[i] # <<>> /\ c[i][1] = p[i + 1] /\ c[i + 1] = Tail(c[i])

LEMMA RestsExist ==
  ASSUME NEW p \in Seq(Frames), NEW w \in Seq(Frames)
  PROVE  Len(p) \in Nat /\ p \o w \in Seq(Frames) /\ \E c : Rests(c, p, w)
<1>1. PICK q : q = p \o w
  OBVIOUS
<1>2. /\ q \in Seq(Frames) /\ Len(p) \in Nat /\ Len(w) \in Nat /\ Len(q) = Len(p) + Len(w)
      /\ \A i \in 1..Len(p) : q[i] = p[i]
      /\ \A i \in 1..Len(w) : q[Len(p) + i] = w[i]
      /\ \A i \in 1..Len(q) : q[i] \in Frames
  <2>1. /\ q \in Seq(Frames) /\ Len(p) \in Nat /\ Len(w) \in Nat /\ Len(q) = Len(p) + Len(w)
        /\ \A i \in 1..Len(p) : q[i] = p[i]
        /\ \A i \in 1..Len(w) : q[Len(p) + i] = w[i]
    BY <1>1, Appended
  <2> QED
    BY <2>1
<1>3. PICK c : c = [i \in 0..Len(p) |-> [j \in 1..(Len(q) - i) |-> q[i + j]]]
  OBVIOUS
<1>4. ASSUME NEW i \in 0..Len(p)
      PROVE  /\ c[i] \in Seq(Frames) /\ Len(c[i]) = Len(q) - i /\ Len(q) - i \in Nat
             /\ \A j \in 1..(Len(q) - i) : c[i][j] = q[i + j]
  <2>1. i \in Nat /\ Len(q) - i \in Nat /\ \A j \in 1..(Len(q) - i) : i + j \in 1..Len(q)
    BY <1>2
  <2>2. c[i] = [j \in 1..(Len(q) - i) |-> q[i + j]]
    BY <1>3
  <2>3. \A j \in 1..(Len(q) - i) : q[i + j] \in Frames
    BY <1>2, <2>1
  <2>4. PICK n \in Nat : n = Len(q) - i
    BY <2>1
  <2>5. PICK d : d = c[i]
    OBVIOUS
  <2>6. d = [j \in 1..n |-> q[i + j]] /\ \A j \in 1..n : q[i + j] \in Frames
    BY <2>2, <2>3, <2>4, <2>5
  <2>7. d \in Seq(Frames) /\ Len(d) = n /\ \A j \in 1..n : d[j] = q[i + j]
    BY <2>6
  <2> QED
    BY <2>1, <2>4, <2>5, <2>7
<1>5. c[0] = q
  <2>1. PICK d, z : d = c[z] /\ z = 0
    OBVIOUS
  <2>2. z \in 0..Len(p) /\ Len(q) - z = Len(q) /\ \A j \in 1..Len(q) : z + j = j
    BY <1>2, <2>1
  <2>3. d \in Seq(Frames) /\ Len(d) = Len(q) /\ \A j \in 1..Len(q) : d[j] = q[j]
    <3>1. /\ d \in Seq(Frames) /\ Len(d) = Len(q) - z
          /\ \A j \in 1..(Len(q) - z) : d[j] = q[z + j]
      BY <1>4, <2>1, <2>2
    <3>2. ASSUME NEW j \in 1..Len(q) PROVE d[j] = q[j]
      <4>1. d[j] = q[z + j] /\ z + j = j
        BY <2>2, <3>1, <3>2
      <4> QED
        BY <4>1
    <3> QED
      BY <2>2, <3>1, <3>2
  <2>4. d = q
    BY <1>2, <2>3, SameSeq
  <2> QED
    BY <2>1, <2>4
<1>6. c[Len(p)] = w
  <2>1. PICK d, n : d = c[n] /\ n = Len(p)
    OBVIOUS
  <2>2. n \in 0..Len(p) /\ Len(q) - n = Len(w)
    BY <1>2, <2>1
  <2>3. d \in Seq(Frames) /\ Len(d) = Len(w) /\ \A j \in 1..Len(w) : d[j] = w[j]
    BY <1>2, <1>4, <2>1, <2>2
  <2>4. d = w
    BY <2>3, SameSeq
  <2> QED
    BY <2>1, <2>4
<1>7. ASSUME NEW i \in 0..(Len(p) - 1)
      PROVE  c[i] # <<>> /\ c[i][1] = p[i + 1] /\ c[i + 1] = Tail(c[i])
  <2>1. PICK k, d, s, r : k = i + 1 /\ d = c[i] /\ s = c[k] /\ r = Tail(d)
    OBVIOUS
  <2>2. /\ i \in Nat /\ k \in Nat /\ i \in 0..Len(p) /\ k \in 0..Len(p) /\ k \in 1..Len(p)
        /\ 1 \in 1..(Len(q) - i) /\ Len(q) - k = (Len(q) - i) - 1
        /\ \A j \in 1..(Len(q) - k) : j + 1 \in 1..(Len(q) - i) /\ i + (j + 1) = k + j
    BY <1>2, <2>1
  <2>3. /\ d \in Seq(Frames) /\ Len(d) = Len(q) - i
        /\ \A j \in 1..(Len(q) - i) : d[j] = q[i + j]
    BY <1>4, <2>1, <2>2
  <2>4. /\ s \in Seq(Frames) /\ Len(s) = Len(q) - k /\ Len(q) - k \in Nat
        /\ \A j \in 1..(Len(q) - k) : s[j] = q[k + j]
    BY <1>4, <2>1, <2>2
  <2>5. d # <<>> /\ d[1] = p[k]
    <3>1. d # <<>>
      BY <2>2, <2>3
    <3>2. d[1] = q[i + 1] /\ q[k] = p[k]
      BY <1>2, <2>2, <2>3
    <3> QED
      BY <2>1, <3>1, <3>2
  <2>6. r \in Seq(Frames) /\ Len(r) = Len(d) - 1 /\ \A j \in 1..(Len(d) - 1) : r[j] = d[j + 1]
    BY <2>1, <2>3, <2>5
  <2>7. Len(s) = Len(r) /\ \A j \in 1..Len(s) : s[j] = r[j]
    <3>1. Len(r) = Len(q) - k
      BY <2>2, <2>3, <2>6
    <3>2. ASSUME NEW j \in 1..(Len(q) - k) PROVE s[j] = r[j]
      <4>1. j \in 1..(Len(d) - 1) /\ j + 1 \in 1..(Len(q) - i) /\ i + (j + 1) = k + j
        BY <2>2, <2>3, <3>2
      <4>2. r[j] = d[j + 1] /\ d[j + 1] = q[i + (j + 1)] /\ s[j] = q[k + j]
        BY <2>3, <2>4, <2>6, <4>1
      <4> QED
        BY <4>1, <4>2
    <3> QED
      BY <2>4, <3>1, <3>2
  <2>8. s = r
    BY <2>4, <2>6, <2>7, SameSeq
  <2> QED
    BY <2>1, <2>5, <2>8
<1>8. Rests(c, p, w)
  BY <1>1, <1>5, <1>6, <1>7 DEF Rests
<1> QED
  BY <1>1, <1>2, <1>8

LEMMA AllFit ==
  ASSUME NEW p \in Seq(Frames), NEW w \in Seq(Frames), NEW v \in ShapedViews, NEW q,
         q = p \o w, Queue(q), Unwaited(q), Fits(v, q)
  PROVE  /\ AppliedAll(v, p) \in ShapedViews /\ Fits(AppliedAll(v, p), w)
         /\ Queue(w) /\ Unwaited(w)
<1>1. PICK a : /\ a[0] = v /\ AppliedAll(v, p) = a[Len(p)]
               /\ \A i \in 0..(Len(p) - 1) : a[i + 1] = Applied(a[i], p[i + 1])
  BY Applying, SMTT(60)
<1>2. Len(p) \in Nat /\ q \in Seq(Frames) /\ \E c : Rests(c, p, w)
  BY RestsExist
<1>3. PICK c : Rests(c, p, w)
  BY <1>2
<1>4. /\ c[0] = q /\ c[Len(p)] = w
      /\ \A i \in 0..(Len(p) - 1) :
           c[i] # <<>> /\ c[i][1] = p[i + 1] /\ c[i + 1] = Tail(c[i])
  BY <1>3 DEF Rests
<1> DEFINE F == {i \in 0..Len(p) : /\ a[i] \in ShapedViews /\ c[i] \in Seq(Frames)
                                   /\ Queue(c[i]) /\ Unwaited(c[i]) /\ Fits(a[i], c[i])}
<1>5. 0 \in F
  <2>1. 0 \in 0..Len(p)
    BY <1>2
  <2> QED
    BY <1>1, <1>2, <1>4, <2>1
<1>6. ASSUME NEW i \in 0..(Len(p) - 1), i \in F PROVE i + 1 \in F
  <2>1. PICK d, r, s : d = c[i] /\ r = c[i + 1] /\ s = a[i]
    OBVIOUS
  <2>2. /\ d \in Seq(Frames) /\ d # <<>> /\ r = Tail(d) /\ Queue(d) /\ Unwaited(d)
        /\ s \in ShapedViews /\ Fits(s, d) /\ a[i + 1] = Applied(s, d[1])
    BY <1>1, <1>4, <1>6, <2>1
  <2>3. r \in Seq(Frames) /\ Queue(r) /\ Unwaited(r)
    BY <2>2, TailIsQueue
  <2>4. a[i + 1] \in ShapedViews /\ Fits(a[i + 1], r)
    BY <2>2, FirstFits
  <2>5. i + 1 \in 0..Len(p)
    BY <1>2
  <2> QED
    BY <2>1, <2>3, <2>4, <2>5
<1>7. Len(p) \in F => /\ a[Len(p)] \in ShapedViews /\ Fits(a[Len(p)], w)
                       /\ Queue(w) /\ Unwaited(w)
  BY <1>4
<1> HIDE DEF F
<1>8. Len(p) \in F
  BY <1>2, <1>5, <1>6, CountingUp
<1> QED
  BY <1>1, <1>7, <1>8

(* What is on its way is about turns whose prompts do not wait.              *)
LEMMA NoneIsWaited ==
  ASSUME Types, HomeInv, NEW q, q = pending \o wire
  PROVE  q \in Seq(Frames) /\ Unwaited(q)
<1>1. pending \in Seq(Frames) /\ wire \in Seq(Frames)
  BY DEF Types
<1>2. /\ q \in Seq(Frames)
      /\ \A i \in DOMAIN q : \/ i \in DOMAIN pending /\ q[i] = pending[i]
                             \/ \E j \in DOMAIN wire : q[i] = wire[j]
  BY <1>1, Appended
<1>3. ASSUME NEW i \in DOMAIN q, NEW t \in Turns, IsAbout(q[i], t), IsWaiting(t) PROVE FALSE
  <2>1. \E s \in Sessions : LogHas(s, t)
    BY <1>2, <1>3 DEF HomeInv, FramesAreLogged
  <2>2. \E s \in Sessions : Waiting(t, s)
    BY <1>3, WaitingIs
  <2> QED
    BY <2>1, <2>2 DEF HomeInv, WaitsUnlogged
<1> QED
  BY <1>2, <1>3 DEF Unwaited

LEMMA IsWaitingAfter ==
  ASSUME Types, TabKinds \/ ServerKinds, NEW t \in Turns, IsWaiting(t)'
  PROVE  IsWaiting(t) \/ Begins(t)
<1>1. cmds' \in Seq(Commands)
  BY WireKept
<1>2. PICK i \in DOMAIN cmds' : Prompts(cmds'[i], t)
  BY DEF IsWaiting
<1>3. cmds'[i] \in Commands
  BY <1>1
<1>4. PICK s \in Sessions : cmds'[i] = Event("session.prompt", s, t)
  BY <1>2, <1>3, CommandFacts DEF Prompts
<1>5. Waiting(t, s)'
  BY <1>4 DEF Waiting
<1>6. Waiting(t, s) => IsWaiting(t)
  BY DEF Waiting, IsWaiting, Prompts, Event
<1> QED
  BY <1>5, <1>6, WaitingAfter

----------------------------------------------------------------------------
(* The texts: the steps of the tab                                           *)

(* What was said stays said, and what was all of it is.                      *)
SaysNoLess ==
  \A t \in Turns : \A k \in Nat : /\ HasBeen(t, k) => HasBeen(t, k)'
                                  /\ IsAll(t, k) => IsAll(t, k)'

LEMMA QueueStays ==
  ASSUME SaysNoLess, NEW q \in Seq(Frames)
  PROVE  /\ \A t \in Turns : \A n : Follows(q, t, n) => Follows(q, t, n)'
         /\ Queue(q) => Queue(q)'
         /\ \A e : e.of \in Turns /\ Len(e.text) \in Nat /\ Sound(e) => Sound(e)'
<1>1. ASSUME NEW t \in Turns, NEW n, Follows(q, t, n) PROVE Follows(q, t, n)'
  <2>1. PICK k \in Nat : n <= k /\ Arrive(q, t) = (n + 1)..k /\ HasBeen(t, k) /\ IsAll(t, k)
    BY <1>1 DEF Follows
  <2>2. HasBeen(t, k)' /\ IsAll(t, k)'
    BY <2>1 DEF SaysNoLess
  <2> QED
    BY <2>1, <2>2 DEF Follows
<1>2. ASSUME Queue(q) PROVE Queue(q)'
  <2>1. Rising(q)' /\ StartsFirst(q)'
    BY <1>2 DEF Queue, Rising, StartsFirst
  <2>2. StartsWhole(q)'
    BY <1>1, <1>2 DEF Queue, StartsWhole
  <2>3. Heard(q)'
    <3> SUFFICES ASSUME NEW i \in DOMAIN q, NEW t \in Turns, IsDelta(q[i], t) PROVE HasBeen(t, q[i].arg)'
      BY DEF Heard
    <3>1. q[i] \in Frames
      OBVIOUS
    <3>2. q[i].arg \in Nat
      BY <3>1, FrameFacts DEF IsDelta
    <3>3. HasBeen(t, q[i].arg)
      BY <1>2 DEF Queue, Heard
    <3>4. PICK k \in Nat : k = q[i].arg
      BY <3>2
    <3>5. HasBeen(t, k)'
      BY <3>3, <3>4 DEF SaysNoLess
    <3> QED
      BY <3>4, <3>5
  <2> QED
    BY <2>1, <2>2, <2>3 DEF Queue
<1>3. ASSUME NEW e, e.of \in Turns, Len(e.text) \in Nat, Sound(e) PROVE Sound(e)'
  <2>1. HasBeen(e.of, Len(e.text))'
    <3>1. PICK t \in Turns, k \in Nat : t = e.of /\ k = Len(e.text)
      BY <1>3
    <3>2. HasBeen(t, k)'
      BY <1>3, <3>1 DEF SaysNoLess, Sound
    <3> QED
      BY <3>1, <3>2
  <2> QED
    BY <1>3, <2>1 DEF Sound
<1> QED
  BY <1>1, <1>2, <1>3

LEMMA EntryStays ==
  ASSUME SaysNoLess, NEW q \in Seq(Frames), NEW v, NEW w, NEW e, FitsEntry(v, q, e),
         e.of \in Turns, Len(e.text) \in Nat,
         \/ w.turn # e.of
         \/ /\ w.turn = v.turn /\ (IsTerminal(v) => IsTerminal(w))
            /\ IsWaiting(e.of)' => IsWaiting(e.of)
  PROVE  FitsEntry(w, q, e)'
<1>1. Sound(e)'
  BY QueueStays DEF FitsEntry
<1>2. CASE w.turn # e.of
  BY <1>1, <1>2 DEF FitsEntry
<1>3. CASE /\ w.turn = v.turn /\ (IsTerminal(v) => IsTerminal(w))
           /\ IsWaiting(e.of)' => IsWaiting(e.of)
  <2> SUFFICES ASSUME e.role = "assistant", e.of = w.turn
               PROVE  /\ ToCome(q, e.of)' => e.text = <<>>
                      /\ ~IsTerminal(w) => Follows(q, e.of, Len(e.text))'
    BY <1>1 DEF FitsEntry, IsTerminal
  <2>1. ToCome(q, e.of)' => ToCome(q, e.of)
    BY <1>3 DEF ToCome
  <2>2. Follows(q, e.of, Len(e.text)) => Follows(q, e.of, Len(e.text))'
    BY QueueStays
  <2> QED
    BY <1>3, <2>1, <2>2 DEF FitsEntry
<1> QED
  BY <1>2, <1>3

LEMMA TabSaysNoLess ==
  ASSUME Types, UNCHANGED <<log, srv>>, link' = link \/ link' # "open" \/ srv = NoConnection
  PROVE  SaysNoLess
<1>1. ASSUME NEW t \in Turns, NEW k \in Nat, HasBeen(t, k) PROVE HasBeen(t, k)'
  BY <1>1 DEF HasBeen
<1>2. ASSUME NEW t \in Turns, NEW k \in Nat, IsAll(t, k) PROVE IsAll(t, k)'
  BY <1>2, NullTurn DEF IsAll, NoConnection
<1> QED
  BY <1>1, <1>2 DEF SaysNoLess

(* A step that leaves the entries and the queue as they are.                 *)
LEMMA ViewStays ==
  ASSUME SaysNoLess, NEW q \in Seq(Frames), NEW v \in ShapedViews, NEW w, Fits(v, q),
         w.entries = v.entries,
         \A t \in Owners(v) : \/ w.turn # t
                              \/ /\ w.turn = v.turn /\ (IsTerminal(v) => IsTerminal(w))
                                 /\ IsWaiting(t)' => IsWaiting(t)
  PROVE  Fits(w, q)'
<1> SUFFICES ASSUME NEW i \in DOMAIN w.entries PROVE FitsEntry(w, q, w.entries[i])'
  BY DEF Fits
<1>1. PICK e : e = v.entries[i]
  OBVIOUS
<1>2. FitsEntry(v, q, e) /\ e.of \in Turns /\ Len(e.text) \in Nat
  BY <1>1, EntryShape DEF Fits
<1>3. e.of \in Owners(v)
  BY <1>1 DEF Owners
<1>4. FitsEntry(w, q, e)'
  BY <1>2, <1>3, EntryStays
<1>5. w.entries[i] = e
  BY <1>1
<1> QED
  BY <1>4, <1>5

(* A turn that is begun has nothing said of it.                              *)
LEMMA NothingSaid ==
  ASSUME Types, SentInv, HomeInv, NEW t \in Turns, prompted[t] = 0, NEW q, q = pending \o wire
  PROVE  t \notin Owners(view) /\ Follows(q, t, 0)
<1>1. t \notin Shown /\ \A s \in Sessions : ~LogHas(s, t)
  BY DEF HomeInv, FreshInv, IsHome
<1>2. pending \in Seq(Frames) /\ wire \in Seq(Frames)
  BY DEF Types
<1>3. \A i \in DOMAIN q : \/ i \in DOMAIN pending /\ q[i] = pending[i]
                          \/ \E j \in DOMAIN wire : q[i] = wire[j]
  BY <1>2, Appended
<1>4. \A i \in DOMAIN q : ~IsAbout(q[i], t)
  BY <1>1, <1>3 DEF HomeInv, FramesAreLogged
<1>5. Arrive(q, t) = {}
  BY <1>4 DEF Arrive, IsDelta, IsAbout, TurnFrames
<1>6. HasBeen(t, 0)
  BY DEF HasBeen
<1>7. IsAll(t, 0)
  BY <1>1 DEF IsAll, HomeInv, RunsAtHome
<1>8. Arrive(q, t) = (0 + 1)..0 /\ 0 \in Nat
  BY <1>5
<1> QED
  BY <1>1, <1>6, <1>7, <1>8 DEF Follows, Shown

LEMMA BeginsFits ==
  ASSUME Types, SentInv, HomeInv, NEW t \in Turns, Begins(t),
         NEW q, q = pending \o wire, NEW v, v = view, NEW w, w = view', Fits(v, q)
  PROVE  Fits(w, q)'
<1>1. /\ prompted[t] = 0 /\ view' = BeginTurn(view, t) /\ UNCHANGED <<log, srv, link>> /\ TabKinds
      /\ v \in ShapedViews /\ pending \in Seq(Frames) /\ wire \in Seq(Frames)
      /\ \A u \in Turns : Begins(u) => u = t
  BY BeginsIsTab DEF Begins, TabSide, Types
<1>2. SaysNoLess /\ q \in Seq(Frames)
  BY <1>1, TabSaysNoLess, Appended
<1>3. t \notin Owners(v) /\ Follows(q, t, 0)
  BY <1>1, NothingSaid
<1>4. \A u \in Owners(v) : u \in Turns /\ u # t
  BY <1>1, <1>3, EntryShape DEF Owners
<1>5. \A u \in Owners(v) : IsWaiting(u)' => IsWaiting(u)
  BY <1>1, <1>4, IsWaitingAfter
<1>6. \/ w = v
      \/ w.turn = t /\ w.entries = v.entries \o <<User(t), Answer(t, <<>>)>>
  BY <1>1, BeginFacts
<1>7. CASE w = v
  BY <1>1, <1>2, <1>5, <1>7, ViewStays
<1>8. CASE w.turn = t /\ w.entries = v.entries \o <<User(t), Answer(t, <<>>)>>
  <2>1. PICK a, b, es : a = User(t) /\ b = Answer(t, <<>>) /\ es = v.entries
    OBVIOUS
  <2>2. /\ a.role = "user" /\ a.of = t /\ a.text = <<>> /\ a \in ShapedEntries
        /\ b.role = "assistant" /\ b.of = t /\ b.text = <<>> /\ b \in ShapedEntries
    BY <2>1 DEF User, Answer, ShapedEntries
  <2>3. es \in Seq(ShapedEntries) /\ w.entries = es \o <<a, b>>
    BY <1>1, <1>8, <2>1 DEF ShapedViews
  <2>4. \A i \in DOMAIN w.entries : (i \in DOMAIN es /\ w.entries[i] = es[i]) \/ w.entries[i] \in {a, b}
    BY <2>2, <2>3
  <2>5. <<>> = Upto(Len(<<>>)) /\ Len(<<>>) = 0
    BY DEF Upto
  <2>6. HasBeen(t, 0)'
    BY DEF HasBeen
  <2>7. Sound(a)' /\ Sound(b)'
    BY <2>2, <2>5, <2>6 DEF Sound
  <2>8. FitsEntry(w, q, a)'
    BY <2>2, <2>7 DEF FitsEntry
  <2>9. FitsEntry(w, q, b)'
    <3>1. Follows(q, t, 0)'
      BY <1>2, <1>3, QueueStays
    <3> QED
      BY <2>2, <2>5, <2>7, <3>1 DEF FitsEntry
  <2>10. ASSUME NEW i \in DOMAIN es PROVE FitsEntry(w, q, es[i])'
    <3>1. FitsEntry(v, q, es[i]) /\ es[i].of \in Turns /\ Len(es[i].text) \in Nat
      BY <1>1, <2>1, EntryShape DEF Fits
    <3>2. es[i].of \in Owners(v)
      BY <2>1 DEF Owners
    <3>3. w.turn # es[i].of
      BY <1>4, <1>8, <3>2
    <3>4. PICK e : e = es[i]
      OBVIOUS
    <3>5. FitsEntry(w, q, e)'
      BY <1>2, <3>1, <3>3, <3>4, EntryStays
    <3> QED
      BY <3>4, <3>5
  <2>11. ASSUME NEW i \in DOMAIN w.entries PROVE FitsEntry(w, q, w.entries[i])'
    BY <2>4, <2>8, <2>9, <2>10
  <2> QED
    BY <2>11 DEF Fits
<1> QED
  BY <1>6, <1>7, <1>8

(* A transcript read is of what was said.                                    *)
LEMMA HydratesFits ==
  ASSUME Types, LogInv, NEW l \in Seq(Frames), Hydrates(l), NEW q, NEW w, w = view'
  PROVE  Fits(w, q)'
<1>1. /\ view.of \in Sessions /\ log[view.of] \in Seq(Frames) /\ view \in ShapedViews /\ UNCHANGED log
      /\ w = HydrateTranscript(view, l)
  BY DEF Hydrates, Moves, Types
<1>2. PICK s \in Sessions : s = view.of
  BY <1>1
<1>3. PICK n \in 0..Len(log[s]) : l = SubSeq(log[s], 1, n)
  BY <1>2 DEF Hydrates
<1>4. log[s] \in Seq(Frames) /\ Numbered(log[s])
  BY <1>1, <1>2 DEF LogInv
<1>5. Numbered(l) /\ \A t \in Turns : Count(l, t) <= Count(log[s], t)
  BY <1>3, <1>4, PrefixFacts
<1>6. w.turn = NoTurn /\ \A i \in DOMAIN w.entries : IsEntryOf(w.entries[i], l)
  BY <1>1, HydrateFacts
<1>7. ASSUME NEW e, IsEntryOf(e, l) PROVE FitsEntry(w, q, e)'
  <2>1. e \in ShapedEntries /\ e.of \in Turns /\ e.text \in {<<>>, TextOf(l, e.of)} /\ (e.role = "user" => e.text = <<>>)
    BY <1>7 DEF IsEntryOf, ShapedEntries
  <2>2. Count(l, e.of) \in Nat /\ TextOf(l, e.of) = Upto(Count(l, e.of))
    BY <1>5, <2>1, TextFacts
  <2>3. PICK k \in Nat : e.text = Upto(k) /\ (k = 0 \/ k = Count(l, e.of))
    <3>1. Upto(0) = <<>>
      BY DEF Upto
    <3> QED
      BY <2>1, <2>2, <3>1
  <2>4. Len(e.text) = k
    BY <2>3, UptoGrows
  <2>5. HasBeen(e.of, k)
    BY <1>5, <2>1, <2>3 DEF HasBeen
  <2>6. HasBeen(e.of, k)'
    BY <1>1, <2>5 DEF HasBeen
  <2>7. Sound(e)'
    BY <2>1, <2>3, <2>4, <2>6 DEF Sound
  <2> QED
    BY <1>6, <2>1, <2>7, NullTurn DEF FitsEntry
<1> QED
  BY <1>6, <1>7 DEF Fits

LEMMA NoEntriesFit ==
  ASSUME NEW w, w.entries = <<>>, NEW q
  PROVE  Fits(w, q)'
BY DEF Fits

LEMMA EmptyIsQueue == Queue(<<>>)'
BY DEF Queue, Rising, StartsFirst, StartsWhole, Heard

(* The queue stays where it is: only the view and the commands change.       *)
LEMMA ClicksFit ==
  ASSUME Types, SentInv, HomeInv, LogInv,
         Fails \/ Cancels \/ AsksForOne \/ Waits \/ Joins \/ Drops \/ \E s \in Sessions : Loads(s),
         NEW q, q = pending \o wire, NEW v, v = view, Queue(q), Fits(v, q),
         NEW r, r = pending' \o wire', NEW w, w = view'
  PROVE  Queue(r)' /\ Fits(w, r)'
<1>1. v \in ShapedViews /\ pending \in Seq(Frames) /\ wire \in Seq(Frames)
  BY DEF Types
<1>2. /\ UNCHANGED <<pending, wire, log, srv>> /\ TabKinds
      /\ link' = link \/ link' # "open" \/ srv = NoConnection
      /\ \A t \in Turns : ~Begins(t) \/ t \notin Owners(v)
  <2>1. UNCHANGED <<pending, wire, log, srv>> /\ TabKinds
    BY DEF Fails, Cancels, AsksForOne, Waits, Joins, Drops, Loads, TabSide, Moves, TabKinds
  <2>2. link' = link \/ link' # "open" \/ srv = NoConnection
    BY DEF Fails, Cancels, AsksForOne, Waits, Joins, Drops, Loads, TabSide, Moves
  <2>3. \A t \in Turns : Begins(t) => t \notin Owners(v)
    BY NothingSaid DEF Begins
  <2> QED
    BY <2>1, <2>2, <2>3
<1>3. SaysNoLess /\ q \in Seq(Frames) /\ r = q
  BY <1>1, <1>2, TabSaysNoLess, Appended
<1>4. w.entries = v.entries /\ w.turn = v.turn /\ (IsTerminal(v) => IsTerminal(w))
  <2>1. CASE Fails
    BY <2>1 DEF Fails
  <2>2. CASE Cancels
    BY <1>1, <2>2, CancelFacts DEF Cancels
  <2>3. CASE AsksForOne
    BY <1>1, <2>3, OpeningFacts DEF AsksForOne, IsTerminal
  <2>4. CASE Joins
    BY <1>1, <2>4, JoinedFacts DEF Joins, IsTerminal
  <2>5. CASE Waits \/ Drops \/ \E s \in Sessions : Loads(s)
    BY <2>5 DEF Waits, Drops, Loads
  <2> QED
    BY <2>1, <2>2, <2>3, <2>4, <2>5
<1>5. \A t \in Owners(v) : t \in Turns
  BY <1>1, EntryShape DEF Owners
<1>6. \A t \in Owners(v) : IsWaiting(t)' => IsWaiting(t)
  BY <1>2, <1>5, IsWaitingAfter
<1>7. Fits(w, q)'
  BY <1>1, <1>3, <1>4, <1>6, ViewStays
<1>8. Queue(q)'
  BY <1>3, QueueStays
<1> QED
  BY <1>3, <1>7, <1>8

(* What has been received is applied, or joins what waits for a frame.       *)
LEMMA ReceivesFit ==
  ASSUME Types, SentInv, HomeInv, LogInv, Receives,
         NEW q, q = pending \o wire, NEW v, v = view, Queue(q), Fits(v, q),
         NEW r, r = pending' \o wire', NEW w, w = view'
  PROVE  Queue(r)' /\ Fits(w, r)'
<1>1. /\ v \in ShapedViews /\ pending \in Seq(Frames) /\ wire \in Seq(Frames) /\ q \in Seq(Frames)
      /\ UNCHANGED <<log, srv, link, cmds>> /\ wire # <<>> /\ wire' = Tail(wire)
      /\ Head(wire) = wire[1] /\ Head(wire) \in Frames
  BY Appended DEF Types, Receives
<1>2. SaysNoLess /\ Unwaited(q)
  BY <1>1, TabSaysNoLess, NoneIsWaited
<1>3. \A t : IsWaiting(t)' => IsWaiting(t)
  BY <1>1 DEF IsWaiting
<1>4. CASE view' = view /\ pending' = Append(pending, Head(wire))
  <2>1. r = q
    BY <1>1, <1>4
  <2>2. Fits(v, q)'
    BY <1>1, <1>2, <1>3, ViewStays
  <2> QED
    BY <1>1, <1>2, <1>4, <2>1, <2>2, QueueStays
<1>5. CASE pending' = <<>> /\ view' = Applied(AppliedAll(view, pending), Head(wire))
  <2>1. PICK u, p, x : u = AppliedAll(view, pending) /\ p = pending /\ x = wire
    OBVIOUS
  <2>2. u \in ShapedViews /\ Fits(u, x) /\ Queue(x) /\ Unwaited(x)
    BY <1>1, <1>2, <2>1, AllFit
  <2>3. PICK y : y = Tail(x)
    OBVIOUS
  <2>4. x \in Seq(Frames) /\ x # <<>> /\ w = Applied(u, x[1])
    BY <1>1, <1>5, <2>1
  <2>5. y \in Seq(Frames) /\ Queue(y) /\ Unwaited(y)
    BY <2>2, <2>3, <2>4, TailIsQueue
  <2>6. w \in ShapedViews /\ Fits(w, y)
    BY <2>2, <2>3, <2>4, FirstFits
  <2>7. r = y
    BY <1>1, <1>5, <2>1, <2>3, <2>5
  <2>8. Fits(w, y)'
    BY <1>2, <1>3, <2>5, <2>6, ViewStays
  <2>9. Queue(y)'
    BY <1>2, <2>5, QueueStays
  <2> QED
    BY <2>7, <2>8, <2>9
<1> QED
  BY <1>4, <1>5 DEF Receives

LEMMA PaintsFit ==
  ASSUME Types, SentInv, HomeInv, LinkInv, LogInv, Paints \/ Resets \/ Closes,
         NEW q, q = pending \o wire, NEW v, v = view, Queue(q), Fits(v, q),
         NEW r, r = pending' \o wire', NEW w, w = view'
  PROVE  Queue(r)' /\ Fits(w, r)'
<1>1. /\ v \in ShapedViews /\ pending \in Seq(Frames) /\ wire \in Seq(Frames) /\ q \in Seq(Frames)
      /\ UNCHANGED <<log, srv>> /\ (link' = link \/ link' # "open") /\ pending' = <<>>
  BY Appended DEF Types, Paints, Resets, Closes
<1>2. SaysNoLess /\ Unwaited(q)
  BY <1>1, TabSaysNoLess, NoneIsWaited
<1>3. PICK u, p, x : u = AppliedAll(view, pending) /\ p = pending /\ x = wire
  OBVIOUS
<1>4. u \in ShapedViews /\ Fits(u, x) /\ Queue(x) /\ Unwaited(x) /\ x \in Seq(Frames)
  BY <1>1, <1>2, <1>3, AllFit
<1>5. Queue(x)'
  BY <1>2, <1>4, QueueStays
<1>6. CASE Paints
  <2>1. r = x /\ w = u /\ UNCHANGED cmds
    BY <1>1, <1>3, <1>6 DEF Paints
  <2>2. \A t : IsWaiting(t)' => IsWaiting(t)
    BY <2>1 DEF IsWaiting
  <2>3. Fits(u, x)'
    BY <1>2, <1>4, <2>2, ViewStays
  <2> QED
    BY <1>5, <2>1, <2>3
<1>7. CASE Resets
  <2>1. r = x /\ w.entries = <<>>
    BY <1>1, <1>3, <1>7, ResetFacts DEF Resets, Blank
  <2> QED
    BY <1>5, <2>1, NoEntriesFit
<1>8. CASE Closes
  <2>1. r = <<>> /\ w = ConnectionClosed(u) /\ cmds = <<>> /\ cmds' = <<>>
    BY <1>1, <1>3, <1>8 DEF Closes, LinkInv
  <2>2. w.entries = u.entries /\ IsTerminal(w)
    BY <1>4, <2>1, ConnectionFacts DEF StatusOr, IsTerminal
  <2>3. PICK z : z = <<>>
    OBVIOUS
  <2>4. \A t : ~ToCome(z, t)'
    BY <2>1, <2>3 DEF ToCome, IsWaiting
  <2>5. ASSUME NEW i \in DOMAIN w.entries PROVE FitsEntry(w, z, w.entries[i])'
    <3>1. PICK e : e = u.entries[i]
      OBVIOUS
    <3>2. Sound(e) /\ e.of \in Turns /\ Len(e.text) \in Nat
      BY <1>4, <2>2, <2>5, <3>1, EntryShape DEF Fits, FitsEntry
    <3>3. Sound(e)'
      BY <1>2, <1>4, <3>2, QueueStays
    <3>4. FitsEntry(w, z, e)'
      BY <2>2, <2>4, <3>3 DEF FitsEntry, IsTerminal
    <3>5. w.entries[i] = e
      BY <2>2, <3>1
    <3> QED
      BY <3>4, <3>5
  <2>6. Fits(w, z)'
    BY <2>5 DEF Fits
  <2>7. Queue(z)'
    BY <2>3, EmptyIsQueue
  <2> QED
    BY <2>1, <2>3, <2>6, <2>7
<1> QED
  BY <1>6, <1>7, <1>8

----------------------------------------------------------------------------
(* The texts: the steps of the server                                        *)

(* What is put on the wire: no start but of the prompt just taken, and no    *)
(* chunk but the next one of the running turn.                               *)
Says(es) ==
  /\ wire' = wire \o es
  /\ \A i \in DOMAIN es : \A t \in Turns : IsStart(es[i], t) => i = 1 /\ Runs(t)
  /\ \A i \in DOMAIN es : \A t \in Turns :
       IsDelta(es[i], t) => i = 1 /\ DOMAIN es = {1} /\ t = srv.turn /\ Chunk(es[i].arg)

LEMMA ServerSaysThat ==
  ASSUME Types, LogInv, link = "open", ServerKinds
  PROVE  \E es \in Seq(Frames) : Says(es) /\ (NoChunk \/ \E n : Chunk(n) /\ es = <<Delta(srv.turn, n)>>)
<1>1. CASE NoChunk
  <2>1. wire \in Seq(Frames) /\ Len(wire) \in Nat
    BY DEF Types
  <2>2. PICK es \in Seq(Frames) : wire' = wire \o es
    <3>1. \/ UNCHANGED wire
          \/ \E es \in Seq(Frames) : link = "open" /\ wire' = wire \o es
      BY ServerKindFacts
    <3>2. <<>> \in Seq(Frames) /\ wire = wire \o <<>>
      BY <2>1
    <3> QED
      BY <3>1, <3>2
  <2>3. ASSUME NEW i \in DOMAIN es
        PROVE  /\ i \in Nat /\ FreshAt(Len(wire) + i) /\ es[i] = wire'[Len(wire) + i]
               /\ Len(wire) + i = Last1 => i = 1
    <3>1. i \in 1..Len(es) /\ Len(wire) + i \in DOMAIN wire' /\ wire'[Len(wire) + i] = es[i]
      BY <2>1, <2>2, <2>3, Appended
    <3>2. i \in Nat /\ Len(wire) + i > Len(wire) /\ (Len(wire) + i = Len(wire) + 1 => i = 1)
      BY <2>1, <3>1
    <3> QED
      BY <3>1, <3>2 DEF FreshAt, Last1
  <2>4. ASSUME NEW i \in DOMAIN es, NEW t \in Turns, IsStart(es[i], t) PROVE i = 1 /\ Runs(t)
    <3>1. PICK k : k = Len(wire) + i
      OBVIOUS
    <3>2. FreshAt(k) /\ wire'[k].type = "turn.started" /\ wire'[k].of = t
      BY <2>3, <2>4, <3>1 DEF IsStart
    <3>3. k = Last1 /\ Runs(t)
      BY <3>2, ServerTurns
    <3> QED
      BY <2>3, <3>1, <3>3
  <2>5. \A i \in DOMAIN es : es[i].type # "turn.delta"
    BY <1>1, <2>3 DEF NoChunk
  <2>6. Says(es)
    BY <2>2, <2>4, <2>5 DEF Says, IsDelta
  <2> QED
    BY <1>1, <2>6
<1>2. ASSUME NEW n, Chunk(n) PROVE \E es \in Seq(Frames) : Says(es) /\ es = <<Delta(srv.turn, n)>>
  <2>1. PICK e : e = Delta(srv.turn, n)
    OBVIOUS
  <2>2. Count(log[srv.of], srv.turn) \in Nat /\ srv.turn \in Turns /\ n = Count(log[srv.of], srv.turn) + 1
        /\ wire' = wire \o <<e>>
    <3>1. srv.turn \in Turns /\ srv.of \in Sessions /\ log[srv.of] \in Seq(Frames) /\ n = Count(log[srv.of], srv.turn) + 1
      BY <1>2 DEF Chunk, Types
    <3>2. wire' = wire \o <<e>>
      BY <1>2, <2>1 DEF Chunk, Emitted
    <3> QED
      BY <3>1, <3>2, CountTyped
  <2>3. e \in Frames /\ e.type = "turn.delta" /\ e.of = srv.turn /\ e.arg = n
    BY <2>1, <2>2, FramesMade, MadeTypes
  <2>4. PICK es : es = <<e>>
    OBVIOUS
  <2>5. es \in Seq(Frames) /\ DOMAIN es = {1} /\ es[1] = e
    BY <2>3, <2>4
  <2>6. \A i \in DOMAIN es : es[i] = e /\ i = 1
    BY <2>5
  <2>7. Says(es)
    BY <1>2, <2>2, <2>3, <2>4, <2>5, <2>6 DEF Says, IsDelta, IsStart
  <2> QED
    BY <2>1, <2>4, <2>5, <2>7
<1> QED
  BY <1>1, <1>2, ServerChunks

(* What has been said of a turn grows; whose turn runs.                      *)
LEMMA ServerSaid ==
  ASSUME Types, HomeInv, LogInv, link = "open", ServerKinds
  PROVE  /\ \A t \in Turns : \A k \in Nat : HasBeen(t, k) => HasBeen(t, k)'
         /\ \A t \in Turns : Runs(t) => IsAll(t, 0)'
         /\ NoChunk => \A t \in Turns : ~Runs(t) => \A k \in Nat : IsAll(t, k) => IsAll(t, k)'
         /\ \A t \in Turns : Runs(t) => NoChunk \/ ~\E n : Chunk(n)
<1>1. \A s \in Sessions, t \in Turns : /\ Count(log[s], t) \in Nat /\ Count(log'[s], t) \in Nat
                                       /\ Count(log[s], t) <= Count(log'[s], t)
  BY ServerKeepsLogs
<1>2. ASSUME NEW t \in Turns, NEW k \in Nat, HasBeen(t, k) PROVE HasBeen(t, k)'
  <2> SUFFICES ASSUME k > 0 PROVE \E s \in Sessions : k <= Count(log'[s], t)
    BY DEF HasBeen
  <2>1. PICK s \in Sessions : k <= Count(log[s], t)
    BY <1>2 DEF HasBeen
  <2>2. k <= Count(log'[s], t)
    BY <1>1, <2>1
  <2> QED
    BY <2>2
<1>3. \/ srv' = srv
      \/ srv'.turn = NoTurn
      \/ \E t \in Turns : Runs(t)
  BY ServerWire DEF SaysNo, Talks, Stops, Rises, Sits, NoConnection
<1>4. \A t \in Turns : Runs(t) => /\ srv.turn = NoTurn /\ IsWaiting(t) /\ srv'.turn = t /\ srv.of \in Sessions
                                  /\ srv'.of = srv.of
  BY ServerTurns DEF Runs
<1>5. ASSUME NoChunk, NEW s \in Sessions, NEW t \in Turns PROVE Count(log'[s], t) = Count(log[s], t)
  BY <1>5, NoChunkCounts
<1>6. ASSUME NEW t \in Turns, Runs(t) PROVE ~\E n : Chunk(n)
  BY <1>4, <1>6, NullTurn DEF Chunk
<1>7. ASSUME NEW t \in Turns, Runs(t) PROVE IsAll(t, 0)'
  <2>1. NoChunk
    BY <1>6, <1>7, ServerChunks
  <2>2. PICK o \in Sessions : o = srv.of
    BY <1>4, <1>7
  <2>3. ~LogHas(o, t)
    BY <1>4, <1>7, WaitingIs DEF HomeInv, WaitsUnlogged
  <2>4. log[o] \in Seq(Frames)
    BY DEF Types
  <2>5. Count(log[o], t) = 0
    <3>1. ~\E i \in DOMAIN log[o] : log[o][i].type = "turn.delta" /\ log[o][i].of = t
      BY <2>3 DEF LogHas, IsAbout, TurnFrames
    <3>2. Count(log[o], t) \in Nat /\ ~(Count(log[o], t) > 0)
      BY <2>4, <3>1, CountTyped
    <3> QED
      BY <3>2
  <2>6. Count(log'[o], t) = 0
    BY <1>5, <2>1, <2>5
  <2>7. srv'.of = o
    BY <1>4, <1>7, <2>2
  <2> QED
    BY <2>6, <2>7 DEF IsAll
<1>8. ASSUME NoChunk, NEW t \in Turns, ~Runs(t), NEW k \in Nat, IsAll(t, k) PROVE IsAll(t, k)'
  <2> SUFFICES ASSUME NEW s \in Sessions, srv'.of = s, srv'.turn = t PROVE k = Count(log'[s], t)
    BY DEF IsAll
  <2>1. srv' = srv
    BY <1>3, <1>4, <1>8, NullTurn
  <2>2. k = Count(log[s], t)
    BY <1>8, <2>1 DEF IsAll
  <2> QED
    BY <1>5, <1>8, <2>2
<1> QED
  BY <1>2, <1>6, <1>7, <1>8

LEMMA ArriveMore ==
  ASSUME NEW q \in Seq(Frames), NEW es \in Seq(Frames), NEW r, r = q \o es, NEW t
  PROVE  \A x : x \in Arrive(r, t) <=> x \in Arrive(q, t) \/ x \in Arrive(es, t)
<1>1. /\ \A i \in DOMAIN q : i \in DOMAIN r /\ r[i] = q[i]
      /\ \A i \in DOMAIN es : Len(q) + i \in DOMAIN r /\ r[Len(q) + i] = es[i]
      /\ \A i \in DOMAIN r : \/ i \in DOMAIN q /\ r[i] = q[i]
                             \/ \E j \in DOMAIN es : r[i] = es[j]
  BY Appended
<1>2. ASSUME NEW x, x \in Arrive(r, t) PROVE x \in Arrive(q, t) \/ x \in Arrive(es, t)
  BY <1>1, <1>2 DEF Arrive
<1>3. ASSUME NEW x, x \in Arrive(q, t) PROVE x \in Arrive(r, t)
  BY <1>1, <1>3 DEF Arrive
<1>4. ASSUME NEW x, x \in Arrive(es, t) PROVE x \in Arrive(r, t)
  <2>1. PICK i \in DOMAIN es : IsDelta(es[i], t) /\ x = es[i].arg
    BY <1>4 DEF Arrive
  <2>2. PICK k : k = Len(q) + i
    OBVIOUS
  <2>3. k \in DOMAIN r /\ r[k] = es[i]
    BY <1>1, <2>2
  <2> QED
    BY <2>1, <2>3 DEF Arrive
<1> QED
  BY <1>2, <1>3, <1>4

(* A text that was followed without a gap still is.                          *)
LEMMA ServerFollows ==
  ASSUME Types, HomeInv, LogInv, link = "open", ServerKinds,
         NEW q \in Seq(Frames), NEW es \in Seq(Frames), NEW r, r = q \o es,
         Says(es), NoChunk \/ \E n : Chunk(n) /\ es = <<Delta(srv.turn, n)>>,
         NEW t \in Turns, ~Runs(t), NEW n \in Nat, Follows(q, t, n)
  PROVE  Follows(r, t, n)'
<1>1. PICK k \in Nat : n <= k /\ Arrive(q, t) = (n + 1)..k /\ HasBeen(t, k) /\ IsAll(t, k)
  BY DEF Follows
<1>2. Arrive(r, t) = Arrive(q, t) \cup Arrive(es, t) /\ HasBeen(t, k)'
  <2>1. \A x : x \in Arrive(r, t) <=> x \in Arrive(q, t) \/ x \in Arrive(es, t)
    BY ArriveMore
  <2>2. Arrive(r, t) = Arrive(q, t) \cup Arrive(es, t)
    BY <2>1
  <2>3. HasBeen(t, k)'
    BY <1>1, ServerSaid
  <2> QED
    BY <2>2, <2>3
<1>3. CASE NoChunk
  <2>1. IsAll(t, k)'
    BY <1>1, <1>3, ServerSaid
  <2>3. Arrive(es, t) = {}
    <3>1. \A i \in DOMAIN es : IsDelta(es[i], t) => FALSE
      <4> SUFFICES ASSUME NEW i \in DOMAIN es, IsDelta(es[i], t) PROVE FALSE
        OBVIOUS
      <4>1. PICK m : m = es[i].arg
        OBVIOUS
      <4>2. i = 1 /\ DOMAIN es = {1} /\ t = srv.turn /\ Chunk(m)
        BY <4>1 DEF Says
      <4>3. srv.of \in Sessions /\ srv.turn \in Turns /\ m = Count(log[srv.of], srv.turn) + 1
        BY <4>2 DEF Chunk
      <4>4. Count(log'[srv.of], srv.turn) = m
        BY <4>2, <4>3, ChunkCounts
      <4>5. Count(log'[srv.of], srv.turn) = Count(log[srv.of], srv.turn)
        BY <1>3, <4>3, NoChunkCounts
      <4>6. Count(log[srv.of], srv.turn) \in Nat
        BY <4>3, CountTyped DEF Types
      <4> QED
        BY <4>3, <4>4, <4>5, <4>6
    <3> QED
      BY <3>1 DEF Arrive
  <2> QED
    BY <1>1, <1>2, <2>1, <2>3 DEF Follows
<1>4. ASSUME NEW m, Chunk(m), es = <<Delta(srv.turn, m)>> PROVE Follows(r, t, n)'
  <2>1. /\ srv.of \in Sessions /\ srv.turn \in Turns /\ m = Count(log[srv.of], srv.turn) + 1
        /\ Count(log[srv.of], srv.turn) \in Nat /\ UNCHANGED srv
    BY <1>4, CountTyped DEF Chunk, Types
  <2>2. PICK e : e = Delta(srv.turn, m)
    OBVIOUS
  <2>3. e.type = "turn.delta" /\ e.of = srv.turn /\ e.arg = m
    BY <2>1, <2>2, MadeTypes
  <2>4. DOMAIN es = {1} /\ es[1] = e
    BY <1>4, <2>2
  <2>5. CASE t # srv.turn
    <3>1. Arrive(es, t) = {}
      BY <2>3, <2>4, <2>5 DEF Arrive, IsDelta
    <3>2. IsAll(t, k)'
      BY <2>1, <2>5 DEF IsAll
    <3> QED
      BY <1>1, <1>2, <3>1, <3>2 DEF Follows
  <2>6. CASE t = srv.turn
    <3>1. Arrive(es, t) = {m}
      <4>1. \A x : x \in Arrive(es, t) <=> x = m
        BY <2>3, <2>4, <2>6 DEF Arrive, IsDelta
      <4> QED
        BY <4>1
    <3>2. k = Count(log[srv.of], srv.turn)
      BY <1>1, <2>1, <2>6 DEF IsAll
    <3>3. Arrive(r, t) = (n + 1)..m /\ n <= m /\ m \in Nat
      <4>1. m = k + 1
        BY <2>1, <3>2
      <4>2. \A x : x \in (n + 1)..m <=> x \in (n + 1)..k \/ x = m
        BY <1>1, <4>1
      <4>3. \A x : x \in Arrive(r, t) <=> x \in (n + 1)..m
        BY <1>1, <1>2, <3>1, <4>2
      <4>4. Arrive(r, t) = (n + 1)..m
        BY <4>3, Zenon
      <4> QED
        BY <1>1, <4>1, <4>4
    <3>4. Count(log'[srv.of], t) = m
      BY <1>4, <2>1, <2>6, ChunkCounts
    <3>5. HasBeen(t, m)'
      BY <2>1, <3>3, <3>4 DEF HasBeen
    <3>6. IsAll(t, m)'
      BY <2>1, <3>4 DEF IsAll
    <3> QED
      BY <3>3, <3>5, <3>6 DEF Follows
  <2> QED
    BY <2>5, <2>6
<1> QED
  BY <1>3, <1>4

(* Of a turn that starts there is nothing yet.                               *)
LEMMA StartFollows ==
  ASSUME Types, HomeInv, LogInv, link = "open", ServerKinds,
         NEW q \in Seq(Frames), Unwaited(q), NEW es \in Seq(Frames), NEW r, r = q \o es,
         Says(es), NEW t \in Turns, Runs(t)
  PROVE  Follows(r, t, 0)'
<1>1. Arrive(r, t) = Arrive(q, t) \cup Arrive(es, t)
  <2>1. \A x : x \in Arrive(r, t) <=> x \in Arrive(q, t) \/ x \in Arrive(es, t)
    BY ArriveMore
  <2> QED
    BY <2>1
<1>2. IsWaiting(t) /\ srv.turn = NoTurn
  BY ServerTurns
<1>3. Arrive(q, t) = {}
  BY <1>2 DEF Unwaited, Arrive, IsDelta, IsAbout, TurnFrames
<1>4. Arrive(es, t) = {}
  BY <1>2, NullTurn DEF Says, Arrive
<1>5. Arrive(r, t) = (0 + 1)..0 /\ 0 \in Nat
  BY <1>1, <1>3, <1>4
<1>6. HasBeen(t, 0)'
  BY DEF HasBeen
<1>7. IsAll(t, 0)'
  BY ServerSaid
<1> QED
  BY <1>5, <1>6, <1>7 DEF Follows

LEMMA Regrouped ==
  ASSUME NEW p \in Seq(Frames), NEW w \in Seq(Frames), NEW es \in Seq(Frames),
         NEW q, q = p \o w, NEW x, x = w \o es, NEW r, r = p \o x
  PROVE  r = q \o es
<1>1. PICK y : y = q \o es
  OBVIOUS
<1>2. /\ q \in Seq(Frames) /\ Len(q) = Len(p) + Len(w)
      /\ Len(p) \in Nat /\ Len(w) \in Nat /\ Len(es) \in Nat
      /\ \A i \in 1..Len(p) : q[i] = p[i]
      /\ \A i \in 1..Len(w) : q[Len(p) + i] = w[i]
  BY Appended
<1>3. /\ x \in Seq(Frames) /\ Len(x) = Len(w) + Len(es)
      /\ \A i \in 1..Len(w) : x[i] = w[i]
      /\ \A i \in 1..Len(es) : x[Len(w) + i] = es[i]
  BY Appended
<1>4. /\ r \in Seq(Frames) /\ Len(r) = Len(p) + Len(x)
      /\ \A i \in 1..Len(p) : r[i] = p[i]
      /\ \A i \in 1..Len(x) : r[Len(p) + i] = x[i]
  BY <1>3, Appended
<1>5. /\ y \in Seq(Frames) /\ Len(y) = Len(q) + Len(es)
      /\ \A i \in 1..Len(q) : y[i] = q[i]
      /\ \A i \in 1..Len(es) : y[Len(q) + i] = es[i]
  BY <1>1, <1>2, Appended
<1>6. Len(r) = Len(y)
  BY <1>2, <1>3, <1>4, <1>5
<1>7. ASSUME NEW i \in 1..Len(r) PROVE r[i] = y[i]
  <2>1. CASE i <= Len(p)
    <3>1. i \in 1..Len(p) /\ i \in 1..Len(q)
      BY <1>2, <1>4, <2>1
    <3> QED
      BY <1>2, <1>4, <1>5, <3>1
  <2>2. CASE i > Len(p) /\ i <= Len(p) + Len(w)
    <3>1. PICK j : j = i - Len(p)
      OBVIOUS
    <3>2. j \in 1..Len(w) /\ j \in 1..Len(x) /\ i = Len(p) + j /\ i \in 1..Len(q)
      BY <1>2, <1>3, <1>4, <2>2, <3>1
    <3>3. q[i] = w[j]
      BY <1>2, <3>2
    <3>4. x[j] = w[j] /\ r[i] = x[j] /\ y[i] = q[i]
      BY <1>3, <1>4, <1>5, <3>2
    <3> QED
      BY <3>3, <3>4
  <2>3. CASE i > Len(p) + Len(w)
    <3>1. PICK j, k : j = i - (Len(p) + Len(w)) /\ k = i - Len(p)
      OBVIOUS
    <3>2. j \in 1..Len(es) /\ k \in 1..Len(x) /\ k = Len(w) + j /\ i = Len(p) + k /\ i = Len(q) + j
      BY <1>2, <1>3, <1>4, <2>3, <3>1
    <3>3. r[i] = x[k] /\ x[k] = es[j] /\ y[i] = es[j]
      BY <1>3, <1>4, <1>5, <3>2
    <3> QED
      BY <3>3
  <2> QED
    BY <1>2, <1>4, <2>1, <2>2, <2>3
<1>8. r = y
  BY <1>4, <1>5, <1>6, <1>7, SameSeq
<1> QED
  BY <1>1, <1>8

(* The chunks that were heard of are of the turn's one session.              *)
LEMMA HeardAtHome ==
  ASSUME Types, HomeInv, LogInv, NEW m, Chunk(m), NEW a \in Nat, HasBeen(srv.turn, a)
  PROVE  a < m
<1>1. /\ srv.of \in Sessions /\ srv.turn \in Turns /\ m = Count(log[srv.of], srv.turn) + 1
      /\ log \in [Sessions -> Seq(Frames)]
  BY DEF Chunk, Types
<1>2. \A s \in Sessions : Count(log[s], srv.turn) \in Nat
  BY <1>1, CountTyped
<1>3. CASE a > 0
  <2>1. PICK s \in Sessions : a <= Count(log[s], srv.turn)
    BY <1>3 DEF HasBeen
  <2>2. Count(log[s], srv.turn) > 0
    BY <1>2, <1>3, <2>1
  <2>3. \E i \in DOMAIN log[s] : log[s][i].type = "turn.delta" /\ log[s][i].of = srv.turn
    BY <1>1, <2>2, CountTyped
  <2>4. LogHas(s, srv.turn)
    BY <2>3 DEF LogHas, IsAbout, TurnFrames
  <2>5. LogHas(srv.of, srv.turn)
    BY <1>1 DEF HomeInv, RunsAtHome
  <2>6. s = srv.of
    BY <1>1, <2>4, <2>5 DEF HomeInv, OneHome, IsHome
  <2> QED
    BY <1>1, <1>2, <2>1, <2>6
<1>4. CASE a = 0
  BY <1>1, <1>2, <1>4
<1> QED
  BY <1>3, <1>4

(* What the server adds keeps the order of the queue.                        *)
LEMMA ServerKeepsOrder ==
  ASSUME Types, HomeInv, LogInv, link = "open", ServerKinds,
         NEW q \in Seq(Frames), Unwaited(q), Queue(q),
         NEW es \in Seq(Frames), Says(es), NEW r, r = q \o es
  PROVE  Rising(r) /\ StartsFirst(r)
<1>1. /\ r \in Seq(Frames) /\ Len(q) \in Nat /\ DOMAIN q = 1..Len(q) /\ DOMAIN r \subseteq Nat
      /\ \A i \in DOMAIN r : \/ i \in DOMAIN q /\ r[i] = q[i]
                             \/ i > Len(q) /\ i - Len(q) \in DOMAIN es /\ r[i] = es[i - Len(q)]
  BY Appended
<1>2. ASSUME NEW i \in DOMAIN r, NEW j \in DOMAIN r, NEW t \in Turns,
             i < j, IsDelta(r[i], t), IsDelta(r[j], t)
      PROVE  r[i].arg < r[j].arg
  <2>1. CASE j \in DOMAIN q /\ r[j] = q[j]
    <3>1. i \in DOMAIN q /\ r[i] = q[i]
      BY <1>1, <1>2, <2>1
    <3> QED
      BY <1>2, <2>1, <3>1 DEF Queue, Rising
  <2>2. CASE j > Len(q) /\ j - Len(q) \in DOMAIN es /\ r[j] = es[j - Len(q)]
    <3>1. PICK k : k = j - Len(q)
      OBVIOUS
    <3>2. k \in DOMAIN es /\ IsDelta(es[k], t) /\ r[j] = es[k]
      BY <1>2, <2>2, <3>1
    <3>3. k = 1 /\ DOMAIN es = {1} /\ t = srv.turn /\ Chunk(es[k].arg)
      BY <3>2 DEF Says
    <3>4. i \in DOMAIN q /\ r[i] = q[i]
      BY <1>1, <1>2, <3>1, <3>3
    <3>5. q[i] \in Frames /\ q[i].arg \in Nat
      <4>1. q[i] \in Frames
        BY <3>4
      <4> QED
        BY <1>2, <3>4, <4>1, FrameFacts DEF IsDelta
    <3>6. HasBeen(srv.turn, q[i].arg)
      BY <1>2, <3>3, <3>4 DEF Queue, Heard
    <3>7. q[i].arg < es[k].arg
      BY <3>3, <3>5, <3>6, HeardAtHome
    <3> QED
      BY <3>2, <3>4, <3>7
  <2> QED
    BY <1>1, <2>1, <2>2
<1>3. ASSUME NEW i \in DOMAIN r, NEW j \in DOMAIN r, NEW t \in Turns,
             i < j, IsStart(r[j], t)
      PROVE  ~IsAbout(r[i], t)
  <2>1. CASE j \in DOMAIN q /\ r[j] = q[j]
    <3>1. i \in DOMAIN q /\ r[i] = q[i]
      BY <1>1, <1>3, <2>1
    <3> QED
      BY <1>3, <2>1, <3>1 DEF Queue, StartsFirst
  <2>2. CASE j > Len(q) /\ j - Len(q) \in DOMAIN es /\ r[j] = es[j - Len(q)]
    <3>1. PICK k : k = j - Len(q)
      OBVIOUS
    <3>2. k \in DOMAIN es /\ IsStart(es[k], t)
      BY <1>3, <2>2, <3>1
    <3>3. k = 1 /\ Runs(t)
      BY <3>2 DEF Says
    <3>4. i \in DOMAIN q /\ r[i] = q[i]
      BY <1>1, <1>3, <3>1, <3>3
    <3>5. IsWaiting(t)
      BY <3>3, ServerTurns
    <3> QED
      BY <3>4, <3>5 DEF Unwaited
  <2> QED
    BY <1>1, <2>1, <2>2
<1> QED
  BY <1>2, <1>3 DEF Rising, StartsFirst

(* What the server adds was said, and a start brings its turn from the first *)
(* chunk on.                                                                 *)
LEMMA ServerIsHeard ==
  ASSUME Types, HomeInv, LogInv, link = "open", ServerKinds,
         NEW q \in Seq(Frames), Unwaited(q), Queue(q),
         NEW es \in Seq(Frames), Says(es), NEW r, r = q \o es,
         NoChunk \/ \E n : Chunk(n) /\ es = <<Delta(srv.turn, n)>>
  PROVE  StartsWhole(r)' /\ Heard(r)'
<1>1. \A i \in DOMAIN r : \/ i \in DOMAIN q /\ r[i] = q[i]
                          \/ \E j \in DOMAIN es : r[i] = es[j]
  BY Appended
<1>2. ASSUME NEW j \in DOMAIN r, NEW t \in Turns, IsStart(r[j], t) PROVE Follows(r, t, 0)'
  <2>1. CASE Runs(t)
    BY <2>1, StartFollows
  <2>2. CASE ~Runs(t)
    <3>1. ~\E k \in DOMAIN es : r[j] = es[k]
      BY <1>2, <2>2 DEF Says
    <3>2. j \in DOMAIN q /\ IsStart(q[j], t)
      BY <1>1, <1>2, <3>1
    <3>3. Follows(q, t, 0) /\ 0 \in Nat
      BY <3>2 DEF Queue, StartsWhole
    <3> QED
      BY <2>2, <3>3, ServerFollows
  <2> QED
    BY <2>1, <2>2
<1>3. ASSUME NEW i \in DOMAIN r, NEW t \in Turns, IsDelta(r[i], t) PROVE HasBeen(t, r[i].arg)'
  <2>1. CASE i \in DOMAIN q /\ r[i] = q[i]
    <3>1. q[i] \in Frames
      BY <2>1
    <3>2. q[i].arg \in Nat /\ HasBeen(t, q[i].arg)
      BY <1>3, <2>1, <3>1, FrameFacts DEF IsDelta, Queue, Heard
    <3>3. PICK k \in Nat : k = q[i].arg
      BY <3>2
    <3>4. HasBeen(t, k)'
      BY <3>2, <3>3, ServerSaid
    <3>5. r[i].arg = k
      BY <2>1, <3>3
    <3> QED
      BY <3>4, <3>5
  <2>2. ASSUME NEW j \in DOMAIN es, r[i] = es[j] PROVE HasBeen(t, r[i].arg)'
    <3>1. PICK m : m = es[j].arg
      OBVIOUS
    <3>2. t = srv.turn /\ Chunk(m)
      BY <1>3, <2>2, <3>1 DEF Says
    <3>3. srv.of \in Sessions /\ Count(log'[srv.of], srv.turn) = m
      BY <3>2, ChunkCounts DEF Chunk
    <3>4. Count(log[srv.of], srv.turn) \in Nat /\ m = Count(log[srv.of], srv.turn) + 1
      BY <3>2, <3>3, CountTyped DEF Chunk, Types
    <3>5. PICK o \in Sessions : o = srv.of
      BY <3>3
    <3>6. m <= Count(log'[o], t)
      BY <3>2, <3>3, <3>4, <3>5
    <3>7. HasBeen(t, m)'
      BY <3>6 DEF HasBeen
    <3> QED
      BY <2>2, <3>1, <3>7
  <2> QED
    BY <1>1, <2>1, <2>2
<1> QED
  BY <1>2, <1>3 DEF StartsWhole, Heard

(* The entries still fit.                                                    *)
LEMMA ServerFitsEntry ==
  ASSUME Types, HomeInv, LogInv, link = "open", ServerKinds,
         NEW q \in Seq(Frames), Unwaited(q), Queue(q),
         NEW es \in Seq(Frames), Says(es), NEW r, r = q \o es,
         NoChunk \/ \E n : Chunk(n) /\ es = <<Delta(srv.turn, n)>>,
         NEW v, NEW e, e.of \in Turns, Len(e.text) \in Nat, FitsEntry(v, q, e)
  PROVE  FitsEntry(v, r, e)'
<1>1. PICK t \in Turns, n \in Nat : t = e.of /\ n = Len(e.text)
  OBVIOUS
<1>2. HasBeen(t, n)'
  BY <1>1, ServerSaid DEF FitsEntry, Sound
<1>3. Sound(e)'
  BY <1>1, <1>2 DEF FitsEntry, Sound
<1>4. ToCome(r, t)' => ToCome(q, t)
  <2> SUFFICES ASSUME ToCome(r, t)' PROVE ToCome(q, t)
    OBVIOUS
  <2>1. CASE IsWaiting(t)'
    BY <2>1, ServerTurns DEF ToCome
  <2>2. ASSUME NEW j \in DOMAIN r, IsStart(r[j], t) PROVE ToCome(q, t)
    <3>1. \/ j \in DOMAIN q /\ r[j] = q[j]
          \/ \E k \in DOMAIN es : r[j] = es[k]
      BY <2>2, Appended
    <3>2. ASSUME NEW k \in DOMAIN es, r[j] = es[k] PROVE IsWaiting(t)
      <4>1. Runs(t)
        BY <2>2, <3>2 DEF Says
      <4> QED
        BY <4>1, ServerTurns
    <3> QED
      BY <2>2, <3>1, <3>2 DEF ToCome
  <2> QED
    BY <2>1, <2>2 DEF ToCome, IsStart
<1>5. ASSUME e.role = "assistant", t = v.turn, ~IsTerminal(v) PROVE Follows(r, t, n)'
  <2>1. Follows(q, t, n)
    BY <1>1, <1>5 DEF FitsEntry
  <2>2. CASE ~Runs(t)
    BY <2>1, <2>2, ServerFollows
  <2>3. CASE Runs(t)
    <3>1. IsWaiting(t)
      BY <2>3, ServerTurns
    <3>2. n = 0
      BY <1>1, <1>5, <3>1 DEF FitsEntry, ToCome
    <3>3. Follows(r, t, 0)'
      BY <2>3, StartFollows
    <3> QED
      BY <3>2, <3>3
  <2> QED
    BY <2>2, <2>3
<1>6. e.role = "assistant" /\ t = v.turn => (ToCome(r, t)' => e.text = <<>>)
  BY <1>1, <1>4 DEF FitsEntry
<1> QED
  BY <1>1, <1>3, <1>5, <1>6 DEF FitsEntry

LEMMA OpenServerFits ==
  ASSUME Types, HomeInv, LogInv, link = "open", ServerKinds,
         NEW q, q = pending \o wire, NEW v, v = view, Queue(q), Fits(v, q),
         NEW r, r = pending' \o wire', NEW w, w = view'
  PROVE  Queue(r)' /\ Fits(w, r)'
<1>1. q \in Seq(Frames) /\ Unwaited(q)
  BY NoneIsWaited
<1>2. PICK es \in Seq(Frames) : Says(es) /\ (NoChunk \/ \E n : Chunk(n) /\ es = <<Delta(srv.turn, n)>>)
  BY ServerSaysThat
<1>3. r = q \o es /\ w = v /\ v \in ShapedViews
  <2>1. pending' = pending /\ view' = view
    BY ServerKindFacts DEF ServerSide
  <2>2. pending \in Seq(Frames) /\ wire \in Seq(Frames) /\ view \in ShapedViews
    BY DEF Types
  <2>3. wire' = wire \o es
    BY <1>2 DEF Says
  <2>4. PICK x : x = wire \o es
    OBVIOUS
  <2>5. r = pending \o x
    BY <2>1, <2>3, <2>4
  <2>6. r = q \o es
    BY <2>2, <2>4, <2>5, Regrouped
  <2> QED
    BY <2>1, <2>2, <2>6
<1>4. Rising(r) /\ StartsFirst(r)
  BY <1>1, <1>2, <1>3, ServerKeepsOrder
<1>5. StartsWhole(r)' /\ Heard(r)'
  BY <1>1, <1>2, <1>3, ServerIsHeard
<1>6. Queue(r)'
  BY <1>4, <1>5 DEF Queue, Rising, StartsFirst
<1>7. ASSUME NEW i \in DOMAIN v.entries PROVE FitsEntry(v, r, v.entries[i])'
  <2>1. PICK e : e = v.entries[i]
    OBVIOUS
  <2>2. FitsEntry(v, q, e) /\ e.of \in Turns /\ Len(e.text) \in Nat
    BY <1>3, <2>1, EntryShape DEF Fits
  <2>3. FitsEntry(v, r, e)'
    BY <1>1, <1>2, <1>3, <2>2, ServerFitsEntry
  <2> QED
    BY <2>1, <2>3
<1>8. Fits(v, r)'
  BY <1>7 DEF Fits
<1>9. Fits(w, r)'
  BY <1>3, <1>8
<1> QED
  BY <1>6, <1>9

LEMMA ClosedServerFits ==
  ASSUME Types, LogInv, link # "open", ServerKinds,
         NEW q, q = pending \o wire, NEW v, v = view, Queue(q), Fits(v, q),
         NEW r, r = pending' \o wire', NEW w, w = view'
  PROVE  Queue(r)' /\ Fits(w, r)'
<1>1. UNCHANGED <<wire, cmds, pending, view, link>>
  BY ServerKindFacts DEF ServerSide
<1>2. q \in Seq(Frames) /\ v \in ShapedViews /\ r = q /\ w = v
  <2>1. pending \in Seq(Frames) /\ wire \in Seq(Frames) /\ view \in ShapedViews
    BY DEF Types
  <2>2. q \in Seq(Frames)
    BY <2>1, Appended
  <2> QED
    BY <1>1, <2>1, <2>2
<1>3. ASSUME NEW t \in Turns, NEW k \in Nat, HasBeen(t, k) PROVE HasBeen(t, k)'
  <2> SUFFICES ASSUME k > 0 PROVE \E s \in Sessions : k <= Count(log'[s], t)
    BY DEF HasBeen
  <2>1. PICK s \in Sessions : k <= Count(log[s], t)
    BY <1>3 DEF HasBeen
  <2>2. Count(log[s], t) \in Nat /\ Count(log'[s], t) \in Nat /\ Count(log[s], t) <= Count(log'[s], t)
    BY ServerKeepsLogs
  <2>3. k <= Count(log'[s], t)
    BY <2>1, <2>2
  <2> QED
    BY <2>3
<1>4. \A t \in Turns : \A k \in Nat : IsAll(t, k)'
  BY <1>1 DEF IsAll
<1>5. SaysNoLess
  BY <1>3, <1>4 DEF SaysNoLess
<1>6. Queue(q)'
  BY <1>2, <1>5, QueueStays
<1>7. \A t \in Turns : IsWaiting(t)' => IsWaiting(t)
  BY <1>1 DEF IsWaiting
<1>8. \A t \in Owners(v) : t \in Turns
  BY <1>2, EntryShape DEF Owners
<1>9. Fits(w, q)'
  BY <1>2, <1>5, <1>7, <1>8, ViewStays
<1>10. Queue(r)'
  BY <1>2, <1>6
<1>11. Fits(w, r)'
  BY <1>2, <1>9
<1> QED
  BY <1>10, <1>11

(* Beginning a turn, or hydrating, leaves the queue.                         *)
LEMMA QueueIsLeft ==
  ASSUME Types, SentInv, HomeInv, LogInv,
         (\E t \in Turns : Begins(t)) \/ (\E l \in Seq(Frames) : Hydrates(l)),
         NEW q, q = pending \o wire, NEW v, v = view, Queue(q), Fits(v, q),
         NEW r, r = pending' \o wire', NEW w, w = view'
  PROVE  Queue(r)' /\ Fits(w, r)'
<1>1. UNCHANGED <<log, srv, pending, wire>> /\ (link' = link \/ link' # "open" \/ srv = NoConnection)
  BY DEF Begins, TabSide, Hydrates, Moves
<1>2. q \in Seq(Frames) /\ r = q
  <2>1. pending \in Seq(Frames) /\ wire \in Seq(Frames)
    BY DEF Types
  <2>2. q \in Seq(Frames)
    BY <2>1, Appended
  <2> QED
    BY <1>1, <2>2
<1>3. SaysNoLess
  BY <1>1, TabSaysNoLess
<1>4. Queue(q)'
  BY <1>2, <1>3, QueueStays
<1>5. ASSUME NEW t \in Turns, Begins(t) PROVE Fits(w, q)'
  BY <1>5, BeginsFits
<1>6. ASSUME NEW l \in Seq(Frames), Hydrates(l) PROVE Fits(w, q)'
  BY <1>6, HydratesFits
<1>7. Fits(w, q)'
  BY <1>5, <1>6
<1>8. Queue(r)'
  BY <1>2, <1>4
<1>9. Fits(w, r)'
  BY <1>2, <1>7
<1> QED
  BY <1>8, <1>9

(* The inductive invariant of the texts.                                     *)
TextInv ==
  /\ LogInv
  /\ \E q, v : q = pending \o wire /\ v = view /\ Queue(q) /\ Fits(v, q)

LEMMA StepKeepsText ==
  ASSUME Types, SentInv, LinkInv, HomeInv, TextInv, TabKinds \/ ServerKinds
  PROVE  TextInv'
<1>1. PICK q, v : q = pending \o wire /\ v = view /\ Queue(q) /\ Fits(v, q)
  BY DEF TextInv
<1>2. PICK r, w : r = pending' \o wire' /\ w = view'
  OBVIOUS
<1>3. LogInv
  BY DEF TextInv
<1>4. LogInv'
  <2>1. CASE TabKinds
    <3>1. log' = log
      BY <2>1, TabKeepsTypes
    <3> QED
      BY <1>3, <3>1 DEF LogInv, Numbered
  <2>2. CASE ServerKinds
    BY <1>3, <2>2, ServerKeepsLogs
  <2> QED
    BY <2>1, <2>2
<1>5. CASE (\E t \in Turns : Begins(t)) \/ (\E l \in Seq(Frames) : Hydrates(l))
  <2>1. Queue(r)' /\ Fits(w, r)'
    BY <1>1, <1>2, <1>3, <1>5, QueueIsLeft
  <2> QED
    BY <1>2, <1>4, <2>1 DEF TextInv
<1>6. CASE Fails \/ Cancels \/ AsksForOne \/ Waits \/ Joins \/ Drops \/ \E s \in Sessions : Loads(s)
  <2>1. Queue(r)' /\ Fits(w, r)'
    BY <1>1, <1>2, <1>3, <1>6, ClicksFit
  <2> QED
    BY <1>2, <1>4, <2>1 DEF TextInv
<1>7. CASE Receives
  <2>1. Queue(r)' /\ Fits(w, r)'
    BY <1>1, <1>2, <1>3, <1>7, ReceivesFit
  <2> QED
    BY <1>2, <1>4, <2>1 DEF TextInv
<1>8. CASE Paints \/ Resets \/ Closes
  <2>1. Queue(r)' /\ Fits(w, r)'
    BY <1>1, <1>2, <1>3, <1>8, PaintsFit
  <2> QED
    BY <1>2, <1>4, <2>1 DEF TextInv
<1>9. CASE ServerKinds
  <2>1. Queue(r)' /\ Fits(w, r)'
    BY <1>1, <1>2, <1>3, <1>9, OpenServerFits, ClosedServerFits
  <2> QED
    BY <1>2, <1>4, <2>1 DEF TextInv
<1> QED
  BY <1>5, <1>6, <1>7, <1>8, <1>9 DEF TabKinds

LEMMA TextInvariant == Spec => [](CoreInv /\ TextInv)
<1>1. Init => TextInv
  <2> SUFFICES ASSUME Init PROVE TextInv
    OBVIOUS
  <2>1. \A s \in Sessions : log[s] = <<>> /\ DOMAIN <<>> = {}
    BY DEF Init
  <2>2. \A s \in Sessions, t \in Turns : SaidAt(log[s], t, "turn.delta") = {}
    BY <2>1 DEF SaidAt
  <2>3. LogInv
    <3>1. Cardinality({}) = 0 /\ MaxChunks \in Nat
      BY FS_EmptySet, BoundsAreNatural
    <3>2. \A s \in Sessions, t \in Turns : Count(log[s], t) <= MaxChunks
      BY <2>2, <3>1 DEF Count
    <3> QED
      BY <2>2, <3>2 DEF LogInv, Numbered
  <2>4. PICK q, v : q = pending \o wire /\ v = view
    OBVIOUS
  <2>5. q = <<>> /\ v.entries = <<>> /\ DOMAIN <<>> = {}
    BY <2>4 DEF Init, InitialView
  <2>6. Queue(q) /\ Fits(v, q)
    BY <2>5 DEF Queue, Rising, StartsFirst, StartsWhole, Heard, Fits
  <2> QED
    BY <2>3, <2>4, <2>6 DEF TextInv
<1>2. CoreInv /\ TextInv /\ [Next]_vars => TextInv'
  <2> SUFFICES ASSUME CoreInv, TextInv, [Next]_vars PROVE TextInv'
    OBVIOUS
  <2>1. Types /\ GateInv /\ SentInv /\ LinkInv /\ HomeInv
    BY DEF CoreInv
  <2>2. TabKinds \/ ServerKinds
    BY <2>1, StepReduces DEF Steps, TabKinds, ServerKinds
  <2> QED
    BY <2>1, <2>2, StepKeepsText
<1> QED
  BY <1>1, <1>2, CoreInvariant, PTL DEF Spec

(* An entry's text is the beginning of what the server has said of its turn. *)
LEMMA TextsAreSaid ==
  ASSUME Types, TextInv, NEW i \in DOMAIN view.entries, NEW e, e = view.entries[i]
  PROVE  /\ e \in ShapedEntries /\ Len(e.text) \in Nat /\ e.text = Upto(Len(e.text))
         /\ Len(e.text) > 0 => \E s \in Sessions : Len(e.text) <= Count(log[s], e.of)
<1>1. PICK q, v : q = pending \o wire /\ v = view /\ Queue(q) /\ Fits(v, q)
  BY DEF TextInv
<1>2. v \in ShapedViews /\ i \in DOMAIN v.entries /\ e = v.entries[i]
  BY <1>1 DEF Types
<1>3. e \in ShapedEntries /\ e.of \in Turns /\ Len(e.text) \in Nat
  BY <1>2, EntryShape
<1>4. FitsEntry(v, q, e)
  BY <1>1, <1>2 DEF Fits
<1> QED
  BY <1>3, <1>4 DEF FitsEntry, Sound, HasBeen

(* The text on screen is a prefix of what a log holds of its turn            *)
(* (event-coalescer.ts, reducer.ts): deltas that were merged, replayed from  *)
(* a page, or delivered after a reconnect neither repeat nor skip a chunk.   *)
THEOREM TextsAreWhatWasSaid == Spec => []TextIsWhatWasSaid
<1>1. CoreInv /\ TextInv => TextIsWhatWasSaid
  <2> SUFFICES ASSUME CoreInv, TextInv, NEW i \in DOMAIN view.entries,
                      NEW e, e = view.entries[i], e.text # <<>>
               PROVE  \E s \in Sessions : IsPrefix(e.text, TextOf(log[s], e.of))
    BY DEF TextIsWhatWasSaid
  <2>1. Types
    BY DEF CoreInv
  <2>2. PICK n \in Nat : n = Len(e.text) /\ e.text = Upto(n) /\ e.of \in Turns
    BY <2>1, TextsAreSaid DEF ShapedEntries
  <2>3. n > 0
    <3>1. Upto(0) = <<>>
      BY DEF Upto
    <3> QED
      BY <2>2, <3>1
  <2>4. PICK s \in Sessions : n <= Count(log[s], e.of)
    BY <2>1, <2>2, <2>3, TextsAreSaid
  <2>5. log[s] \in Seq(Frames) /\ Numbered(log[s])
    BY <2>1 DEF Types, TextInv, LogInv
  <2>6. PICK c : c = Count(log[s], e.of)
    OBVIOUS
  <2>7. c \in Nat /\ TextOf(log[s], e.of) = Upto(c) /\ n <= c
    BY <2>2, <2>4, <2>5, <2>6, TextFacts
  <2>8. PICK a, b : a = Upto(n) /\ b = Upto(c)
    OBVIOUS
  <2>9. a \in Seq(Nat) /\ b \in Seq(Nat) /\ Len(a) = n /\ Len(b) = c
    BY <2>7, <2>8, UptoGrows
  <2>10. SubSeq(a, 1, n) = SubSeq(b, 1, n)
    <3>1. SubSeq(a, 1, n) = [k \in 1..n |-> a[k]] /\ SubSeq(b, 1, n) = [k \in 1..n |-> b[k]]
      BY <2>7, <2>9
    <3>2. \A k \in 1..n : a[k] = k /\ b[k] = k
      BY <2>7, <2>8 DEF Upto
    <3> QED
      BY <3>1, <3>2
  <2>11. IsPrefix(a, b)
    BY <2>7, <2>9, <2>10 DEF IsPrefix
  <2> QED
    BY <2>2, <2>7, <2>8, <2>11
<1> QED
  BY <1>1, TextInvariant, PTL

(* The tab keeps its types, and no text is longer than a turn's chunks       *)
(* (reducer.ts): no refused, repeated or late event makes the view malformed.*)
THEOREM TabStaysTyped == Spec => []TypeOK
<1>1. CoreInv /\ TextInv => TypeOK
  <2> SUFFICES ASSUME CoreInv, TextInv PROVE TypeOK
    OBVIOUS
  <2>1. Types /\ SentInv /\ MaxChunks \in Nat
    BY BoundsAreNatural DEF CoreInv
  <2>2. PICK es : es = view.entries
    OBVIOUS
  <2>3. es \in Seq(ShapedEntries)
    BY <2>1, <2>2 DEF Types, ShapedViews
  <2>4. ASSUME NEW i \in DOMAIN es PROVE es[i] \in Entries
    <3>1. PICK e : e = es[i]
      OBVIOUS
    <3>2. PICK n \in Nat : n = Len(e.text) /\ e.text = Upto(n) /\ e \in ShapedEntries
      BY <2>1, <2>2, <2>4, <3>1, TextsAreSaid
    <3>3. n <= MaxChunks
      <4>1. CASE n = 0
        BY <2>1, <4>1
      <4>2. CASE n > 0
        <5>1. PICK s \in Sessions : n <= Count(log[s], e.of)
          BY <2>1, <2>2, <2>4, <3>1, <3>2, <4>2, TextsAreSaid
        <5>2. e.of \in Turns /\ log[s] \in Seq(Frames)
          BY <2>1, <3>2 DEF ShapedEntries, Types
        <5>3. Count(log[s], e.of) <= MaxChunks /\ Count(log[s], e.of) \in Nat
          BY <5>2, CountTyped DEF TextInv, LogInv
        <5> QED
          BY <2>1, <3>2, <5>1, <5>3
      <4> QED
        BY <3>2, <4>1, <4>2
    <3>4. Upto(n) \in [1..n -> 1..MaxChunks] /\ n \in 0..(2 * MaxChunks)
      BY <2>1, <3>2, <3>3 DEF Upto
    <3>5. e.text \in Texts
      BY <3>2, <3>4 DEF Texts
    <3> QED
      BY <3>1, <3>2, <3>5 DEF ShapedEntries, Entries
  <2>5. view.entries \in Seq(Entries)
    BY <2>2, <2>3, <2>4
  <2>6. view \in Views
    BY <2>1, <2>5 DEF Types, ShapedViews, Views
  <2> QED
    BY <2>1, <2>6 DEF TypeOK, Types, Coalesced, SentInv, Fates, Links
<1> QED
  BY <1>1, TextInvariant, PTL
=============================================================================
