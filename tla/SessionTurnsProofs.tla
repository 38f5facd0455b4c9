------------------------ MODULE SessionTurnsProofs ------------------------
(* Proofs about SessionTurns: what is recorded of the turns of a           *)
(* connection and what its viewer is told.  Each step is first reduced to  *)
(* what it does to the open turn and to the logs (Begins, Streams, Ends,   *)
(* Idles); the invariants of the logs follow from that alone.              *)
EXTENDS SessionTurns, TLAPS

----------------------------------------------------------------------------
(* Sequences of events *)

TurnFree(seq) == \A i \in DOMAIN seq : seq[i] \notin TurnEvents

(* e is the only event of a turn in seq.                                   *)
Lone(seq, e) ==
  \E k \in DOMAIN seq : /\ seq[k] = e
                        /\ \A i \in DOMAIN seq : i # k => seq[i] \notin TurnEvents

(* e is the last event of a turn in seq.                                   *)
Latest(seq, e) ==
  \E k \in DOMAIN seq : /\ seq[k] = e
                        /\ \A i \in DOMAIN seq : i > k => seq[i] \notin TurnEvents

(* OneTerminalEvent and TurnsDoNotOverlap of one log.                      *)
EndedOnce(seq) ==
  \A i \in DOMAIN seq :
    seq[i].type = "turn.completed" =>
      /\ \E j \in 1..(i - 1) : seq[j] = Started(seq[i].of)
      /\ \A j \in 1..(i - 1) : seq[j] # seq[i]

Ordered(seq) ==
  \A j \in DOMAIN seq :
    seq[j] \in TurnEvents =>
      IF seq[j].type = "turn.started"
        THEN \A i \in 1..(j - 1) :
               Precedes(seq, i, j) => seq[i].type = "turn.completed"
        ELSE \E i \in 1..(j - 1) :
               /\ Precedes(seq, i, j)
               /\ seq[i] \in {Started(seq[j].of), Chunk(seq[j].of)}

(* What an event of a turn needs before it in a log.                       *)
Fits(seq, e) ==
  IF e.type = "turn.started"
    THEN \A x \in TurnEvents : Latest(seq, x) => x.type = "turn.completed"
    ELSE Latest(seq, Started(e.of)) \/ Latest(seq, Chunk(e.of))

EndFits(seq, e) ==
  e.type = "turn.completed" => Occurs(Started(e.of), seq) /\ ~Occurs(e, seq)

LEMMA EventFacts ==
  /\ \A t \in Turns : /\ Started(t) \in TurnEvents /\ Chunk(t) \in TurnEvents
                      /\ Completed(t) \in TurnEvents
                      /\ Started(t).type = "turn.started" /\ Chunk(t).type = "turn.delta"
                      /\ Completed(t).type = "turn.completed"
                      /\ Started(t).of = t /\ Chunk(t).of = t /\ Completed(t).of = t
  /\ \A s \in Sessions : /\ Opened(s) \in Events /\ Opened(s) \notin TurnEvents
                         /\ Closed(s) \in Events /\ Closed(s) \notin TurnEvents
                         /\ Reaped(s) \in Events /\ Reaped(s) \notin TurnEvents
                         /\ Opened(s).type = "session.opened"
                         /\ Closed(s).type = "session.closed"
                         /\ Reaped(s).type = "seat.reaped"
  /\ \A e \in Events : e.type = "turn.completed" => e \in TurnEvents /\ e = Completed(e.of)
  /\ TurnEvents \subseteq Events
  /\ \A e \in TurnEvents : e.of \in Turns
BY DEF Started, Chunk, Completed, Opened, Closed, Reaped, TurnEvents, SessionEvents, Events

(* What follows the appending of events without a turn's.                  *)
LEMMA AddNone ==
  ASSUME NEW a \in Seq(Events), NEW b \in Seq(Events), TurnFree(b)
  PROVE  /\ a \o b \in Seq(Events)
         /\ \A e \in TurnEvents : /\ Occurs(e, a \o b) <=> Occurs(e, a)
                                  /\ Latest(a \o b, e) <=> Latest(a, e)
         /\ EndedOnce(a) => EndedOnce(a \o b)
         /\ Ordered(a) => Ordered(a \o b)
<1> DEFINE c == a \o b
<1>1. /\ c \in Seq(Events)
      /\ Len(c) = Len(a) + Len(b)
      /\ DOMAIN a = 1..Len(a) /\ DOMAIN b = 1..Len(b) /\ DOMAIN c = 1..Len(c)
      /\ Len(a) \in Nat /\ Len(b) \in Nat
      /\ \A i \in DOMAIN a : i \in DOMAIN c /\ c[i] = a[i]
  OBVIOUS
<1>2. \A i \in DOMAIN c : i \notin DOMAIN a => c[i] \notin TurnEvents
  <2> SUFFICES ASSUME NEW i \in DOMAIN c, i \notin DOMAIN a PROVE c[i] \notin TurnEvents
    OBVIOUS
  <2>1. i - Len(a) \in DOMAIN b /\ c[i] = b[i - Len(a)]
    BY <1>1
  <2> QED
    BY <2>1 DEF TurnFree
<1>3. \A i \in DOMAIN c : c[i] \in Events
  BY <1>1
<1> HIDE DEF c
<1>4. ASSUME NEW e \in TurnEvents
      PROVE  (Occurs(e, c) <=> Occurs(e, a)) /\ (Latest(c, e) <=> Latest(a, e))
  BY <1>1, <1>2 DEF Occurs, Latest
<1>5. EndedOnce(a) => EndedOnce(c)
  <2> SUFFICES ASSUME EndedOnce(a), NEW i \in DOMAIN c, c[i].type = "turn.completed"
               PROVE  /\ \E j \in 1..(i - 1) : c[j] = Started(c[i].of)
                      /\ \A j \in 1..(i - 1) : c[j] # c[i]
    BY DEF EndedOnce
  <2>1. i \in DOMAIN a
    BY <1>2, <1>3, EventFacts
  <2>2. 1..(i - 1) \subseteq DOMAIN a
    BY <1>1, <2>1
  <2> QED
    BY <1>1, <2>1, <2>2 DEF EndedOnce
<1>6. Ordered(a) => Ordered(c)
  <2> SUFFICES ASSUME Ordered(a), NEW j \in DOMAIN c, c[j] \in TurnEvents
               PROVE  IF c[j].type = "turn.started"
                        THEN \A i \in 1..(j - 1) :
                               Precedes(c, i, j) => c[i].type = "turn.completed"
                        ELSE \E i \in 1..(j - 1) :
                               /\ Precedes(c, i, j)
                               /\ c[i] \in {Started(c[j].of), Chunk(c[j].of)}
    BY DEF Ordered
  <2>1. j \in DOMAIN a /\ c[j] = a[j]
    BY <1>1, <1>2
  <2>2. 1..(j - 1) \subseteq DOMAIN a
    BY <1>1, <2>1
  <2>3. \A i \in 1..(j - 1) : c[i] = a[i] /\ (Precedes(c, i, j) <=> Precedes(a, i, j))
    <3> SUFFICES ASSUME NEW i \in 1..(j - 1)
                 PROVE  c[i] = a[i] /\ (Precedes(c, i, j) <=> Precedes(a, i, j))
      OBVIOUS
    <3>1. (i + 1)..(j - 1) \subseteq 1..(j - 1)
      BY <1>1, <2>1
    <3>2. \A k \in 1..(j - 1) : c[k] = a[k]
      BY <1>1, <2>2
    <3> QED
      BY <3>1, <3>2 DEF Precedes
  <2> QED
    BY <2>1, <2>3 DEF Ordered
<1> QED
  BY <1>1, <1>4, <1>5, <1>6 DEF c

(* And of events one of which is a turn's.                                 *)
LEMMA AddOne ==
  ASSUME NEW a \in Seq(Events), NEW b \in Seq(Events), NEW e \in TurnEvents, Lone(b, e)
  PROVE  /\ a \o b \in Seq(Events)
         /\ \A x \in TurnEvents : /\ Occurs(x, a \o b) <=> Occurs(x, a) \/ x = e
                                  /\ Latest(a \o b, x) <=> x = e
         /\ EndedOnce(a) /\ EndFits(a, e) => EndedOnce(a \o b)
         /\ Ordered(a) /\ Fits(a, e) => Ordered(a \o b)
<1> DEFINE c == a \o b
<1>1. /\ c \in Seq(Events)
      /\ Len(c) = Len(a) + Len(b)
      /\ DOMAIN a = 1..Len(a) /\ DOMAIN b = 1..Len(b) /\ DOMAIN c = 1..Len(c)
      /\ Len(a) \in Nat /\ Len(b) \in Nat
      /\ \A i \in DOMAIN a : i \in DOMAIN c /\ c[i] = a[i]
      /\ \A i \in DOMAIN b : Len(a) + i \in DOMAIN c /\ c[Len(a) + i] = b[i]
  OBVIOUS
<1>2. PICK n \in DOMAIN c : /\ n \notin DOMAIN a /\ c[n] = e
                            /\ \A i \in DOMAIN c : i \notin DOMAIN a /\ i # n =>
                                                     c[i] \notin TurnEvents
  <2>1. PICK k \in DOMAIN b : b[k] = e /\ \A i \in DOMAIN b : i # k => b[i] \notin TurnEvents
    BY DEF Lone
  <2>2. /\ Len(a) + k \in DOMAIN c /\ Len(a) + k \notin DOMAIN a /\ c[Len(a) + k] = e
    BY <1>1, <2>1
  <2>3. ASSUME NEW i \in DOMAIN c, i \notin DOMAIN a, i # Len(a) + k
        PROVE  c[i] \notin TurnEvents
    <3>1. i - Len(a) \in DOMAIN b /\ i - Len(a) # k /\ c[i] = b[i - Len(a)]
      BY <1>1, <2>3
    <3> QED
      BY <2>1, <3>1
  <2> QED
    BY <2>2, <2>3
<1>3. \A i \in DOMAIN c : c[i] \in Events
  BY <1>1
<1> HIDE DEF c
<1>a. /\ n \in Nat /\ n > Len(a) /\ \A i \in DOMAIN a : i < n
      /\ 1..Len(a) \subseteq 1..(n - 1)
  BY <1>1, <1>2
<1>4. ASSUME NEW x \in TurnEvents
      PROVE  (Occurs(x, c) <=> Occurs(x, a) \/ x = e) /\ (Latest(c, x) <=> x = e)
  <2>1. Occurs(x, c) <=> Occurs(x, a) \/ x = e
    BY <1>1, <1>2 DEF Occurs
  <2>2. Latest(c, x) <=> x = e
    BY <1>1, <1>2, <1>a DEF Latest
  <2> QED
    BY <2>1, <2>2
<1>5. EndedOnce(a) /\ EndFits(a, e) => EndedOnce(c)
  <2> SUFFICES ASSUME EndedOnce(a), EndFits(a, e),
                      NEW i \in DOMAIN c, c[i].type = "turn.completed"
               PROVE  /\ \E j \in 1..(i - 1) : c[j] = Started(c[i].of)
                      /\ \A j \in 1..(i - 1) : c[j] # c[i]
    BY DEF EndedOnce
  <2>1. i \in DOMAIN a \/ i = n
    BY <1>2, <1>3, EventFacts
  <2>2. CASE i \in DOMAIN a
    <3>1. 1..(i - 1) \subseteq DOMAIN a
      BY <1>1, <2>2
    <3> QED
      BY <1>1, <2>2, <3>1 DEF EndedOnce
  <2>3. CASE i = n
    <3>1. Occurs(Started(e.of), a) /\ ~Occurs(e, a) /\ e \in TurnEvents
      BY <1>2, <2>3 DEF EndFits
    <3>2. \E j \in 1..(n - 1) : c[j] = Started(e.of)
      BY <1>1, <1>a, <3>1 DEF Occurs
    <3>3. ASSUME NEW j \in 1..(n - 1) PROVE c[j] # e
      <4>1. j \in DOMAIN c
        BY <1>1, <1>2
      <4>2. CASE j \in DOMAIN a
        BY <1>1, <3>1, <4>2 DEF Occurs
      <4>3. CASE j \notin DOMAIN a
        BY <1>2, <1>a, <3>1, <4>1, <4>3
      <4> QED
        BY <4>2, <4>3
    <3> QED
      BY <1>2, <2>3, <3>2, <3>3
  <2> QED
    BY <2>1, <2>2, <2>3
<1>6. Ordered(a) /\ Fits(a, e) => Ordered(c)
  <2> SUFFICES ASSUME Ordered(a), Fits(a, e), NEW j \in DOMAIN c, c[j] \in TurnEvents
               PROVE  IF c[j].type = "turn.started"
                        THEN \A i \in 1..(j - 1) :
                               Precedes(c, i, j) => c[i].type = "turn.completed"
                        ELSE \E i \in 1..(j - 1) :
                               /\ Precedes(c, i, j)
                               /\ c[i] \in {Started(c[j].of), Chunk(c[j].of)}
    BY DEF Ordered
  <2>1. j \in DOMAIN a \/ j = n
    BY <1>2
  <2>2. CASE j \in DOMAIN a
    <3>1. 1..(j - 1) \subseteq DOMAIN a /\ c[j] = a[j]
      BY <1>1, <2>2
    <3>2. \A i \in 1..(j - 1) : c[i] = a[i] /\ (Precedes(c, i, j) <=> Precedes(a, i, j))
      <4> SUFFICES ASSUME NEW i \in 1..(j - 1)
                   PROVE  c[i] = a[i] /\ (Precedes(c, i, j) <=> Precedes(a, i, j))
        OBVIOUS
      <4>1. (i + 1)..(j - 1) \subseteq 1..(j - 1)
        BY <1>1, <2>2
      <4>2. \A k \in 1..(j - 1) : c[k] = a[k]
        BY <1>1, <3>1
      <4> QED
        BY <4>1, <4>2 DEF Precedes
    <3> QED
      BY <2>2, <3>1, <3>2 DEF Ordered
  <2>3. CASE j = n
    <3>1. ASSUME NEW i \in 1..(n - 1)
          PROVE  Precedes(c, i, n) <=> /\ i \in DOMAIN a /\ a[i] \in TurnEvents
                                       /\ \A k \in DOMAIN a : k > i => a[k] \notin TurnEvents
      <4>1. i \in DOMAIN c
        BY <1>1, <1>2
      <4>2. Precedes(c, i, n) => /\ i \in DOMAIN a /\ a[i] \in TurnEvents
                                 /\ \A k \in DOMAIN a : k > i => a[k] \notin TurnEvents
        <5>1. \A k \in DOMAIN a : k > i => k \in (i + 1)..(n - 1)
          BY <1>1, <1>a
        <5> QED
          BY <1>1, <1>2, <1>a, <4>1, <5>1 DEF Precedes
      <4>3. i \in DOMAIN a /\ a[i] \in TurnEvents
              /\ (\A k \in DOMAIN a : k > i => a[k] \notin TurnEvents) => Precedes(c, i, n)
        <5> SUFFICES ASSUME i \in DOMAIN a, a[i] \in TurnEvents,
                            \A k \in DOMAIN a : k > i => a[k] \notin TurnEvents,
                            NEW k \in (i + 1)..(n - 1)
                     PROVE  c[k] \notin TurnEvents
          BY <1>1, <1>a DEF Precedes
        <5>1. k \in DOMAIN c /\ k # n /\ k > i
          BY <1>1, <1>2, <1>a
        <5> QED
          BY <1>1, <1>2, <5>1
      <4> QED
        BY <4>2, <4>3
    <3>2. ASSUME NEW i \in 1..(n - 1), Precedes(c, i, n) PROVE Latest(a, c[i])
      BY <1>1, <3>1, <3>2 DEF Latest
    <3>3. ASSUME NEW x \in TurnEvents, Latest(a, x)
          PROVE  \E i \in 1..(n - 1) : Precedes(c, i, n) /\ c[i] = x
      <4>1. PICK k \in DOMAIN a : /\ a[k] = x
                                  /\ \A i \in DOMAIN a : i > k => a[i] \notin TurnEvents
        BY <3>3 DEF Latest
      <4>2. k \in 1..(n - 1)
        BY <1>1, <1>a
      <4> QED
        BY <1>1, <3>1, <4>1, <4>2
    <3>4. CASE e.type = "turn.started"
      <4>1. \A i \in 1..(n - 1) : Precedes(c, i, n) => c[i] \in TurnEvents
        BY DEF Precedes
      <4> QED
        BY <1>2, <2>3, <3>2, <3>4, <4>1 DEF Fits
    <3>5. CASE e.type # "turn.started"
      <4>1. Started(e.of) \in TurnEvents /\ Chunk(e.of) \in TurnEvents
        BY EventFacts
      <4>2. Latest(a, Started(e.of)) \/ Latest(a, Chunk(e.of))
        BY <3>5 DEF Fits
      <4>3. \E i \in 1..(n - 1) : Precedes(c, i, n) /\ c[i] \in {Started(e.of), Chunk(e.of)}
        BY <3>3, <4>1, <4>2
      <4> QED
        BY <1>2, <2>3, <3>5, <4>3
    <3> QED
      BY <3>4, <3>5
  <2> QED
    BY <2>1, <2>2, <2>3
<1> QED
  BY <1>1, <1>4, <1>5, <1>6 DEF c

LEMMA Single ==
  /\ \A e \in Events : <<e>> \in Seq(Events)
  /\ \A e, f \in Events : <<e, f>> \in Seq(Events)
  /\ <<>> \in Seq(Events) /\ TurnFree(<<>>)
  /\ \A e \in Events : e \notin TurnEvents => TurnFree(<<e>>)
  /\ \A e, f \in Events : e \notin TurnEvents /\ f \notin TurnEvents => TurnFree(<<e, f>>)
  /\ \A e \in TurnEvents : Lone(<<e>>, e)
  /\ \A e \in TurnEvents, f \in Events : f \notin TurnEvents => Lone(<<e, f>>, e)
<1>1. /\ \A e \in Events : <<e>> \in Seq(Events)
      /\ \A e, f \in Events : <<e, f>> \in Seq(Events)
      /\ <<>> \in Seq(Events)
  OBVIOUS
<1>2. /\ TurnFree(<<>>)
      /\ \A e \in Events : e \notin TurnEvents => TurnFree(<<e>>)
      /\ \A e, f \in Events : e \notin TurnEvents /\ f \notin TurnEvents => TurnFree(<<e, f>>)
  BY DEF TurnFree
<1>3. \A e \in TurnEvents : Lone(<<e>>, e)
  <2> SUFFICES ASSUME NEW e \in TurnEvents PROVE Lone(<<e>>, e)
    OBVIOUS
  <2>1. 1 \in DOMAIN <<e>> /\ <<e>>[1] = e /\ \A i \in DOMAIN <<e>> : i = 1
    OBVIOUS
  <2> QED
    BY <2>1 DEF Lone
<1>4. \A e \in TurnEvents, f \in Events : f \notin TurnEvents => Lone(<<e, f>>, e)
  <2> SUFFICES ASSUME NEW e \in TurnEvents, NEW f \in Events, f \notin TurnEvents
               PROVE  Lone(<<e, f>>, e)
    OBVIOUS
  <2>1. /\ 1 \in DOMAIN <<e, f>> /\ <<e, f>>[1] = e
        /\ \A i \in DOMAIN <<e, f>> : i # 1 => <<e, f>>[i] = f
    OBVIOUS
  <2> QED
    BY <2>1 DEF Lone
<1> QED
  BY <1>1, <1>2, <1>3, <1>4

LEMMA Joined ==
  ASSUME NEW a \in Seq(Events), TurnFree(a), NEW b \in Seq(Events)
  PROVE  /\ TurnFree(b) => TurnFree(a \o b)
         /\ \A e \in TurnEvents : Lone(b, e) => Lone(a \o b, e)
<1> DEFINE c == a \o b
<1>1. /\ DOMAIN a = 1..Len(a) /\ DOMAIN b = 1..Len(b) /\ DOMAIN c = 1..(Len(a) + Len(b))
      /\ Len(a) \in Nat /\ Len(b) \in Nat
      /\ \A i \in DOMAIN c : IF i \in DOMAIN a THEN c[i] = a[i]
                             ELSE i - Len(a) \in DOMAIN b /\ c[i] = b[i - Len(a)]
  OBVIOUS
<1> HIDE DEF c
<1>2. TurnFree(b) => TurnFree(c)
  BY <1>1 DEF TurnFree
<1>3. ASSUME NEW e \in TurnEvents, Lone(b, e) PROVE Lone(c, e)
  <2>1. PICK k \in DOMAIN b : b[k] = e /\ \A i \in DOMAIN b : i # k => b[i] \notin TurnEvents
    BY <1>3 DEF Lone
  <2>2. Len(a) + k \in DOMAIN c /\ c[Len(a) + k] = e
    BY <1>1, <2>1
  <2>3. ASSUME NEW i \in DOMAIN c, i # Len(a) + k PROVE c[i] \notin TurnEvents
    <3>1. CASE i \in DOMAIN a
      BY <1>1, <3>1 DEF TurnFree
    <3>2. CASE i \notin DOMAIN a
      <4>1. i - Len(a) \in DOMAIN b /\ i - Len(a) # k /\ c[i] = b[i - Len(a)]
        BY <1>1, <2>3, <3>2
      <4> QED
        BY <2>1, <4>1
    <3> QED
      BY <3>1, <3>2
  <2> QED
    BY <2>2, <2>3 DEF Lone
<1> QED
  BY <1>2, <1>3 DEF c

----------------------------------------------------------------------------
(* What a step does to the open turn and to the logs *)

Unstarted == {"unsent", "reading", "refused"}

(* Every log is left alone, or one gets events none of which is a turn's.  *)
NoNews ==
  \/ log' = log
  \/ \E s \in Sessions, b \in Seq(Events) :
       TurnFree(b) /\ log' = [log EXCEPT ![s] = @ \o b]

(* The log of the open session gets e, and nothing else of a turn.         *)
News(e) ==
  IF session = NoSession THEN log' = log
  ELSE \E b \in Seq(Events) : Lone(b, e) /\ log' = [log EXCEPT ![session] = @ \o b]

Begins(t) ==
  /\ stage[t] \in Unstarted
  /\ stage'[t] \notin Unstarted
  /\ turn' = t /\ turn' # NoTurn /\ ~turnClosed'
  /\ session' = session
  /\ News(Started(t))
  /\ TextOnly' => ~TurnLive /\ session # NoSession

Streams ==
  /\ TurnLive /\ session # NoSession
  /\ UNCHANGED <<turn, turnClosed, session>>
  /\ News(Chunk(turn))

Ends == TurnLive /\ ~TurnLive' /\ News(Completed(turn))

Idles ==
  /\ TurnLive' <=> TurnLive
  /\ TurnLive => turn' = turn /\ session' = session
  /\ NoNews

(* A turn that has started does not become one that has not, and what the  *)
(* first prompt with attachments has done stays done.                      *)
Onwards ==
  /\ \A t \in Turns : stage[t] \notin Unstarted => stage'[t] \notin Unstarted
  /\ TextOnly' => TextOnly

Reduced == Onwards /\ (Streams \/ Ends \/ Idles \/ \E t \in Turns : Begins(t))

----------------------------------------------------------------------------
(* The inductive invariant *)

(* Only the seat's active turn runs; an open turn has an outcome to wait   *)
(* for, and when its session is gone already has it; only a prompt with    *)
(* attachments is read for.                                                *)
TurnInv ==
  /\ \A t \in Turns : stage[t] = "reading" => t \in Attaching
  /\ \A t \in Turns : stage[t] = "running" => active = t
  /\ active # NoTurn => stage[active] \in {"running", "settled"}
  /\ TurnLive => stage[turn] \in {"running", "settled"}
  /\ TurnLive /\ session = NoSession => stage[turn] = "settled"
  /\ session = NoSession => seat = 0 /\ active = NoTurn

QuietInv ==
  TextOnly => /\ TurnLive => session # NoSession
              /\ \A t \in Turns : stage[t] = "running" => TurnLive /\ turn = t /\ ~idle

(* Where the start and the end of a turn can be.                           *)
LogInv ==
  /\ \A s \in Sessions, t \in Turns :
       Occurs(Started(t), log[s]) \/ Occurs(Completed(t), log[s]) => stage[t] \notin Unstarted
  /\ TurnLive => \A s \in Sessions : /\ ~Occurs(Completed(turn), log[s])
                                     /\ Occurs(Started(turn), log[s]) <=> s = session
  /\ \A s \in Sessions : EndedOnce(log[s])

OpenTurn(s) == TurnLive /\ session = s

OrderInv ==
  TextOnly => \A s \in Sessions :
    /\ Ordered(log[s])
    /\ OpenTurn(s) => Latest(log[s], Started(turn)) \/ Latest(log[s], Chunk(turn))
    /\ ~OpenTurn(s) => \A x \in TurnEvents : Latest(log[s], x) => x.type = "turn.completed"

(* The last the viewer was told.                                           *)
WireInv ==
  TextOnly => \A i \in DOMAIN wire :
    i = Len(wire) /\ wire[i].type \in {"session.closed", "seat.reaped"} => session = NoSession

LEMMA SayType ==
  ASSUME TypeOK, NEW evs \in Seq(Events)
  PROVE  Sent(evs) \in Seq(Events) /\ Recorded(evs) \in [Sessions -> Seq(Events)]
<1>1. Sent(evs) \in Seq(Events)
  BY DEF TypeOK, Sent
<1>2. CASE session = NoSession
  BY <1>1, <1>2 DEF TypeOK, Recorded
<1>3. CASE session # NoSession
  <2>1. session \in Sessions /\ log \in [Sessions -> Seq(Events)]
    BY <1>3 DEF TypeOK
  <2>2. log[session] \o evs \in Seq(Events)
    BY <2>1
  <2>3. Recorded(evs) = [log EXCEPT ![session] = log[session] \o evs]
    BY <1>3 DEF Recorded
  <2> QED
    BY <1>1, <2>1, <2>2, <2>3
<1> QED
  BY <1>2, <1>3

(* One event recorded, or none of a turn.                                  *)
LEMMA SayShape ==
  ASSUME TypeOK, NEW evs \in Seq(Events), log' = Recorded(evs)
  PROVE  /\ TurnFree(evs) => NoNews
         /\ \A e \in TurnEvents : Lone(evs, e) => News(e)
BY DEF TypeOK, Recorded, NoNews, News

LEMMA SettledFacts ==
  ASSUME TypeOK, NEW u \in Turns
  PROVE  /\ Settled(u) \in [Turns -> Stages]
         /\ \A t \in Turns : IF t = u /\ stage[t] = "running" THEN Settled(u)[t] = "settled"
                             ELSE Settled(u)[t] = stage[t]
BY DEF TypeOK, Settled, Stages

LEMMA CancelFacts ==
  ASSUME TypeOK, TurnInv, CancelSeat
  PROVE  /\ stage' \in [Turns -> Stages]
         /\ \A t \in Turns : stage'[t] = IF stage[t] = "running" THEN "settled" ELSE stage[t]
<1>1. CASE active = NoTurn
  BY <1>1, NoTurnIsNull DEF TypeOK, TurnInv, CancelSeat
<1>2. CASE active # NoTurn
  <2>1. active \in Turns /\ stage' = Settled(active)
    BY <1>2 DEF TypeOK, CancelSeat
  <2> QED
    BY <2>1, SettledFacts DEF TurnInv
<1> QED
  BY <1>1, <1>2

(* What an ended session adds to its log.                                  *)
LEMMA EndingFacts ==
  ASSUME TypeOK, session # NoSession, NEW r \in BOOLEAN
  PROVE  /\ Ending(r) \in Seq(Events)
         /\ TurnLive => Lone(Ending(r), Completed(turn))
         /\ ~TurnLive => TurnFree(Ending(r))
<1>1. session \in Sessions /\ (TurnLive => turn \in Turns)
  BY DEF TypeOK, TurnLive
<1>2. Reaped(session) \in Events /\ Reaped(session) \notin TurnEvents
  BY <1>1, EventFacts
<1>3. TurnLive => Completed(turn) \in TurnEvents /\ Completed(turn) \in Events
  BY <1>1, EventFacts
<1>4. CASE ~TurnLive
  BY <1>4, Single DEF Ending
<1>5. CASE TurnLive /\ r
  <2>1. Ending(r) = <<Completed(turn)>>
    BY <1>5 DEF Ending
  <2> QED
    BY <1>3, <1>5, <2>1, Single
<1>6. CASE TurnLive /\ ~r
  <2>1. Ending(r) = <<Completed(turn), Reaped(session)>>
    BY <1>6 DEF Ending
  <2> QED
    BY <1>2, <1>3, <1>6, <2>1, Single
<1> QED
  BY <1>4, <1>5, <1>6

----------------------------------------------------------------------------
(* Each step keeps the state of the connection and reduces to one of four  *)

Conn == TypeOK /\ TurnInv /\ QuietInv
Step == TypeOK' /\ TurnInv' /\ QuietInv' /\ Reduced

LEMMA ReleaseStep ==
  ASSUME Conn, NEW evs \in Seq(Events), TurnFree(evs), NEW r \in BOOLEAN,
         ReleaseSeat(evs, r), socket' \in {"open", "closing", "closed"}
  PROVE  Step
<1>1. /\ session \in Sessions /\ session # NoSession
      /\ session' = NoSession /\ seat' = 0 /\ turn' = NoTurn /\ turnClosed' = TRUE
      /\ active' = NoTurn /\ idle' = FALSE
      /\ opens' = opens /\ captured' = captured /\ chunks' = chunks
      /\ wire' = Sent(evs) /\ log' = Recorded(evs \o Ending(r)) /\ CancelSeat
  BY DEF ReleaseSeat, Conn, TypeOK
<1>2. /\ stage' \in [Turns -> Stages]
      /\ \A t \in Turns : stage'[t] = IF stage[t] = "running" THEN "settled" ELSE stage[t]
  BY <1>1, CancelFacts DEF Conn
<1>3. evs \o Ending(r) \in Seq(Events)
  BY <1>1, EndingFacts DEF Conn
<1>4. TypeOK'
  <2>1. wire' \in Seq(Events) /\ log' \in [Sessions -> Seq(Events)]
    BY <1>1, <1>3, SayType DEF Conn
  <2>2. seat' \in 0..opens' /\ opens' \in 0..MaxOpens
    BY <1>1, BoundsAreNatural DEF Conn, TypeOK
  <2> QED
    BY <1>1, <1>2, <2>1, <2>2 DEF Conn, TypeOK
<1>5. TurnInv' /\ QuietInv'
  BY <1>1, <1>2 DEF Conn, TurnInv, QuietInv, TurnLive
<1>6. Onwards
  BY <1>2, AttachingTurns DEF Conn, TypeOK, Onwards, Unstarted, TextOnly
<1>7. ~TurnLive'
  BY <1>1 DEF TurnLive
<1>8. CASE TurnLive
  <2>1. Completed(turn) \in TurnEvents
    BY <1>8, EventFacts DEF Conn, TypeOK, TurnLive
  <2>2. Lone(evs \o Ending(r), Completed(turn))
    BY <1>1, <1>8, <2>1, Joined, EndingFacts DEF Conn
  <2>3. Ends
    BY <1>1, <1>3, <1>7, <1>8, <2>1, <2>2, SayShape DEF Ends, Conn
  <2> QED
    BY <1>4, <1>5, <1>6, <2>3 DEF Step, Reduced
<1>9. CASE ~TurnLive
  <2>1. TurnFree(evs \o Ending(r))
    BY <1>1, <1>9, Joined, EndingFacts DEF Conn
  <2>2. Idles
    BY <1>1, <1>3, <1>7, <1>9, <2>1, SayShape DEF Idles, Conn
  <2> QED
    BY <1>4, <1>5, <1>6, <2>2 DEF Step, Reduced
<1> QED
  BY <1>8, <1>9

(* finishTurn of a turn whose seat has an outcome or is told to stop.      *)
LEMMA FinishFacts ==
  ASSUME TypeOK, NEW t \in Turns, FinishTurn(t)
  PROVE  /\ turnClosed' \in BOOLEAN /\ idle' \in BOOLEAN
         /\ wire' \in Seq(Events) /\ log' \in [Sessions -> Seq(Events)]
         /\ turn = t /\ TurnLive =>
              /\ turnClosed' /\ News(Completed(turn))
              /\ session = NoSession => idle' = idle
         /\ ~(turn = t /\ TurnLive) => UNCHANGED <<turnClosed, idle, wire, log>>
<1>1. CASE Finishes(t)
  <2>1. turn = t /\ TurnLive /\ turnClosed' = TRUE /\ idle' = (idle \/ session # NoSession)
    BY <1>1, NoTurnIsNull DEF FinishTurn, Finishes, TurnLive
  <2>2. CASE session = NoSession
    <3>1. wire' = Sent(<<>>) /\ log' = log
      BY <1>1, <2>2 DEF FinishTurn, Say, Recorded
    <3>2. wire' \in Seq(Events)
      BY <3>1, SayType, Single
    <3> QED
      BY <1>1, <2>1, <2>2, <3>1, <3>2 DEF TypeOK, News
  <2>3. CASE session # NoSession
    <3>1. wire' = Sent(<<Completed(t)>>) /\ log' = Recorded(<<Completed(t)>>)
      BY <1>1, <2>3 DEF FinishTurn, Say
    <3>2. /\ Completed(t) \in TurnEvents /\ <<Completed(t)>> \in Seq(Events)
          /\ Lone(<<Completed(t)>>, Completed(t))
      BY EventFacts, Single
    <3>3. wire' \in Seq(Events) /\ log' \in [Sessions -> Seq(Events)]
      BY <3>1, <3>2, SayType
    <3>4. News(Completed(t))
      BY <3>1, <3>2, SayShape
    <3> QED
      BY <2>1, <2>3, <3>3, <3>4 DEF TypeOK
  <2> QED
    BY <2>2, <2>3
<1>2. CASE ~Finishes(t)
  <2>1. ~(turn = t /\ TurnLive) /\ UNCHANGED <<turnClosed, idle, wire, log>>
    BY <1>2 DEF FinishTurn, Finishes, TurnLive
  <2> QED
    BY <2>1 DEF TypeOK
<1> QED
  BY <1>1, <1>2

LEMMA StartStep ==
  ASSUME Conn, NEW t \in Turns, NEW from \in 0..opens, StartTurn(t, from),
         captured' \in [Turns -> 0..opens],
         stage[t] \in {"unsent", "reading"},
         t \in Attaching \/ (session # NoSession /\ ~Busy /\ from = seat)
  PROVE  Step
<1>1. /\ turn' = t /\ turnClosed' = FALSE /\ idle' = FALSE
      /\ session' = session /\ seat' = seat /\ opens' = opens
      /\ socket' = socket /\ chunks' = chunks
      /\ wire' = Sent(<<Started(t)>>) /\ log' = Recorded(<<Started(t)>>)
  BY DEF StartTurn, Say, connVars
<1>2. \/ /\ seat = from /\ seat # 0 /\ active = NoTurn /\ active' = t
         /\ stage' = [stage EXCEPT ![t] = "running"]
      \/ active' = active /\ stage' = [stage EXCEPT ![t] = "settled"]
  BY DEF StartTurn
<1>3. /\ Started(t) \in TurnEvents /\ <<Started(t)>> \in Seq(Events)
      /\ Lone(<<Started(t)>>, Started(t))
  BY EventFacts, Single
<1>4. /\ stage' \in [Turns -> Stages]
      /\ stage'[t] \in {"running", "settled"}
      /\ \A u \in Turns : u # t => stage'[u] = stage[u]
  BY <1>2 DEF Conn, TypeOK, Stages
<1>5. TypeOK'
  <2>1. wire' \in Seq(Events) /\ log' \in [Sessions -> Seq(Events)]
    BY <1>1, <1>3, SayType DEF Conn
  <2>2. active' \in Turns \cup {NoTurn}
    BY <1>2 DEF Conn, TypeOK
  <2> QED
    BY <1>1, <1>4, <2>1, <2>2 DEF Conn, TypeOK
<1>6. TurnInv'
  <2>1. \A u \in Turns : stage'[u] = "running" => active' = u
    BY <1>2, <1>4, NoTurnIsNull DEF Conn, TypeOK, TurnInv
  <2>2. active' # NoTurn => stage'[active'] \in {"running", "settled"}
    BY <1>2, <1>4 DEF Conn, TypeOK, TurnInv
  <2>3. session = NoSession => stage'[t] = "settled" /\ active' = NoTurn
    BY <1>2, <1>4 DEF Conn, TypeOK, TurnInv
  <2> QED
    BY <1>1, <1>4, <2>1, <2>2, <2>3 DEF Conn, TypeOK, TurnInv, TurnLive
<1>7. TextOnly' => t \notin Attaching /\ TextOnly
  BY <1>4, AttachingTurns DEF TextOnly
<1>8. QuietInv'
  <2> SUFFICES ASSUME TextOnly' PROVE session' # NoSession /\ TurnLive' /\
                 \A u \in Turns : stage'[u] = "running" => turn' = u /\ ~idle'
    BY DEF QuietInv
  <2>1. session # NoSession /\ ~TurnLive /\ QuietInv /\ TextOnly
    BY <1>7 DEF Busy, Conn
  <2>2. \A u \in Turns : stage[u] # "running"
    BY <2>1 DEF QuietInv
  <2> QED
    BY <1>1, <1>4, <2>1, <2>2, NoTurnIsNull DEF TurnLive
<1>9. Onwards
  BY <1>4, <1>7 DEF Onwards, Unstarted
<1>10. Begins(t)
  <2>1. News(Started(t))
    BY <1>1, <1>3, SayShape DEF Conn
  <2>2. TextOnly' => ~TurnLive /\ session # NoSession
    BY <1>7 DEF Busy
  <2> QED
    BY <1>1, <1>4, <2>1, <2>2, NoTurnIsNull DEF Begins, Unstarted
<1> QED
  BY <1>5, <1>6, <1>8, <1>9, <1>10 DEF Step, Reduced

(* The open turn and what is recorded are left alone.                      *)
LEMMA StillStep ==
  ASSUME UNCHANGED <<session, turn, turnClosed, log>>
  PROVE  Idles
BY DEF Idles, TurnLive, NoNews

LEMMA StepReduces ==
  ASSUME Conn, [Next]_vars
  PROVE  Step
<1> USE DEF Conn
<1>1. ASSUME NEW s \in Sessions, Open(s) PROVE Step
  <2>1. /\ session = NoSession /\ session' = s /\ opens' = opens + 1 /\ seat' = opens + 1
        /\ active' = NoTurn /\ opens < MaxOpens
        /\ wire' = Sent(<<Opened(s)>>)
        /\ log' = [log EXCEPT ![s] = Append(@, Opened(s))]
        /\ UNCHANGED <<turn, turnClosed, stage, captured, idle, socket, chunks>>
    BY <1>1 DEF Open
  <2>2. \A t \in Turns : stage[t] # "settled"
    BY <1>1 DEF Open, LoopTurns
  <2>3. ~TurnLive /\ ~TurnLive'
    BY <2>1, <2>2 DEF TypeOK, TurnInv, TurnLive
  <2>4. <<Opened(s)>> \in Seq(Events) /\ TurnFree(<<Opened(s)>>) /\ Opened(s) \in Events
    BY EventFacts, Single
  <2>5. TypeOK'
    <3>1. wire' \in Seq(Events)
      BY <2>1, <2>4, SayType
    <3>2. log' \in [Sessions -> Seq(Events)]
      BY <2>1, <2>4 DEF TypeOK
    <3>3. opens' \in 0..MaxOpens /\ seat' \in 0..opens'
      BY <2>1, BoundsAreNatural DEF TypeOK
    <3>4. captured' \in [Turns -> 0..opens']
      <4>1. captured \in [Turns -> 0..opens] /\ 0..opens \subseteq 0..opens' /\ captured' = captured
        BY <2>1, BoundsAreNatural DEF TypeOK
      <4> QED
        BY <4>1
    <3> QED
      BY <2>1, <3>1, <3>2, <3>3, <3>4 DEF TypeOK
  <2>6. TurnInv' /\ QuietInv'
    <3>1. s # NoSession
      BY NoSessionIsNull
    <3>2. \A t \in Turns : stage[t] # "running"
      BY <2>1, NoTurnIsNull DEF TurnInv
    <3> QED
      BY <2>1, <2>3, <3>1, <3>2 DEF TurnInv, QuietInv
  <2>7. NoNews
    <3>1. log[s] \in Seq(Events)
      BY DEF TypeOK
    <3>2. Append(log[s], Opened(s)) = log[s] \o <<Opened(s)>>
      BY <2>4, <3>1
    <3>3. log' = [log EXCEPT ![s] = log[s] \o <<Opened(s)>>]
      BY <2>1, <3>2
    <3> QED
      BY <2>4, <3>3 DEF NoNews
  <2>8. Idles
    BY <2>3, <2>7 DEF Idles
  <2>9. Onwards
    BY <2>1 DEF Onwards, TextOnly
  <2> QED
    BY <2>5, <2>6, <2>8, <2>9 DEF Step, Reduced
<1>2. ASSUME NEW t \in Turns, \/ Refused(t) \/ PromptAttaching(t) \/ AttachmentsRefused(t) \/ SeatEnds(t)
      PROVE  Step
  <2>1. /\ UNCHANGED <<session, seat, opens, turn, turnClosed, active, idle, socket, chunks, wire, log>>
        /\ \E to \in {"refused", "reading", "settled"} :
             /\ stage' = [stage EXCEPT ![t] = to]
             /\ to = "reading" => stage[t] = "unsent" /\ t \in Attaching
             /\ to = "refused" => stage[t] \in {"unsent", "reading"}
             /\ to = "settled" => stage[t] = "running"
    BY <1>2 DEF Refused, PromptAttaching, AttachmentsRefused, SeatEnds, Accepted, connVars
  <2>2. captured' \in [Turns -> 0..opens]
    BY <1>2 DEF Refused, PromptAttaching, AttachmentsRefused, SeatEnds, TypeOK
  <2>3. PICK to \in {"refused", "reading", "settled"} :
             /\ stage' = [stage EXCEPT ![t] = to]
             /\ to = "reading" => stage[t] = "unsent" /\ t \in Attaching
             /\ to = "refused" => stage[t] \in {"unsent", "reading"}
             /\ to = "settled" => stage[t] = "running"
    BY <2>1
  <2>4. /\ stage' \in [Turns -> Stages] /\ stage'[t] = to
        /\ \A u \in Turns : u # t => stage'[u] = stage[u]
    BY <2>3 DEF TypeOK, Stages
  <2>5. TypeOK'
    BY <2>1, <2>2, <2>4 DEF TypeOK
  <2>6. TurnInv'
    BY <2>1, <2>3, <2>4 DEF TypeOK, TurnInv, TurnLive
  <2>7. TextOnly' => TextOnly
    BY <2>3, <2>4, AttachingTurns DEF TextOnly
  <2>8. QuietInv'
    BY <2>1, <2>3, <2>4, <2>7 DEF QuietInv, TurnLive
  <2>9. Onwards
    BY <2>3, <2>4, <2>7 DEF Onwards, Unstarted
  <2>10. Idles
    BY <2>1, StillStep
  <2> QED
    BY <2>5, <2>6, <2>8, <2>9, <2>10 DEF Step, Reduced
<1>3. ASSUME NEW t \in Turns, PromptText(t) PROVE Step
  <2>1. /\ Accepted(t) /\ StartTurn(t, seat)
        /\ captured' = [captured EXCEPT ![t] = seat] /\ seat \in 0..opens
    BY <1>3 DEF PromptText, TypeOK
  <2>2. captured' \in [Turns -> 0..opens]
    BY <2>1 DEF TypeOK
  <2> QED
    BY <2>1, <2>2, StartStep DEF Accepted
<1>4. ASSUME NEW t \in Turns, AttachmentsRead(t) PROVE Step
  <2>1. /\ stage[t] = "reading" /\ StartTurn(t, captured[t]) /\ captured' = captured
        /\ captured[t] \in 0..opens
    BY <1>4 DEF AttachmentsRead, TypeOK
  <2> QED
    BY <2>1, StartStep DEF TypeOK, TurnInv
<1>5. ASSUME NEW t \in Turns, PromptReturns(t) PROVE Step
  <2>1. /\ stage[t] = "settled" /\ stage' = [stage EXCEPT ![t] = "over"]
        /\ active' = (IF active = t THEN NoTurn ELSE active)
        /\ FinishTurn(t)
        /\ UNCHANGED <<session, seat, opens, turn, captured, socket, chunks>>
    BY <1>5 DEF PromptReturns, connVars
  <2>2. /\ stage' \in [Turns -> Stages] /\ stage'[t] = "over"
        /\ \A u \in Turns : u # t => stage'[u] = stage[u]
    BY <2>1 DEF TypeOK, Stages
  <2>3. TypeOK'
    BY <2>1, <2>2, FinishFacts DEF TypeOK
  <2>4. TurnLive' => TurnLive /\ turn # t /\ turn' = turn
    BY <2>1, FinishFacts DEF TurnLive
  <2>5. TurnInv'
    <3>1. \A u \in Turns : stage'[u] = "running" => active' = u
      BY <2>1, <2>2 DEF TurnInv
    <3>2. active' # NoTurn => stage'[active'] \in {"running", "settled"}
      BY <2>1, <2>2 DEF TypeOK, TurnInv
    <3>3. TurnLive' => stage'[turn'] = stage[turn]
      BY <2>2, <2>4 DEF TypeOK, TurnLive
    <3> QED
      BY <2>1, <2>2, <2>4, <3>1, <3>2, <3>3 DEF TurnInv
  <2>6. TextOnly' => TextOnly
    BY <2>2, AttachingTurns DEF TextOnly
  <2>7. QuietInv'
    <3> SUFFICES ASSUME TextOnly'
                 PROVE  /\ TurnLive' => session' # NoSession
                        /\ \A u \in Turns : stage'[u] = "running" =>
                                             TurnLive' /\ turn' = u /\ ~idle'
      BY DEF QuietInv
    <3>1. TurnLive' => session' # NoSession
      BY <2>1, <2>4, <2>6 DEF QuietInv
    <3>2. ASSUME NEW u \in Turns, stage'[u] = "running"
          PROVE  TurnLive' /\ turn' = u /\ ~idle'
      <4>1. u # t /\ stage[u] = "running"
        BY <2>2, <3>2
      <4>2. TurnLive /\ turn = u /\ ~idle
        BY <2>6, <4>1 DEF QuietInv
      <4>3. UNCHANGED <<turnClosed, idle>>
        BY <2>1, <4>1, <4>2, FinishFacts
      <4> QED
        BY <2>1, <4>2, <4>3 DEF TurnLive
    <3> QED
      BY <3>1, <3>2
  <2>8. Onwards
    BY <2>2, <2>6 DEF Onwards, Unstarted
  <2>9. Ends \/ Idles
    <3>1. CASE turn = t /\ TurnLive
      BY <2>1, <3>1, FinishFacts DEF Ends, TurnLive
    <3>2. CASE ~(turn = t /\ TurnLive)
      BY <2>1, <3>2, FinishFacts, StillStep
    <3> QED
      BY <3>1, <3>2
  <2> QED
    BY <2>3, <2>5, <2>7, <2>8, <2>9 DEF Step, Reduced
<1>6. ASSUME NEW t \in Turns, SeatStreams(t) PROVE Step
  <2>1. /\ stage[t] = "running" /\ turn = t /\ TurnLive /\ session # NoSession
        /\ chunks < MaxChunks /\ chunks' = chunks + 1
        /\ wire' = Sent(<<Chunk(t)>>) /\ log' = Recorded(<<Chunk(t)>>)
        /\ stage' = stage \/ CancelSeat
        /\ UNCHANGED <<session, seat, opens, turn, turnClosed, captured, active, idle, socket>>
    BY <1>6, NoTurnIsNull DEF SeatStreams, Finishes, TurnLive, Say, connVars
  <2>2. /\ stage' \in [Turns -> Stages]
        /\ \A u \in Turns : stage'[u] = stage[u] \/ (stage[u] = "running" /\ stage'[u] = "settled")
    BY <2>1, CancelFacts DEF TypeOK
  <2>3. /\ Chunk(t) \in TurnEvents /\ <<Chunk(t)>> \in Seq(Events)
        /\ Lone(<<Chunk(t)>>, Chunk(t))
    BY EventFacts, Single
  <2>4. wire' \in Seq(Events) /\ log' \in [Sessions -> Seq(Events)]
    BY <2>1, <2>3, SayType
  <2>5. chunks' \in 0..MaxChunks
    BY <2>1, BoundsAreNatural DEF TypeOK
  <2>6. TypeOK'
    BY <2>1, <2>2, <2>4, <2>5 DEF TypeOK
  <2>7. TurnInv'
    BY <2>1, <2>2 DEF TypeOK, TurnInv, TurnLive
  <2>8. TextOnly' => TextOnly
    BY <2>2, AttachingTurns DEF TextOnly
  <2>9. QuietInv'
    BY <2>1, <2>2, <2>8 DEF QuietInv, TurnLive
  <2>10. Onwards
    BY <2>2, <2>8 DEF Onwards, Unstarted
  <2>11. Streams
    BY <2>1, <2>3, SayShape DEF Streams
  <2> QED
    BY <2>6, <2>7, <2>9, <2>10, <2>11 DEF Step, Reduced
<1>7. ASSUME Cancel PROVE Step
  <2>1. /\ session # NoSession /\ TurnLive /\ CancelSeat /\ FinishTurn(turn)
        /\ turn \in Turns
        /\ UNCHANGED <<session, seat, opens, turn, captured, active, socket, chunks>>
    BY <1>7 DEF Cancel, TypeOK, TurnLive, connVars
  <2>2. /\ stage' \in [Turns -> Stages]
        /\ \A u \in Turns : stage'[u] = IF stage[u] = "running" THEN "settled" ELSE stage[u]
    BY <2>1, CancelFacts
  <2>3. turnClosed' /\ News(Completed(turn)) /\ ~TurnLive'
    BY <2>1, FinishFacts DEF TurnLive
  <2>4. TypeOK'
    BY <2>1, <2>2, FinishFacts DEF TypeOK
  <2>5. TurnInv' /\ QuietInv'
    BY <2>1, <2>2, <2>3 DEF TypeOK, TurnInv, QuietInv
  <2>6. Onwards
    BY <2>2, AttachingTurns DEF Onwards, Unstarted, TextOnly
  <2>7. Ends
    BY <2>1, <2>3 DEF Ends
  <2> QED
    BY <2>4, <2>5, <2>6, <2>7 DEF Step, Reduced
<1>8. ASSUME UNCHANGED <<session, seat, opens, turn, turnClosed, stage, captured, active,
                         chunks, wire, log>>,
             idle' \in {FALSE, idle}, socket' \in {"open", "closing", "closed"}
      PROVE  Step
  <2>1. TypeOK'
    BY <1>8 DEF TypeOK
  <2>2. TurnInv'
    BY <1>8 DEF TurnInv, TurnLive
  <2>3. Onwards /\ (TextOnly' <=> TextOnly)
    BY <1>8 DEF Onwards, TextOnly
  <2>4. idle' => idle
    BY <1>8
  <2>5. QuietInv'
    BY <1>8, <2>3, <2>4 DEF QuietInv, TurnLive
  <2>6. Idles
    BY <1>8, StillStep
  <2> QED
    BY <2>1, <2>2, <2>3, <2>5, <2>6 DEF Step, Reduced
<1>9. ASSUME IdleFires PROVE Step
  <2>1. CASE session = NoSession \/ TurnLive
    BY <1>8, <1>9, <2>1 DEF IdleFires, TypeOK, connVars, turnVars
  <2>2. CASE ~(session = NoSession \/ TurnLive)
    <3>1. <<Closed(session)>> \in Seq(Events) /\ TurnFree(<<Closed(session)>>)
      BY <2>2, EventFacts, Single DEF TypeOK
    <3> QED
      BY <1>9, <2>2, <3>1, ReleaseStep DEF IdleFires, TypeOK
  <2> QED
    BY <2>1, <2>2
<1>10. ASSUME CloseSession PROVE Step
  <2>1. session \in Sessions
    BY <1>10 DEF CloseSession, ReleaseSeat, TypeOK
  <2>2. /\ <<Closed(session), Reaped(session)>> \in Seq(Events)
        /\ TurnFree(<<Closed(session), Reaped(session)>>)
    BY <2>1, EventFacts, Single
  <2> QED
    BY <1>10, <2>2, ReleaseStep DEF CloseSession, TypeOK
<1>11. ASSUME Overflow \/ SocketClosed PROVE Step
  <2>1. CASE ReleaseSeat(<<>>, FALSE)
    BY <1>11, <2>1, ReleaseStep, Single DEF Overflow, SocketClosed
  <2>2. CASE ~ReleaseSeat(<<>>, FALSE)
    BY <1>8, <1>11, <2>2 DEF Overflow, SocketClosed, connVars, turnVars
  <2> QED
    BY <2>1, <2>2
<1>12. ASSUME Configure \/ SocketCloses \/ UNCHANGED vars PROVE Step
  BY <1>8, <1>12 DEF Configure, SocketCloses, vars, connVars, turnVars, TypeOK
<1> QED
  BY <1>1, <1>2, <1>3, <1>4, <1>5, <1>6, <1>7, <1>9, <1>10, <1>11, <1>12 DEF Next, Runs

----------------------------------------------------------------------------
(* The logs *)

LEMMA NewsFacts ==
  ASSUME TypeOK, NEW e \in TurnEvents, News(e), session # NoSession
  PROVE  /\ \A s \in Sessions : s # session => log'[s] = log[s]
         /\ \A x \in TurnEvents : /\ Occurs(x, log'[session]) <=> Occurs(x, log[session]) \/ x = e
                                  /\ Latest(log'[session], x) <=> x = e
         /\ EndedOnce(log[session]) /\ EndFits(log[session], e) => EndedOnce(log'[session])
         /\ Ordered(log[session]) /\ Fits(log[session], e) => Ordered(log'[session])
<1>1. PICK b \in Seq(Events) : Lone(b, e) /\ log' = [log EXCEPT ![session] = @ \o b]
  BY DEF News
<1>2. /\ session \in Sessions /\ log[session] \in Seq(Events)
      /\ log'[session] = log[session] \o b
      /\ \A s \in Sessions : s # session => log'[s] = log[s]
  BY <1>1 DEF TypeOK
<1>3. LET a == log[session] IN
        /\ \A x \in TurnEvents : /\ Occurs(x, a \o b) <=> Occurs(x, a) \/ x = e
                                 /\ Latest(a \o b, x) <=> x = e
        /\ EndedOnce(a) /\ EndFits(a, e) => EndedOnce(a \o b)
        /\ Ordered(a) /\ Fits(a, e) => Ordered(a \o b)
  BY <1>1, <1>2, AddOne
<1> QED
  BY <1>2, <1>3

LEMMA NoNewsFacts ==
  ASSUME TypeOK, NoNews, NEW s \in Sessions
  PROVE  /\ \A x \in TurnEvents : /\ Occurs(x, log'[s]) <=> Occurs(x, log[s])
                                  /\ Latest(log'[s], x) <=> Latest(log[s], x)
         /\ EndedOnce(log[s]) => EndedOnce(log'[s])
         /\ Ordered(log[s]) => Ordered(log'[s])
<1>1. CASE log'[s] = log[s]
  BY <1>1
<1>2. CASE log'[s] # log[s]
  <2>1. PICK b \in Seq(Events) : TurnFree(b) /\ log' = [log EXCEPT ![s] = @ \o b]
    BY <1>2 DEF NoNews, TypeOK
  <2>2. log[s] \in Seq(Events) /\ log'[s] = log[s] \o b
    BY <2>1 DEF TypeOK
  <2> QED
    BY <2>1, <2>2, AddNone
<1> QED
  BY <1>1, <1>2

Logs == LogInv /\ EveryStartEnds /\ OrderInv

LEMMA LogStep ==
  ASSUME Conn, Logs, Step
  PROVE  Logs'
<1> USE DEF Conn, Logs, Step
<1>0. /\ \A t \in Turns : /\ Started(t) \in TurnEvents /\ Completed(t) \in TurnEvents
                          /\ Chunk(t) \in TurnEvents
                          /\ \A u \in Turns : /\ Started(t) # Completed(u)
                                              /\ Chunk(t) # Started(u) /\ Chunk(t) # Completed(u)
                                              /\ Started(t) = Started(u) => t = u
                                              /\ Completed(t) = Completed(u) => t = u
                          /\ Started(t).type = "turn.started" /\ Chunk(t).type = "turn.delta"
                          /\ Completed(t).type = "turn.completed"
                          /\ Started(t).of = t /\ Chunk(t).of = t /\ Completed(t).of = t
      /\ TurnLive => turn \in Turns
      /\ session # NoSession => session \in Sessions
  <2>1. \A t \in Turns : \A u \in Turns :
          /\ Started(t) # Completed(u)
          /\ Chunk(t) # Started(u) /\ Chunk(t) # Completed(u)
          /\ Started(t) = Started(u) => t = u
          /\ Completed(t) = Completed(u) => t = u
    BY DEF Started, Chunk, Completed
  <2>2. \A t \in Turns :
          /\ Started(t) \in TurnEvents /\ Completed(t) \in TurnEvents
          /\ Chunk(t) \in TurnEvents
          /\ Started(t).type = "turn.started" /\ Chunk(t).type = "turn.delta"
          /\ Completed(t).type = "turn.completed"
          /\ Started(t).of = t /\ Chunk(t).of = t /\ Completed(t).of = t
    BY EventFacts
  <2>3. /\ TurnLive => turn \in Turns
        /\ session # NoSession => session \in Sessions
    BY DEF TypeOK, TurnLive
  <2> QED
    BY <2>1, <2>2, <2>3
<1>1. ASSUME NEW t \in Turns, Begins(t) PROVE Logs'
  <2>1. /\ stage[t] \in Unstarted /\ stage'[t] \notin Unstarted
        /\ turn' = t /\ TurnLive' /\ session' = session /\ News(Started(t))
        /\ TextOnly' => ~TurnLive /\ session # NoSession /\ TextOnly
    BY <1>1 DEF Begins, TurnLive, Reduced, Onwards
  <2>2. \A u \in Turns : stage[u] \notin Unstarted => stage'[u] \notin Unstarted
    BY DEF Reduced, Onwards
  <2>3. \A s \in Sessions, u \in Turns :
          /\ Occurs(Started(u), log'[s]) <=> Occurs(Started(u), log[s]) \/ (u = t /\ s = session)
          /\ Occurs(Completed(u), log'[s]) <=> Occurs(Completed(u), log[s])
    <3>1. CASE session = NoSession
      BY <2>1, <3>1, NoSessionIsNull DEF News
    <3>2. CASE session # NoSession
      BY <1>0, <2>1, <3>2, NewsFacts
    <3> QED
      BY <3>1, <3>2
  <2>4. \A s \in Sessions : ~Occurs(Started(t), log[s]) /\ ~Occurs(Completed(t), log[s])
    BY <2>1 DEF LogInv
  <2>5. \A s \in Sessions : EndedOnce(log'[s])
    <3>1. EndFits(log[session], Started(t))
      BY <1>0 DEF EndFits
    <3>2. CASE session = NoSession
      BY <2>1, <3>2 DEF News, LogInv
    <3>3. CASE session # NoSession
      BY <1>0, <2>1, <3>1, <3>3, NewsFacts DEF LogInv
    <3> QED
      BY <3>2, <3>3
  <2>6. LogInv'
    BY <2>1, <2>2, <2>3, <2>4, <2>5 DEF LogInv
  <2>7. EveryStartEnds'
    BY <2>1, <2>3 DEF EveryStartEnds
  <2>8. OrderInv'
    <3> SUFFICES ASSUME TextOnly', NEW s \in Sessions
                 PROVE  /\ Ordered(log'[s])
                        /\ OpenTurn(s)' => Latest(log'[s], Started(t)) \/ Latest(log'[s], Chunk(t))
                        /\ ~OpenTurn(s)' => \A x \in TurnEvents :
                                              Latest(log'[s], x) => x.type = "turn.completed"
      BY <2>1 DEF OrderInv
    <3>1. /\ session # NoSession /\ ~OpenTurn(s) /\ (OpenTurn(s)' <=> s = session)
          /\ \A x \in TurnEvents : Latest(log[s], x) => x.type = "turn.completed"
          /\ Ordered(log[s])
      BY <2>1 DEF OrderInv, OpenTurn
    <3>2. CASE s = session
      <4>1. Fits(log[s], Started(t))
        BY <1>0, <3>1 DEF Fits
      <4> QED
        BY <1>0, <2>1, <3>1, <3>2, <4>1, NewsFacts
    <3>3. CASE s # session
      BY <1>0, <2>1, <3>1, <3>3, NewsFacts
    <3> QED
      BY <3>2, <3>3
  <2> QED
    BY <2>6, <2>7, <2>8
<1>2. ASSUME Streams PROVE Logs'
  <2>1. /\ turn \in Turns /\ session \in Sessions /\ session # NoSession /\ News(Chunk(turn))
        /\ TurnLive /\ TurnLive' /\ turn' = turn /\ session' = session
        /\ TextOnly' => TextOnly
        /\ \A u \in Turns : stage[u] \notin Unstarted => stage'[u] \notin Unstarted
    BY <1>0, <1>2 DEF Streams, TurnLive, Reduced, Onwards
  <2>2. \A s \in Sessions, u \in Turns :
          /\ Occurs(Started(u), log'[s]) <=> Occurs(Started(u), log[s])
          /\ Occurs(Completed(u), log'[s]) <=> Occurs(Completed(u), log[s])
    BY <1>0, <2>1, NewsFacts
  <2>3. \A s \in Sessions : EndedOnce(log'[s])
    <3>1. EndFits(log[session], Chunk(turn))
      BY <1>0, <2>1 DEF EndFits
    <3> QED
      BY <1>0, <2>1, <3>1, NewsFacts DEF LogInv
  <2>4. LogInv' /\ EveryStartEnds'
    BY <2>1, <2>2, <2>3 DEF LogInv, EveryStartEnds
  <2>5. OrderInv'
    <3> SUFFICES ASSUME TextOnly', NEW s \in Sessions
                 PROVE  /\ Ordered(log'[s])
                        /\ OpenTurn(s)' => \/ Latest(log'[s], Started(turn))
                                           \/ Latest(log'[s], Chunk(turn))
                        /\ ~OpenTurn(s)' => \A x \in TurnEvents :
                                              Latest(log'[s], x) => x.type = "turn.completed"
      BY <2>1 DEF OrderInv
    <3>1. /\ OpenTurn(s)' <=> s = session
          /\ OpenTurn(s) <=> s = session
      BY <2>1 DEF OpenTurn
    <3>2. CASE s = session
      <4>1. Fits(log[s], Chunk(turn))
        BY <1>0, <2>1, <3>1, <3>2 DEF Fits, OrderInv
      <4> QED
        BY <1>0, <2>1, <3>1, <3>2, <4>1, NewsFacts DEF OrderInv
    <3>3. CASE s # session
      BY <1>0, <2>1, <3>1, <3>3, NewsFacts DEF OrderInv
    <3> QED
      BY <3>2, <3>3
  <2> QED
    BY <2>4, <2>5
<1>3. ASSUME Ends PROVE Logs'
  <2>1. /\ turn \in Turns /\ News(Completed(turn)) /\ TurnLive /\ ~TurnLive'
        /\ TextOnly' => TextOnly
        /\ TextOnly => session # NoSession
        /\ \A u \in Turns : stage[u] \notin Unstarted => stage'[u] \notin Unstarted
    BY <1>0, <1>3 DEF Ends, Reduced, Onwards, QuietInv
  <2>2. stage[turn] \notin Unstarted
    BY <2>1 DEF TurnInv, Unstarted
  <2>3. \A s \in Sessions, u \in Turns :
          /\ Occurs(Started(u), log'[s]) <=> Occurs(Started(u), log[s])
          /\ Occurs(Completed(u), log'[s]) <=>
               Occurs(Completed(u), log[s]) \/ (u = turn /\ s = session)
    <3>1. CASE session = NoSession
      BY <2>1, <3>1, NoSessionIsNull DEF News
    <3>2. CASE session # NoSession
      BY <1>0, <2>1, <3>2, NewsFacts
    <3> QED
      BY <3>1, <3>2
  <2>4. \A s \in Sessions : EndedOnce(log'[s])
    <3>1. CASE session = NoSession
      BY <2>1, <3>1 DEF News, LogInv
    <3>2. CASE session # NoSession
      <4>1. EndFits(log[session], Completed(turn))
        BY <1>0, <2>1, <3>2 DEF EndFits, LogInv
      <4> QED
        BY <1>0, <2>1, <3>2, <4>1, NewsFacts DEF LogInv
    <3> QED
      BY <3>1, <3>2
  <2>5. LogInv'
    BY <2>1, <2>2, <2>3, <2>4 DEF LogInv
  <2>6. EveryStartEnds'
    <3> SUFFICES ASSUME TextOnly', NEW s \in Sessions, NEW u \in Turns,
                        Occurs(Started(u), log'[s])
                 PROVE  Occurs(Completed(u), log'[s])
      BY DEF EveryStartEnds
    <3>1. CASE u = turn
      BY <2>1, <2>3, <3>1 DEF LogInv
    <3>2. CASE u # turn
      BY <2>1, <2>3, <3>2 DEF EveryStartEnds
    <3> QED
      BY <3>1, <3>2
  <2>7. OrderInv'
    <3> SUFFICES ASSUME TextOnly', NEW s \in Sessions
                 PROVE  /\ Ordered(log'[s])
                        /\ \A x \in TurnEvents :
                             Latest(log'[s], x) => x.type = "turn.completed"
      BY <2>1 DEF OrderInv, OpenTurn
    <3>1. session # NoSession /\ (OpenTurn(s) <=> s = session) /\ TextOnly
      BY <2>1 DEF OpenTurn
    <3>2. CASE s = session
      <4>1. Fits(log[s], Completed(turn))
        BY <1>0, <2>1, <3>1, <3>2 DEF Fits, OrderInv
      <4> QED
        BY <1>0, <2>1, <3>1, <3>2, <4>1, NewsFacts DEF OrderInv
    <3>3. CASE s # session
      BY <1>0, <2>1, <3>1, <3>3, NewsFacts DEF OrderInv
    <3> QED
      BY <3>2, <3>3
  <2> QED
    BY <2>5, <2>6, <2>7
<1>4. ASSUME Idles PROVE Logs'
  <2>1. /\ TurnLive' <=> TurnLive
        /\ TurnLive => turn' = turn /\ session' = session
        /\ NoNews /\ (TextOnly' => TextOnly)
        /\ \A u \in Turns : stage[u] \notin Unstarted => stage'[u] \notin Unstarted
    BY <1>4 DEF Idles, Reduced, Onwards
  <2>2. \A s \in Sessions, u \in Turns :
          /\ Occurs(Started(u), log'[s]) <=> Occurs(Started(u), log[s])
          /\ Occurs(Completed(u), log'[s]) <=> Occurs(Completed(u), log[s])
    BY <1>0, <2>1, NoNewsFacts
  <2>3. \A s \in Sessions : EndedOnce(log'[s])
    BY <2>1, NoNewsFacts DEF LogInv
  <2>4. LogInv'
    BY <1>0, <2>1, <2>2, <2>3 DEF LogInv
  <2>5. EveryStartEnds'
    BY <2>1, <2>2 DEF EveryStartEnds
  <2>6. OrderInv'
    <3>1. \A s \in Sessions : OpenTurn(s)' <=> OpenTurn(s)
      BY <2>1 DEF OpenTurn
    <3>2. \A s \in Sessions : OpenTurn(s) => turn' = turn /\ turn \in Turns
      BY <1>0, <2>1 DEF OpenTurn
    <3> QED
      BY <1>0, <2>1, <3>1, <3>2, NoNewsFacts DEF OrderInv
  <2> QED
    BY <2>4, <2>5, <2>6
<1> QED
  BY <1>1, <1>2, <1>3, <1>4 DEF Reduced

----------------------------------------------------------------------------
(* The viewer *)

(* The open turn goes on, or nobody is there to be told.                   *)
GoesOn == TurnLive => TurnLive' /\ turn' = turn

(* Nothing is heard; one event that ends no session is; or the end of one. *)
HearsNothing ==
  wire' = wire /\ session' \in {session, NoSession} /\ (GoesOn \/ socket' # "open")

HearsOf(e) ==
  /\ wire' = wire \o <<e>>
  /\ e.type \notin {"session.closed", "seat.reaped"}
  /\ e \in TurnEvents => session # NoSession
  /\ e.type = "turn.started" => TurnLive' /\ turn' = e.of
  /\ GoesOn \/ e.type = "turn.completed"

HearsTheEnd ==
  \E s \in Sessions, b \in Seq(Events) :
    /\ b \in {<<Closed(s)>>, <<Closed(s), Reaped(s)>>}
    /\ wire' = wire \o b /\ session' = NoSession

Hears ==
  /\ socket' = "open" => socket = "open"
  /\ HearsNothing \/ HearsTheEnd \/ \E e \in Events : HearsOf(e)

(* A finished turn of a session that is still there is told of.            *)
LEMMA FinishHeard ==
  ASSUME TypeOK, NEW t \in Turns, FinishTurn(t), TurnLive => session # NoSession,
         UNCHANGED <<session, turn, socket>>
  PROVE  Hears
<1>1. CASE Finishes(t)
  <2>1. session # NoSession /\ turn = t
    BY <1>1, NoTurnIsNull DEF Finishes, TurnLive
  <2>2. wire' = Sent(<<Completed(t)>>)
    BY <1>1, <2>1 DEF FinishTurn, Say
  <2>3. CASE socket = "open"
    <3>1. wire' = wire \o <<Completed(t)>>
      BY <2>2, <2>3 DEF Sent
    <3>2. Completed(t) \in Events /\ Completed(t).type = "turn.completed"
      BY EventFacts
    <3>3. HearsOf(Completed(t))
      BY <2>1, <3>1, <3>2 DEF HearsOf
    <3> QED
      BY <3>2, <3>3 DEF Hears
  <2>4. CASE socket # "open"
    BY <2>2, <2>4 DEF Sent, Hears, HearsNothing
  <2> QED
    BY <2>3, <2>4
<1>2. CASE ~Finishes(t)
  BY <1>2 DEF FinishTurn, Hears, HearsNothing, GoesOn, TurnLive
<1> QED
  BY <1>1, <1>2

LEMMA StepHeard ==
  ASSUME Conn, [Next]_vars, TextOnly'
  PROVE  Hears
<1> USE DEF Conn
<1>0. /\ TextOnly
      /\ TurnLive => session # NoSession
  <2>1. TextOnly' => TextOnly
    BY StepReduces DEF Step, Reduced, Onwards
  <2> QED
    BY <2>1 DEF QuietInv
<1>1. ASSUME NEW s \in Sessions, Open(s) PROVE Hears
  <2>1. /\ socket = "open" /\ wire' = wire \o <<Opened(s)>>
        /\ UNCHANGED <<turn, turnClosed, socket>>
    BY <1>1 DEF Open, Sent
  <2>2. /\ Opened(s) \in Events /\ Opened(s) \notin TurnEvents
        /\ Opened(s).type = "session.opened"
    BY EventFacts
  <2>3. HearsOf(Opened(s))
    BY <2>1, <2>2 DEF HearsOf, GoesOn, TurnLive
  <2> QED
    BY <2>1, <2>2, <2>3 DEF Hears
<1>2. ASSUME UNCHANGED <<session, turn, turnClosed, wire>>, socket' \in {socket, "closing", "closed"}
      PROVE  Hears
  BY <1>2 DEF Hears, HearsNothing, GoesOn, TurnLive
<1>3. ASSUME NEW t \in Turns, \/ Refused(t) \/ PromptAttaching(t) \/ AttachmentsRefused(t) \/ SeatEnds(t)
      PROVE  Hears
  BY <1>2, <1>3 DEF Refused, PromptAttaching, AttachmentsRefused, SeatEnds, connVars
<1>4. ASSUME NEW t \in Turns, PromptText(t) PROVE Hears
  <2>1. /\ session # NoSession /\ ~TurnLive /\ wire' = Sent(<<Started(t)>>)
        /\ turn' = t /\ turnClosed' = FALSE /\ UNCHANGED <<session, socket>>
    BY <1>4 DEF PromptText, Accepted, Busy, StartTurn, Say, connVars
  <2>2. /\ Started(t) \in Events /\ Started(t).type = "turn.started" /\ Started(t).of = t
        /\ turn' = t /\ TurnLive'
    BY <2>1, EventFacts, NoTurnIsNull DEF TurnLive
  <2>3. CASE socket = "open"
    <3>1. wire' = wire \o <<Started(t)>>
      BY <2>1, <2>3 DEF Sent
    <3>2. HearsOf(Started(t))
      BY <2>1, <2>2, <3>1 DEF HearsOf, GoesOn
    <3> QED
      BY <2>2, <2>3, <3>2 DEF Hears
  <2>4. CASE socket # "open"
    BY <2>1, <2>4 DEF Sent, Hears, HearsNothing
  <2> QED
    BY <2>3, <2>4
<1>5. ASSUME NEW t \in Turns, AttachmentsRead(t) PROVE Hears
  <2>1. stage'[t] \in {"running", "settled"} /\ t \in Attaching
    BY <1>5 DEF AttachmentsRead, StartTurn, TypeOK, TurnInv
  <2> QED
    BY <2>1 DEF TextOnly
<1>6. ASSUME NEW t \in Turns, PromptReturns(t) PROVE Hears
  BY <1>0, <1>6, FinishHeard DEF PromptReturns, connVars
<1>7. ASSUME NEW t \in Turns, SeatStreams(t) PROVE Hears
  <2>1. /\ session # NoSession /\ wire' = Sent(<<Chunk(t)>>)
        /\ UNCHANGED <<session, turn, turnClosed, socket>>
    BY <1>7 DEF SeatStreams, Say, connVars
  <2>2. /\ Chunk(t) \in Events /\ Chunk(t).type = "turn.delta" /\ GoesOn
    BY <2>1, EventFacts DEF GoesOn, TurnLive
  <2>3. CASE socket = "open"
    <3>1. HearsOf(Chunk(t))
      BY <2>1, <2>2, <2>3 DEF HearsOf, Sent
    <3> QED
      BY <2>2, <2>3, <3>1 DEF Hears
  <2>4. CASE socket # "open"
    BY <2>1, <2>2, <2>4 DEF Sent, Hears, HearsNothing
  <2> QED
    BY <2>3, <2>4
<1>8. ASSUME Cancel PROVE Hears
  BY <1>0, <1>8, FinishHeard DEF Cancel, TypeOK, TurnLive, connVars
<1>9. ASSUME Configure \/ SocketCloses \/ UNCHANGED vars PROVE Hears
  BY <1>2, <1>9 DEF Configure, SocketCloses, vars, connVars, turnVars
<1>10. ASSUME NEW s \in Sessions, NEW r \in BOOLEAN,
              NEW evs \in {<<Closed(s)>>, <<Closed(s), Reaped(s)>>},
              ReleaseSeat(evs, r), socket' = socket
       PROVE  Hears
  <2>1. wire' = Sent(evs) /\ session' = NoSession
    BY <1>10 DEF ReleaseSeat
  <2>2. CASE socket = "open"
    <3>1. evs \in Seq(Events)
      BY EventFacts, Single
    <3>2. HearsTheEnd
      BY <2>1, <2>2, <3>1 DEF HearsTheEnd, Sent
    <3> QED
      BY <2>2, <3>2 DEF Hears
  <2>3. CASE socket # "open"
    BY <1>10, <2>1, <2>3 DEF Sent, Hears, HearsNothing
  <2> QED
    BY <2>2, <2>3
<1>11. ASSUME IdleFires PROVE Hears
  <2>1. CASE session = NoSession \/ TurnLive
    BY <1>2, <1>11, <2>1 DEF IdleFires, connVars, turnVars
  <2>2. CASE ~(session = NoSession \/ TurnLive)
    BY <1>10, <1>11, <2>2 DEF IdleFires, TypeOK
  <2> QED
    BY <2>1, <2>2
<1>12. ASSUME CloseSession PROVE Hears
  <2>1. session \in Sessions /\ ReleaseSeat(<<Closed(session), Reaped(session)>>, TRUE)
        /\ socket' = socket
    BY <1>12 DEF CloseSession, ReleaseSeat, TypeOK
  <2> QED
    BY <1>10, <2>1
<1>13. ASSUME Overflow \/ SocketClosed PROVE Hears
  <2>1. wire' = wire \/ wire' = Sent(<<>>)
    BY <1>13 DEF Overflow, SocketClosed, ReleaseSeat
  <2>2. wire' = wire
    BY <2>1 DEF TypeOK, Sent
  <2>3. socket' # "open" /\ session' \in {session, NoSession}
    BY <1>13 DEF Overflow, SocketClosed, ReleaseSeat, connVars
  <2> QED
    BY <2>2, <2>3 DEF Hears, HearsNothing
<1> QED
  BY <1>1, <1>3, <1>4, <1>5, <1>6, <1>7, <1>8, <1>9, <1>11, <1>12, <1>13 DEF Next, Runs

Heard == WireInv /\ SilentAfterClosed /\ ViewerSeesTextEnd

LEMMA WireStep ==
  ASSUME Conn, Heard, Step, TextOnly' => Hears
  PROVE  Heard'
<1> SUFFICES ASSUME TextOnly' PROVE Heard'
  BY DEF Heard, WireInv, SilentAfterClosed, ViewerSeesTextEnd
<1> USE DEF Conn
<1>0. /\ TextOnly /\ (TurnLive => turn \in Turns)
      /\ wire \in Seq(Events) /\ DOMAIN wire = 1..Len(wire) /\ Len(wire) \in Nat
  <2>1. TextOnly
    BY DEF Step, Reduced, Onwards
  <2>2. /\ TurnLive => turn \in Turns
        /\ wire \in Seq(Events)
    BY DEF TypeOK, TurnLive
  <2> QED
    BY <2>1, <2>2
<1>1. /\ \A i \in DOMAIN wire : i = Len(wire) /\ wire[i].type \in {"session.closed", "seat.reaped"}
                                  => session = NoSession
      /\ \A i \in 2..Len(wire) : wire[i] \in TurnEvents =>
                                   wire[i - 1].type \notin {"session.closed", "seat.reaped"}
      /\ ViewerSeesTheEnd
  BY <1>0 DEF Heard, WireInv, SilentAfterClosed, ViewerSeesTextEnd
<1>2. CASE HearsNothing
  <2>1. WireInv'
    BY <1>1, <1>2 DEF WireInv, HearsNothing
  <2>2. SilentAfterClosed'
    BY <1>1, <1>2 DEF SilentAfterClosed, HearsNothing
  <2>3. ViewerSeesTheEnd'
    BY <1>1, <1>2 DEF ViewerSeesTheEnd, HearsNothing, GoesOn, Hears
  <2> QED
    BY <2>1, <2>2, <2>3 DEF Heard, ViewerSeesTextEnd
<1>3. ASSUME NEW e \in Events, HearsOf(e) PROVE Heard'
  <2>1. /\ wire' = wire \o <<e>> /\ Len(wire') = Len(wire) + 1
        /\ DOMAIN wire' = 1..(Len(wire) + 1) /\ wire'[Len(wire) + 1] = e
        /\ \A i \in 1..Len(wire) : wire'[i] = wire[i]
    BY <1>0, <1>3 DEF HearsOf
  <2>2. /\ e.type \notin {"session.closed", "seat.reaped"}
        /\ e \in TurnEvents => session # NoSession
        /\ e.type = "turn.started" => TurnLive' /\ turn' = e.of
        /\ GoesOn \/ e.type = "turn.completed"
    BY <1>3 DEF HearsOf
  <2>3. WireInv'
    BY <2>1, <2>2 DEF WireInv
  <2>4. SilentAfterClosed'
    <3> SUFFICES ASSUME NEW i \in 2..(Len(wire) + 1), wire'[i] \in TurnEvents
                 PROVE  wire'[i - 1].type \notin {"session.closed", "seat.reaped"}
      BY <2>1 DEF SilentAfterClosed
    <3>1. CASE i = Len(wire) + 1
      <4>1. i - 1 = Len(wire) /\ i - 1 \in 1..Len(wire) /\ session # NoSession
        BY <1>0, <2>1, <2>2, <3>1
      <4> QED
        BY <1>0, <1>1, <2>1, <4>1
    <3>2. CASE i # Len(wire) + 1
      <4>1. i \in 2..Len(wire) /\ i - 1 \in 1..Len(wire) /\ i \in 1..Len(wire)
        BY <1>0, <3>2
      <4> QED
        BY <1>1, <2>1, <4>1
    <3> QED
      BY <3>1, <3>2
  <2>5. ViewerSeesTheEnd'
    <3> SUFFICES ASSUME socket' = "open", NEW i \in 1..(Len(wire) + 1),
                        wire'[i].type = "turn.started", ~(TurnLive' /\ turn' = wire'[i].of)
                 PROVE  \E j \in 1..(Len(wire) + 1) :
                          j > i /\ wire'[j].type \in {"turn.completed", "session.closed"}
      BY <2>1 DEF ViewerSeesTheEnd
    <3>1. i \in 1..Len(wire) /\ socket = "open"
      BY <1>0, <2>1, <2>2 DEF Hears
    <3>2. CASE TurnLive /\ turn = wire[i].of
      <4>1. e.type = "turn.completed" /\ Len(wire) + 1 > i
        BY <1>0, <2>1, <2>2, <3>1, <3>2 DEF GoesOn
      <4> QED
        BY <1>0, <2>1, <4>1
    <3>3. CASE ~(TurnLive /\ turn = wire[i].of)
      <4>1. PICK j \in DOMAIN wire : j > i /\ wire[j].type \in {"turn.completed", "session.closed"}
        BY <1>0, <1>1, <2>1, <3>1, <3>3 DEF ViewerSeesTheEnd
      <4> QED
        BY <1>0, <2>1, <4>1
    <3> QED
      BY <3>2, <3>3
  <2> QED
    BY <2>3, <2>4, <2>5 DEF Heard, ViewerSeesTextEnd
<1>4. CASE HearsTheEnd
  <2>1. PICK s \in Sessions, b \in Seq(Events) :
          /\ b \in {<<Closed(s)>>, <<Closed(s), Reaped(s)>>}
          /\ wire' = wire \o b /\ session' = NoSession
    BY <1>4 DEF HearsTheEnd
  <2>2. /\ Len(b) \in Nat /\ Len(b) >= 1 /\ DOMAIN b = 1..Len(b)
        /\ b[1].type = "session.closed"
        /\ \A i \in 1..Len(b) : b[i] \notin TurnEvents /\ b[i].type # "turn.started"
    BY <2>1, EventFacts
  <2>3. /\ Len(wire') = Len(wire) + Len(b) /\ DOMAIN wire' = 1..(Len(wire) + Len(b))
        /\ wire'[Len(wire) + 1] = b[1]
        /\ \A i \in 1..Len(wire) : wire'[i] = wire[i]
        /\ \A i \in 1..(Len(wire) + Len(b)) : i \notin 1..Len(wire) =>
             wire'[i] \notin TurnEvents /\ wire'[i].type # "turn.started"
    <3>1. /\ Len(wire') = Len(wire) + Len(b) /\ DOMAIN wire' = 1..(Len(wire) + Len(b))
          /\ wire'[Len(wire) + 1] = b[1]
          /\ \A i \in 1..Len(wire) : wire'[i] = wire[i]
      BY <1>0, <2>1, <2>2
    <3>2. ASSUME NEW i \in 1..(Len(wire) + Len(b)), i \notin 1..Len(wire)
          PROVE  wire'[i] \notin TurnEvents /\ wire'[i].type # "turn.started"
      <4>1. i - Len(wire) \in 1..Len(b) /\ wire'[i] = b[i - Len(wire)]
        BY <1>0, <2>1, <2>2, <3>2
      <4> QED
        BY <2>2, <4>1
    <3> QED
      BY <3>1, <3>2
  <2>4. WireInv'
    BY <2>1 DEF WireInv
  <2>5. SilentAfterClosed'
    <3> SUFFICES ASSUME NEW i \in 2..(Len(wire) + Len(b)), wire'[i] \in TurnEvents
                 PROVE  wire'[i - 1].type \notin {"session.closed", "seat.reaped"}
      BY <2>3 DEF SilentAfterClosed
    <3>1. i \in 2..Len(wire) /\ i - 1 \in 1..Len(wire) /\ i \in 1..Len(wire)
      BY <1>0, <2>2, <2>3
    <3> QED
      BY <1>1, <2>3, <3>1
  <2>6. ViewerSeesTheEnd'
    <3> SUFFICES ASSUME NEW i \in 1..(Len(wire) + Len(b)), wire'[i].type = "turn.started"
                 PROVE  \E j \in 1..(Len(wire) + Len(b)) :
                          j > i /\ wire'[j].type \in {"turn.completed", "session.closed"}
      BY <2>3 DEF ViewerSeesTheEnd
    <3>1. i \in 1..Len(wire)
      BY <2>3
    <3>2. Len(wire) + 1 \in 1..(Len(wire) + Len(b)) /\ Len(wire) + 1 > i
      BY <1>0, <2>2, <3>1
    <3> QED
      BY <2>2, <2>3, <3>2
  <2> QED
    BY <2>4, <2>5, <2>6 DEF Heard, ViewerSeesTextEnd
<1> QED
  BY <1>2, <1>3, <1>4 DEF Hears

----------------------------------------------------------------------------
(* The theorems *)

LEMMA InitInv == Init => Conn /\ Logs /\ Heard
<1> SUFFICES ASSUME Init PROVE Conn /\ Logs /\ Heard
  OBVIOUS
<1>1. /\ session = NoSession /\ seat = 0 /\ opens = 0 /\ turn = NoTurn /\ turnClosed = TRUE
      /\ stage = [t \in Turns |-> "unsent"] /\ captured = [t \in Turns |-> 0]
      /\ active = NoTurn /\ idle = FALSE /\ socket = "open" /\ chunks = 0
      /\ wire = <<>> /\ log = [s \in Sessions |-> <<>>]
  BY DEF Init
<1>2. /\ wire \in Seq(Events) /\ DOMAIN wire = {} /\ Len(wire) = 0
      /\ log \in [Sessions -> Seq(Events)]
      /\ \A s \in Sessions : DOMAIN log[s] = {}
  BY <1>1
<1>3. stage \in [Turns -> Stages] /\ captured \in [Turns -> 0..opens]
  BY <1>1 DEF Stages
<1>4. TypeOK
  <2>1. opens \in 0..MaxOpens /\ seat \in 0..opens /\ chunks \in 0..MaxChunks
    BY <1>1, BoundsAreNatural
  <2> QED
    BY <1>1, <1>2, <1>3, <2>1 DEF TypeOK
<1>5. ~TurnLive
  BY <1>1 DEF TurnLive
<1>6. TurnInv /\ QuietInv
  BY <1>1, <1>5 DEF TurnInv, QuietInv
<1>7. LogInv /\ EveryStartEnds
  BY <1>2, <1>5 DEF LogInv, EveryStartEnds, Occurs, EndedOnce
<1>8. OrderInv
  BY <1>2, <1>5 DEF OrderInv, Ordered, OpenTurn, Latest
<1>9. Heard
  BY <1>2 DEF Heard, WireInv, SilentAfterClosed, ViewerSeesTextEnd, ViewerSeesTheEnd
<1> QED
  BY <1>4, <1>6, <1>7, <1>8, <1>9 DEF Conn, Logs

LEMMA Invariance == Spec => [](Conn /\ Logs /\ Heard)
<1>1. Conn /\ Logs /\ Heard /\ [Next]_vars => (Conn /\ Logs /\ Heard)'
  <2> SUFFICES ASSUME Conn, Logs, Heard, [Next]_vars PROVE (Conn /\ Logs /\ Heard)'
    OBVIOUS
  <2>1. Step
    BY StepReduces
  <2>2. Conn'
    BY <2>1 DEF Step, Conn
  <2>3. Logs'
    BY <2>1, LogStep
  <2>4. TextOnly' => Hears
    BY StepHeard
  <2>5. Heard'
    BY <2>1, <2>4, WireStep
  <2> QED
    BY <2>2, <2>3, <2>5
<1> QED
  BY <1>1, InitInv, PTL DEF Spec

(* Every variable of the connection keeps its type, for any sessions and   *)
(* turns.                                                                  *)
THEOREM TypeCorrect == Spec => []TypeOK
<1>1. Conn => TypeOK
  BY DEF Conn
<1> QED
  BY <1>1, Invariance, PTL

(* However a seat's own end, a cancel, the idle timer, an overflow and a   *)
(* disconnect race, and whatever prompts with attachments overlap, no turn *)
(* ends twice in a log and none ends that did not start there              *)
(* (finishTurn, releaseSeat).                                              *)
THEOREM EndsAreRecordedOnce == Spec => []OneTerminalEvent
<1>1. Logs => OneTerminalEvent
  BY DEF Logs, LogInv, EndedOnce, OneTerminalEvent
<1> QED
  BY <1>1, Invariance, PTL

(* As long as no prompt with attachments has started its turn, every log   *)
(* is made of whole turns, one after the other (runTurn's check for a      *)
(* running turn).                                                          *)
THEOREM TurnsAreWhole == Spec => []TextTurnsDoNotOverlap
<1>1. Logs => TextTurnsDoNotOverlap
  BY DEF Logs, OrderInv, Ordered, TextTurnsDoNotOverlap, TurnsDoNotOverlap
<1> QED
  BY <1>1, Invariance, PTL

(* And every turn that started and is not open any more has its end in the *)
(* log of its session, however the session ended (releaseSeat).            *)
THEOREM StartsAreEnded == Spec => []EveryStartEnds
<1>1. Logs => EveryStartEnds
  BY DEF Logs
<1> QED
  BY <1>1, Invariance, PTL

(* A viewer whose socket is open has been told of the end of every turn it *)
(* was told the start of (emit before release).                            *)
THEOREM TheViewerIsTold == Spec => []ViewerSeesTextEnd
<1>1. Heard => ViewerSeesTextEnd
  BY DEF Heard
<1> QED
  BY <1>1, Invariance, PTL

(* Right after the end of a session the viewer hears of no turn.           *)
THEOREM ClosedIsSilent == Spec => []SilentAfterClosed
<1>1. Heard => SilentAfterClosed
  BY DEF Heard
<1> QED
  BY <1>1, Invariance, PTL

(* The idle timer is not armed while a seat runs a turn (armIdleTimer, and *)
(* runTurn which clears it).                                               *)
THEOREM TheTimerIsQuiet == Spec => []IdleIsQuiet
<1>1. Conn => IdleIsQuiet
  BY DEF Conn, QuietInv, IdleIsQuiet
<1> QED
  BY <1>1, Invariance, PTL
=============================================================================
