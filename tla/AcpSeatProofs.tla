--------------------------- MODULE AcpSeatProofs ---------------------------
(***************************************************************************)
(* Theorems about AcpSeat, for any turns and any number of updates.  The   *)
(* argument: EngineInv, below, says where the running turn, a held end and *)
(* a verdict of poisoning may come from; every action keeps it, and the    *)
(* properties follow from it.                                              *)
(***************************************************************************)
EXTENDS AcpSeat, SequenceTheorems, TLAPS

LEMMA TypeInit == Init => TypeOK
<1> SUFFICES ASSUME Init PROVE TypeOK
  OBVIOUS
<1>1. queue \in Seq(Updates)
  BY DEF Init
<1>2. sent \in 0..MaxUpdates
  BY MaxUpdatesIsNatural DEF Init
<1> QED
  BY <1>1, <1>2 DEF Init, TypeOK, Ended

(* Every variable stays in its domain.                                     *)
THEOREM TypeCorrect == Spec => []TypeOK
<1>2. TypeOK /\ [Next]_vars => TypeOK'
  <2> SUFFICES ASSUME TypeOK, [Next]_vars PROVE TypeOK'
    OBVIOUS
  <2> USE MaxUpdatesIsNatural, NoTurnIsNull DEF TypeOK, Ended, Updates, turnVars,
     endVars, pumpVars, seatVars
  <2>1. ASSUME NEW t \in Turns, Prompt(t) PROVE TypeOK'
    BY <2>1 DEF Prompt, MayPrompt
  <2>2. ASSUME NEW t \in Turns, PromptRefused(t) PROVE TypeOK'
    BY <2>2 DEF PromptRefused, MayPrompt
  <2>3. ASSUME NEW t \in Turns, Answer(t) PROVE TypeOK'
    BY <2>3 DEF Answer
  <2>4. ASSUME NEW t \in Turns, AnswerError(t) PROVE TypeOK'
    BY <2>4 DEF AnswerError, Settle
  <2>5. ASSUME NEW t \in Turns, DrainFires(t) PROVE TypeOK'
    BY <2>5 DEF DrainFires, Settle, Drained
  <2>6. ASSUME NEW t \in Turns, HarnessStreams(t) PROVE TypeOK'
    BY <2>6 DEF HarnessStreams
  <2>7. ASSUME Finally PROVE TypeOK'
    BY <2>7 DEF Finally, Unwinding
  <2>8. ASSUME QuietFires PROVE TypeOK'
    BY <2>8 DEF QuietFires, Settle, Drained, Live
  <2>9. ASSUME Cancel PROVE TypeOK'
    BY <2>9 DEF Cancel, Cancelled, Settle, Live
  <2>10. ASSUME TurnTimeout PROVE TypeOK'
    BY <2>10 DEF TurnTimeout, Live
  <2>11. ASSUME GraceElapses PROVE TypeOK'
    BY <2>11 DEF GraceElapses
  <2>12. ASSUME Close PROVE TypeOK'
    BY <2>12 DEF Close, Cancelled, Settle, Live
  <2>13. ASSUME PumpForwards PROVE TypeOK'
    <3>1. Head(queue) \in Updates /\ Tail(queue) \in Seq(Updates)
      BY <2>13, HeadTailProperties DEF PumpForwards, Reading
    <3>2. <<activeTurn, Head(queue).of>> \in Turns \X Turns
      BY <2>13, <3>1 DEF PumpForwards, Live
    <3> QED
      BY <2>13, <3>1, <3>2 DEF PumpForwards
  <2>14. ASSUME PumpForwardThrows PROVE TypeOK'
    BY <2>14 DEF PumpForwardThrows, Settle, Reading, Live
  <2>15. ASSUME PumpDrops PROVE TypeOK'
    <3>1. Head(queue) \in Updates /\ Tail(queue) \in Seq(Updates)
      BY <2>15, HeadTailProperties DEF PumpDrops, Reading
    <3> QED
      BY <2>15, <3>1 DEF PumpDrops, Poisons
  <2>16. ASSUME PumpBreaks PROVE TypeOK'
    BY <2>16 DEF PumpBreaks, Settle
  <2>17. ASSUME PumpStops PROVE TypeOK'
    BY <2>17 DEF PumpStops
  <2>18. ASSUME HarnessDies PROVE TypeOK'
    BY <2>18 DEF HarnessDies
  <2>19. CASE UNCHANGED vars
    BY <2>19 DEF vars
  <2> QED
    BY <2>1, <2>2, <2>3, <2>4, <2>5, <2>6, <2>7, <2>8, <2>9, <2>10, <2>11, <2>12,
       <2>13, <2>14, <2>15, <2>16, <2>17, <2>18, <2>19 DEF Next, Pump
<1> QED
  BY TypeInit, <1>2, PTL DEF Spec

----------------------------------------------------------------------------
(* The inductive invariant *)

(* A running turn has the pump behind it.                                  *)
PumpBehindTurn == Live => pump

(* Only an abort arms the drain bound or opens the grace window.           *)
AbortBehindVerdict ==
  /\ draining \subseteq aborted
  /\ grace # "none" => aborted # {}

(* A chunk sent before its turn's end is of a turn that was prompted and,  *)
(* while it is queued, has not been completed.                             *)
EarlyChunksKept ==
  \A i \in DOMAIN queue :
    queue[i].early => status[queue[i].of] \notin {"unsent", "completed"}

LostAreOver == \A t \in lost : status[t] \notin {"unsent", "running", "completed"}

ClosedIsIdle == closed => ~Live

EngineInv ==
  /\ TypeOK
  /\ PendingHasTimer
  /\ OneTurnAtATime
  /\ PoisonNeedsAbort
  /\ PumpBehindTurn
  /\ AbortBehindVerdict
  /\ EarlyChunksKept
  /\ LostAreOver
  /\ ClosedIsIdle

LEMMA EngineInvInit == Init => EngineInv
<1> SUFFICES ASSUME Init PROVE EngineInv
  OBVIOUS
<1>1. TypeOK
  BY TypeInit
<1>2. PendingHasTimer /\ OneTurnAtATime /\ PoisonNeedsAbort
  BY DEF Init, PendingHasTimer, OneTurnAtATime, PoisonNeedsAbort
<1>3. PumpBehindTurn /\ AbortBehindVerdict /\ LostAreOver /\ ClosedIsIdle
  BY DEF Init, PumpBehindTurn, AbortBehindVerdict, LostAreOver, ClosedIsIdle, Live
<1>4. EarlyChunksKept
  BY DEF Init, EarlyChunksKept
<1> QED
  BY <1>1, <1>2, <1>3, <1>4 DEF EngineInv

(* A turn that ends other than with its answer loses its early chunks.     *)
LEMMA AbnormalEnd ==
  ASSUME EngineInv, UNCHANGED queue, NEW t \in Turns,
         NEW how \in {"cancelled", "failed"}, Settle(t, how)
  PROVE  EarlyChunksKept'
<1>1. ASSUME NEW i \in DOMAIN queue, queue[i].early
      PROVE  status'[queue[i].of] \notin {"unsent", "completed"}
  <2>1. queue[i] \in Updates
    BY <1>1 DEF EngineInv, TypeOK
  <2>2. queue[i].of \in Turns
    BY <2>1 DEF Updates
  <2>3. status[queue[i].of] \notin {"unsent", "completed"}
    BY <1>1 DEF EngineInv, EarlyChunksKept
  <2> QED
    BY <2>2, <2>3 DEF Settle, EngineInv, TypeOK
<1> QED
  BY <1>1 DEF EarlyChunksKept

LEMMA EngineInvStep == EngineInv /\ TypeOK' /\ [Next]_vars => EngineInv'
<1> SUFFICES ASSUME EngineInv, TypeOK', [Next]_vars PROVE EngineInv'
  OBVIOUS
<1> USE NoTurnIsNull
    DEF EngineInv, TypeOK, Ended, Updates, turnVars, endVars, pumpVars, seatVars,
        PendingHasTimer, OneTurnAtATime, PoisonNeedsAbort, PumpBehindTurn,
        AbortBehindVerdict, EarlyChunksKept, LostAreOver, ClosedIsIdle, Live
<1>1. ASSUME NEW t \in Turns, Prompt(t) PROVE EngineInv'
  BY <1>1 DEF Prompt, MayPrompt
<1>2. ASSUME NEW t \in Turns, PromptRefused(t) PROVE EngineInv'
  BY <1>2 DEF PromptRefused, MayPrompt
<1>3. ASSUME NEW t \in Turns, Answer(t) PROVE EngineInv'
  BY <1>3 DEF Answer
<1>4. ASSUME NEW t \in Turns, AnswerError(t) PROVE EngineInv'
  <2>1. PendingHasTimer'
    BY <1>4 DEF AnswerError, Settle
  <2>2. OneTurnAtATime'
    BY <1>4 DEF AnswerError, Settle
  <2>3. PoisonNeedsAbort'
    BY <1>4 DEF AnswerError, Settle
  <2>4. PumpBehindTurn'
    BY <1>4 DEF AnswerError, Settle
  <2>5. AbortBehindVerdict'
    BY <1>4 DEF AnswerError, Settle
  <2>6. EarlyChunksKept'
    <3>1. \/ Settle(t, "cancelled")
          \/ Settle(t, "failed")
      BY <1>4 DEF AnswerError
    <3> QED
      BY <1>4, <3>1, AbnormalEnd DEF AnswerError
  <2>7. LostAreOver'
    BY <1>4 DEF AnswerError, Settle
  <2>8. ClosedIsIdle'
    BY <1>4 DEF AnswerError, Settle
  <2> QED
    BY <2>1, <2>2, <2>3, <2>4, <2>5, <2>6, <2>7, <2>8
<1>5. ASSUME NEW t \in Turns, DrainFires(t) PROVE EngineInv'
  BY <1>5 DEF DrainFires, Settle, Drained
<1>6. ASSUME NEW t \in Turns, HarnessStreams(t) PROVE EngineInv'
  BY <1>6 DEF HarnessStreams
<1>7. ASSUME Finally PROVE EngineInv'
  BY <1>7 DEF Finally, Unwinding
<1>8. ASSUME QuietFires PROVE EngineInv'
  BY <1>8 DEF QuietFires, Settle, Drained, Live
<1>9. ASSUME Cancel PROVE EngineInv'
  BY <1>9 DEF Cancel, Cancelled, Settle, Live
<1>10. ASSUME TurnTimeout PROVE EngineInv'
  BY <1>10 DEF TurnTimeout, Live
<1>11. ASSUME GraceElapses PROVE EngineInv'
  BY <1>11 DEF GraceElapses
<1>12. ASSUME Close PROVE EngineInv'
  <2>1. PendingHasTimer'
    BY <1>12 DEF Close, Cancelled, Settle
  <2>2. OneTurnAtATime'
    BY <1>12 DEF Close, Cancelled, Settle
  <2>3. PoisonNeedsAbort'
    BY <1>12 DEF Close, Cancelled, Settle
  <2>4. PumpBehindTurn'
    BY <1>12 DEF Close, Cancelled, Settle
  <2>5. AbortBehindVerdict'
    BY <1>12 DEF Close, Cancelled, Settle
  <2>6. EarlyChunksKept'
    <3>1. CASE Live
      BY <1>12, <3>1, AbnormalEnd DEF Close, Cancelled
    <3>2. CASE ~Live
      BY <1>12, <3>2 DEF Close
    <3> QED
      BY <3>1, <3>2
  <2>7. LostAreOver'
    BY <1>12 DEF Close, Cancelled, Settle
  <2>8. ClosedIsIdle'
    BY <1>12 DEF Close, Cancelled, Settle
  <2> QED
    BY <2>1, <2>2, <2>3, <2>4, <2>5, <2>6, <2>7, <2>8
<1>13. ASSUME PumpForwards PROVE EngineInv'
  BY <1>13 DEF PumpForwards, Reading, Live
<1>14. ASSUME PumpForwardThrows PROVE EngineInv'
  BY <1>14 DEF PumpForwardThrows, Settle, Reading, Live
<1>15. ASSUME PumpDrops PROVE EngineInv'
  BY <1>15 DEF PumpDrops, Reading, Live, Poisons
<1>16. ASSUME PumpBreaks PROVE EngineInv'
  <2>1. PendingHasTimer'
    BY <1>16 DEF PumpBreaks, Settle
  <2>2. OneTurnAtATime'
    BY <1>16 DEF PumpBreaks, Settle
  <2>3. PoisonNeedsAbort'
    BY <1>16 DEF PumpBreaks, Settle
  <2>4. PumpBehindTurn'
    BY <1>16 DEF PumpBreaks, Settle
  <2>5. AbortBehindVerdict'
    BY <1>16 DEF PumpBreaks, Settle
  <2>6. EarlyChunksKept'
    <3>1. CASE activeTurn \in Turns
      BY <1>16, <3>1, AbnormalEnd DEF PumpBreaks
    <3>2. CASE activeTurn = NoTurn
      BY <1>16, <3>2 DEF PumpBreaks
    <3> QED
      BY <3>1, <3>2
  <2>7. LostAreOver'
    BY <1>16 DEF PumpBreaks, Settle
  <2>8. ClosedIsIdle'
    BY <1>16 DEF PumpBreaks, Settle
  <2> QED
    BY <2>1, <2>2, <2>3, <2>4, <2>5, <2>6, <2>7, <2>8
<1>17. ASSUME PumpStops PROVE EngineInv'
  BY <1>17 DEF PumpStops
<1>18. ASSUME HarnessDies PROVE EngineInv'
  BY <1>18 DEF HarnessDies
<1>19. CASE UNCHANGED vars
  BY <1>19 DEF vars
<1> QED
  BY <1>1, <1>2, <1>3, <1>4, <1>5, <1>6, <1>7, <1>8, <1>9, <1>10, <1>11, <1>12, <1>13,
     <1>14, <1>15, <1>16, <1>17, <1>18, <1>19 DEF Next, Pump

LEMMA EngineInvariant == Spec => []EngineInv
  BY EngineInvInit, EngineInvStep, TypeCorrect, PTL DEF Spec

----------------------------------------------------------------------------
(* What follows from it *)

(* A held end always has a timer behind it, for any number of turns.       *)
THEOREM HeldEndIsReleased == Spec => []PendingHasTimer
  BY EngineInvariant, PTL DEF EngineInv

(* No two turns of a seat run side by side.                                *)
THEOREM TurnsAreAlone == Spec => []OneTurnAtATime
  BY EngineInvariant, PTL DEF EngineInv

(* A seat is poisoned only after an abort.                                 *)
THEOREM PoisonHasACause == Spec => []PoisonNeedsAbort
  BY EngineInvariant, PTL DEF EngineInv

(* A turn that ended with its answer lost none of its chunks.              *)
THEOREM CompletedTurnsAreWhole == Spec => []NothingLostAtNormalEnd
<1>1. EngineInv => NothingLostAtNormalEnd
  BY DEF EngineInv, LostAreOver, NothingLostAtNormalEnd
<1> QED
  BY <1>1, EngineInvariant, PTL

(* An unusable seat starts no turn.                                       *)
THEOREM UnusableStartsNothing == Spec => NoStartWhenUnusable
<1>1. ASSUME EngineInv, [Next]_vars PROVE StartRefused
  <2> USE <1>1, NoTurnIsNull
      DEF StartRefused, EngineInv, TypeOK, Ended, turnVars, endVars, pumpVars, seatVars
  <2>1. ASSUME NEW t \in Turns, Prompt(t) PROVE StartRefused
    BY <2>1 DEF Prompt, MayPrompt
  <2>2. ASSUME NEW t \in Turns, PromptRefused(t) PROVE StartRefused
    BY <2>2 DEF PromptRefused, MayPrompt
  <2>3. ASSUME NEW t \in Turns, Answer(t) PROVE StartRefused
    BY <2>3 DEF Answer
  <2>4. ASSUME NEW t \in Turns, AnswerError(t) PROVE StartRefused
    BY <2>4 DEF AnswerError, Settle
  <2>5. ASSUME NEW t \in Turns, DrainFires(t) PROVE StartRefused
    BY <2>5 DEF DrainFires, Settle, Drained
  <2>6. ASSUME NEW t \in Turns, HarnessStreams(t) PROVE StartRefused
    BY <2>6 DEF HarnessStreams
  <2>7. ASSUME Finally PROVE StartRefused
    BY <2>7 DEF Finally, Unwinding
  <2>8. ASSUME QuietFires PROVE StartRefused
    BY <2>8 DEF QuietFires, Settle, Drained, Live
  <2>9. ASSUME Cancel PROVE StartRefused
    BY <2>9 DEF Cancel, Cancelled, Settle, Live
  <2>10. ASSUME TurnTimeout PROVE StartRefused
    BY <2>10 DEF TurnTimeout, Live
  <2>11. ASSUME GraceElapses PROVE StartRefused
    BY <2>11 DEF GraceElapses
  <2>12. ASSUME Close PROVE StartRefused
    BY <2>12 DEF Close, Cancelled, Settle, Live
  <2>13. ASSUME PumpForwards PROVE StartRefused
    BY <2>13 DEF PumpForwards, Reading, Live
  <2>14. ASSUME PumpForwardThrows PROVE StartRefused
    BY <2>14 DEF PumpForwardThrows, Settle, Reading, Live
  <2>15. ASSUME PumpDrops PROVE StartRefused
    <3>1. Head(queue) \in Updates /\ Tail(queue) \in Seq(Updates)
      BY <2>15, HeadTailProperties DEF PumpDrops, Reading
    <3> QED
      BY <2>15, <3>1 DEF PumpDrops, Poisons
  <2>16. ASSUME PumpBreaks PROVE StartRefused
    BY <2>16 DEF PumpBreaks, Settle
  <2>17. ASSUME PumpStops PROVE StartRefused
    BY <2>17 DEF PumpStops
  <2>18. ASSUME HarnessDies PROVE StartRefused
    BY <2>18 DEF HarnessDies
  <2>19. CASE UNCHANGED vars
    BY <2>19 DEF vars
  <2> QED
    BY <2>1, <2>2, <2>3, <2>4, <2>5, <2>6, <2>7, <2>8, <2>9, <2>10, <2>11, <2>12,
       <2>13, <2>14, <2>15, <2>16, <2>17, <2>18, <2>19 DEF Next, Pump
<1> QED
  BY <1>1, EngineInvariant, PTL DEF Spec, NoStartWhenUnusable

(* A closed seat forwards nothing.                                         *)
THEOREM ClosedIsSilent == Spec => SilentOnceClosed
<1>1. ASSUME EngineInv, [Next]_vars PROVE NothingForwarded
  <2> USE <1>1, NoTurnIsNull
      DEF NothingForwarded, EngineInv, TypeOK, Ended, turnVars, endVars, pumpVars,
         seatVars, ClosedIsIdle, Live
  <2>1. ASSUME NEW t \in Turns, Prompt(t) PROVE NothingForwarded
    BY <2>1 DEF Prompt, MayPrompt
  <2>2. ASSUME NEW t \in Turns, PromptRefused(t) PROVE NothingForwarded
    BY <2>2 DEF PromptRefused, MayPrompt
  <2>3. ASSUME NEW t \in Turns, Answer(t) PROVE NothingForwarded
    BY <2>3 DEF Answer
  <2>4. ASSUME NEW t \in Turns, AnswerError(t) PROVE NothingForwarded
    BY <2>4 DEF AnswerError, Settle
  <2>5. ASSUME NEW t \in Turns, DrainFires(t) PROVE NothingForwarded
    BY <2>5 DEF DrainFires, Settle, Drained
  <2>6. ASSUME NEW t \in Turns, HarnessStreams(t) PROVE NothingForwarded
    BY <2>6 DEF HarnessStreams
  <2>7. ASSUME Finally PROVE NothingForwarded
    BY <2>7 DEF Finally, Unwinding
  <2>8. ASSUME QuietFires PROVE NothingForwarded
    BY <2>8 DEF QuietFires, Settle, Drained, Live
  <2>9. ASSUME Cancel PROVE NothingForwarded
    BY <2>9 DEF Cancel, Cancelled, Settle, Live
  <2>10. ASSUME TurnTimeout PROVE NothingForwarded
    BY <2>10 DEF TurnTimeout, Live
  <2>11. ASSUME GraceElapses PROVE NothingForwarded
    BY <2>11 DEF GraceElapses
  <2>12. ASSUME Close PROVE NothingForwarded
    BY <2>12 DEF Close, Cancelled, Settle, Live
  <2>13. ASSUME PumpForwards PROVE NothingForwarded
    BY <2>13 DEF PumpForwards, Reading, Live
  <2>14. ASSUME PumpForwardThrows PROVE NothingForwarded
    BY <2>14 DEF PumpForwardThrows, Settle, Reading, Live
  <2>15. ASSUME PumpDrops PROVE NothingForwarded
    <3>1. Head(queue) \in Updates /\ Tail(queue) \in Seq(Updates)
      BY <2>15, HeadTailProperties DEF PumpDrops, Reading
    <3> QED
      BY <2>15, <3>1 DEF PumpDrops, Poisons
  <2>16. ASSUME PumpBreaks PROVE NothingForwarded
    BY <2>16 DEF PumpBreaks, Settle
  <2>17. ASSUME PumpStops PROVE NothingForwarded
    BY <2>17 DEF PumpStops
  <2>18. ASSUME HarnessDies PROVE NothingForwarded
    BY <2>18 DEF HarnessDies
  <2>19. CASE UNCHANGED vars
    BY <2>19 DEF vars
  <2> QED
    BY <2>1, <2>2, <2>3, <2>4, <2>5, <2>6, <2>7, <2>8, <2>9, <2>10, <2>11, <2>12,
       <2>13, <2>14, <2>15, <2>16, <2>17, <2>18, <2>19 DEF Next, Pump
<1> QED
  BY <1>1, EngineInvariant, PTL DEF Spec, SilentOnceClosed

(* The first end of a turn is its only one.                                *)
THEOREM EndsAreFinal == Spec => EndIsFinal
<1>1. ASSUME EngineInv, [Next]_vars PROVE EndKept
  <2> USE <1>1, NoTurnIsNull
      DEF EndKept, EngineInv, TypeOK, Ended, turnVars, endVars, pumpVars, seatVars
  <2>1. ASSUME NEW t \in Turns, Prompt(t) PROVE EndKept
    BY <2>1 DEF Prompt, MayPrompt
  <2>2. ASSUME NEW t \in Turns, PromptRefused(t) PROVE EndKept
    BY <2>2 DEF PromptRefused, MayPrompt
  <2>3. ASSUME NEW t \in Turns, Answer(t) PROVE EndKept
    BY <2>3 DEF Answer
  <2>4. ASSUME NEW t \in Turns, AnswerError(t) PROVE EndKept
    BY <2>4 DEF AnswerError, Settle
  <2>5. ASSUME NEW t \in Turns, DrainFires(t) PROVE EndKept
    BY <2>5 DEF DrainFires, Settle, Drained
  <2>6. ASSUME NEW t \in Turns, HarnessStreams(t) PROVE EndKept
    BY <2>6 DEF HarnessStreams
  <2>7. ASSUME Finally PROVE EndKept
    BY <2>7 DEF Finally, Unwinding
  <2>8. ASSUME QuietFires PROVE EndKept
    BY <2>8 DEF QuietFires, Settle, Drained, Live
  <2>9. ASSUME Cancel PROVE EndKept
    BY <2>9 DEF Cancel, Cancelled, Settle, Live
  <2>10. ASSUME TurnTimeout PROVE EndKept
    BY <2>10 DEF TurnTimeout, Live
  <2>11. ASSUME GraceElapses PROVE EndKept
    BY <2>11 DEF GraceElapses
  <2>12. ASSUME Close PROVE EndKept
    BY <2>12 DEF Close, Cancelled, Settle, Live
  <2>13. ASSUME PumpForwards PROVE EndKept
    BY <2>13 DEF PumpForwards, Reading, Live
  <2>14. ASSUME PumpForwardThrows PROVE EndKept
    BY <2>14 DEF PumpForwardThrows, Settle, Reading, Live
  <2>15. ASSUME PumpDrops PROVE EndKept
    <3>1. Head(queue) \in Updates /\ Tail(queue) \in Seq(Updates)
      BY <2>15, HeadTailProperties DEF PumpDrops, Reading
    <3> QED
      BY <2>15, <3>1 DEF PumpDrops, Poisons
  <2>16. ASSUME PumpBreaks PROVE EndKept
    BY <2>16 DEF PumpBreaks, Settle
  <2>17. ASSUME PumpStops PROVE EndKept
    BY <2>17 DEF PumpStops
  <2>18. ASSUME HarnessDies PROVE EndKept
    BY <2>18 DEF HarnessDies
  <2>19. CASE UNCHANGED vars
    BY <2>19 DEF vars
  <2> QED
    BY <2>1, <2>2, <2>3, <2>4, <2>5, <2>6, <2>7, <2>8, <2>9, <2>10, <2>11, <2>12,
       <2>13, <2>14, <2>15, <2>16, <2>17, <2>18, <2>19 DEF Next, Pump
<1> QED
  BY <1>1, EngineInvariant, PTL DEF Spec, EndIsFinal

----------------------------------------------------------------------------
(* The contract *)

(* A step of the contract, or none.                                        *)
ContractMove == [Contract!Next]_<<Running, Over, Delivered, Usable>>

LEMMA ContractStutters ==
  ASSUME UNCHANGED <<activeTurn, status, attributed, poisoned, closed>>
  PROVE  ContractMove
  BY DEF ContractMove, Running, Live, Over, Delivered, Usable

(* A settle ends the running turn, or is too late to do anything.          *)
LEMMA ContractSettles ==
  ASSUME EngineInv, NEW t \in Turns, NEW how \in Ended, Settle(t, how),
         UNCHANGED <<activeTurn, attributed>>,
         Usable' \in {Usable, FALSE},
         status[t] # "running" => UNCHANGED <<poisoned, closed>>
  PROVE  ContractMove
<1>1. CASE status[t] = "running"
  <2>1. activeTurn = t /\ Live /\ Running = t /\ t # NoTurn
    BY <1>1, NoTurnIsNull DEF EngineInv, OneTurnAtATime, Live, Running
  <2>2. status' = [status EXCEPT ![t] = how]
    BY <1>1 DEF Settle, EngineInv, TypeOK
  <2>3. Running' = NoTurn
    BY <2>1, <2>2 DEF Running, Live, Ended, EngineInv, TypeOK
  <2>4. Over' = Over \cup {t}
    BY <2>2 DEF Over, EngineInv, TypeOK
  <2>5. Delivered' = Delivered
    BY DEF Delivered
  <2> QED
    BY <2>1, <2>3, <2>4, <2>5 DEF ContractMove, Contract!Next, Contract!End
<1>2. CASE status[t] # "running"
  <2>1. status' = status
    BY <1>2 DEF Settle, EngineInv, TypeOK
  <2> QED
    BY <1>2, <2>1, ContractStutters
<1> QED
  BY <1>1, <1>2

LEMMA ContractGivesUp ==
  ASSUME UNCHANGED <<activeTurn, status, attributed>>, Usable' \in {Usable, FALSE}
  PROVE  ContractMove
  BY DEF ContractMove, Contract!Next, Contract!GiveUp, Running, Live, Over, Delivered

LEMMA ContractStep == EngineInv /\ [Next]_vars => ContractMove
<1> SUFFICES ASSUME EngineInv, [Next]_vars PROVE ContractMove
  OBVIOUS
<1> USE DEF turnVars, endVars, pumpVars, seatVars
<1>1. ASSUME NEW t \in Turns, Prompt(t) PROVE ContractMove
  <2>1. Running = NoTurn /\ Usable /\ t \notin Over
    BY <1>1 DEF Prompt, MayPrompt, Running, Live, Usable, Over, Ended
  <2>2. Running' = t
    BY <1>1, NoTurnIsNull DEF Prompt, Running, Live, EngineInv, TypeOK
  <2>3. Over' = Over /\ Delivered' = Delivered /\ Usable' = Usable
    BY <1>1 DEF Prompt, Over, Delivered, Usable, Ended, EngineInv, TypeOK
  <2> QED
    BY <2>1, <2>2, <2>3 DEF ContractMove, Contract!Next, Contract!Start
<1>2. ASSUME NEW t \in Turns, PromptRefused(t) PROVE ContractMove
  <2>1. Running # t /\ Running' = Running
    BY <1>2, NoTurnIsNull DEF PromptRefused, Running, Live, EngineInv, TypeOK
  <2>2. Over' = Over \cup {t} /\ Delivered' = Delivered /\ Usable' = Usable
    BY <1>2 DEF PromptRefused, Over, Delivered, Usable, Ended, EngineInv, TypeOK
  <2> QED
    BY <2>1, <2>2 DEF ContractMove, Contract!Next, Contract!Refuse
<1>3. ASSUME NEW t \in Turns, Answer(t) \/ HarnessStreams(t) PROVE ContractMove
  BY <1>3, ContractStutters DEF Answer, HarnessStreams
<1>4. ASSUME NEW t \in Turns, AnswerError(t) PROVE ContractMove
  <2>1. \E how \in Ended : Settle(t, how)
    BY <1>4 DEF AnswerError, Ended
  <2>2. UNCHANGED <<activeTurn, attributed, poisoned, closed>> /\ Usable' = Usable
    BY <1>4 DEF AnswerError, Usable
  <2> QED
    BY <2>1, <2>2, ContractSettles
<1>5. ASSUME NEW t \in Turns, DrainFires(t) PROVE ContractMove
  <2>1. Settle(t, "cancelled") /\ UNCHANGED <<activeTurn, attributed, closed>>
    BY <1>5 DEF DrainFires
  <2>2. Usable' \in {Usable, FALSE}
    BY <1>5 DEF DrainFires, Usable
  <2>3. status[t] # "running" => UNCHANGED <<poisoned, closed>>
    BY <1>5 DEF DrainFires, EngineInv, TypeOK
  <2> QED
    BY <2>1, <2>2, <2>3, ContractSettles DEF Ended
<1>6. ASSUME Finally PROVE ContractMove
  <2>1. Running' = Running /\ Over' = Over /\ Delivered' = Delivered /\ Usable' = Usable
    BY <1>6 DEF Finally, Unwinding, Running, Live, Over, Delivered, Usable
  <2> QED
    BY <2>1 DEF ContractMove
<1>7. ASSUME QuietFires PROVE ContractMove
  <2>1. UNCHANGED <<activeTurn, attributed, poisoned, closed>> /\ Usable' = Usable
    BY <1>7 DEF QuietFires, Usable
  <2>2. CASE pending # NoTurn /\ Live
    <3>1. activeTurn \in Turns /\ Settle(activeTurn, "completed")
      BY <1>7, <2>2 DEF QuietFires, Live, EngineInv, TypeOK
    <3> QED
      BY <2>1, <3>1, ContractSettles DEF Ended
  <2>3. CASE ~(pending # NoTurn /\ Live)
    BY <1>7, <2>1, <2>3, ContractStutters DEF QuietFires
  <2> QED
    BY <2>2, <2>3
<1>8. ASSUME Cancel PROVE ContractMove
  <2>1. activeTurn \in Turns /\ Settle(activeTurn, "cancelled")
    BY <1>8 DEF Cancel, Cancelled, Live, EngineInv, TypeOK
  <2>2. UNCHANGED <<activeTurn, attributed, poisoned, closed>> /\ Usable' = Usable
    BY <1>8 DEF Cancel, Usable
  <2> QED
    BY <2>1, <2>2, ContractSettles DEF Ended
<1>9. ASSUME Close PROVE ContractMove
  <2>1. UNCHANGED <<activeTurn, attributed>> /\ Usable' \in {Usable, FALSE}
    BY <1>9 DEF Close, Usable
  <2>2. CASE Live
    <3>1. activeTurn \in Turns /\ Settle(activeTurn, "cancelled")
      BY <1>9, <2>2 DEF Close, Cancelled, Live, EngineInv, TypeOK
    <3>2. status[activeTurn] = "running"
      BY <2>2 DEF Live
    <3> QED
      BY <2>1, <3>1, <3>2, ContractSettles DEF Ended
  <2>3. CASE ~Live
    BY <1>9, <2>1, <2>3, ContractGivesUp DEF Close
  <2> QED
    BY <2>2, <2>3
<1>10. ASSUME PumpForwards PROVE ContractMove
  <2>1. Running = activeTurn /\ Running # NoTurn
    BY <1>10 DEF PumpForwards, Live, Running
  <2>2. Running' = Running /\ Over' = Over /\ Usable' = Usable
    BY <1>10 DEF PumpForwards, Running, Live, Over, Usable
  <2>3. Delivered' = Delivered \cup {activeTurn}
    <3>1. attributed' = attributed \cup {<<activeTurn, Head(queue).of>>}
      BY <1>10 DEF PumpForwards
    <3>2. <<activeTurn, Head(queue).of>>[1] = activeTurn
      OBVIOUS
    <3> QED
      BY <3>1, <3>2 DEF Delivered
  <2> QED
    BY <2>1, <2>2, <2>3 DEF ContractMove, Contract!Next, Contract!Deliver
<1>11. ASSUME PumpForwardThrows PROVE ContractMove
  <2>1. activeTurn \in Turns /\ Settle(activeTurn, "failed")
    BY <1>11 DEF PumpForwardThrows, Live, EngineInv, TypeOK
  <2>2. UNCHANGED <<activeTurn, attributed, poisoned, closed>> /\ Usable' = Usable
    BY <1>11 DEF PumpForwardThrows, Usable
  <2> QED
    BY <2>1, <2>2, ContractSettles DEF Ended
<1>12. ASSUME PumpDrops PROVE ContractMove
  <2>1. UNCHANGED <<activeTurn, status, attributed>> /\ Usable' \in {Usable, FALSE}
    BY <1>12 DEF PumpDrops, Usable
  <2> QED
    BY <2>1, ContractGivesUp
<1>13. ASSUME PumpBreaks PROVE ContractMove
  <2>1. UNCHANGED <<activeTurn, attributed, poisoned, closed>> /\ Usable' = Usable
    BY <1>13 DEF PumpBreaks, Usable
  <2>2. CASE activeTurn \in Turns
    <3>1. Settle(activeTurn, "failed")
      BY <1>13, <2>2, NoTurnIsNull DEF PumpBreaks
    <3> QED
      BY <2>1, <2>2, <3>1, ContractSettles DEF Ended
  <2>3. CASE activeTurn = NoTurn
    BY <1>13, <2>1, <2>3, ContractStutters DEF PumpBreaks
  <2> QED
    BY <2>2, <2>3 DEF EngineInv, TypeOK
<1>14. ASSUME TurnTimeout \/ GraceElapses \/ PumpStops \/ HarnessDies PROVE ContractMove
  BY <1>14, ContractStutters DEF TurnTimeout, GraceElapses, PumpStops, HarnessDies
<1>15. CASE UNCHANGED vars
  BY <1>15, ContractStutters DEF vars
<1> QED
  BY <1>1, <1>2, <1>3, <1>4, <1>5, <1>6, <1>7, <1>8, <1>9, <1>10, <1>11,
     <1>12, <1>13, <1>14, <1>15 DEF Next, Pump

(* Whatever the harness streams, answers or leaves out, the turn engine    *)
(* implements the contract the session layer is built on.                  *)
THEOREM EngineImplementsContract == Spec => ImplementsSeatContract
<1>1. Init => Contract!Init
  BY DEF Init, Contract!Init, Running, Live, Over, Delivered, Usable, Ended
<1> QED
  BY <1>1, ContractStep, EngineInvariant, PTL
     DEF Spec, ImplementsSeatContract, Contract!Spec, Contract!vars, ContractMove
=============================================================================
