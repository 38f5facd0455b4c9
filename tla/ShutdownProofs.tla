--------------------------- MODULE ShutdownProofs ---------------------------
(* Proofs about Shutdown: its types, the honesty of a clean exit, and that *)
(* nothing starts behind a closed gateway.                                 *)
EXTENDS Shutdown, TLAPS

----------------------------------------------------------------------------
(* The inductive invariant *)

Early == step \in {"serving", "closing", "settling"}

(* A child exists from its spawn on, and close() saw it exit if it says so.*)
ChildInv == \A a \in Attempts :
  /\ phase[a] \in {"unused", "gate"} => child[a] = "none"
  /\ stage[a] = "reaped" => child[a] = "gone"

(* terminate() moves forward.                                              *)
StepInv ==
  /\ Early => listed = {}
  /\ step = "listener" => toReap = {} /\ reaping = NoAttempt
  /\ step = "exited" <=> exit # "no"

(* closeAll() has closed, is closing or will close what it listed.         *)
ListedInv == \A a \in listed :
  child[a] = "gone" \/ a \in toReap \/ a = reaping \/ a \in survivors

(* What was tracked at the signal stays so until it is closed or listed.   *)
KnownInv == exit = "failed" \/ \A a \in known :
  child[a] = "gone" \/ stage[a] = "lost" \/ a \in (IF Early THEN tracked ELSE listed)

(* Every socket is closed once the gateway is.                             *)
GatewayInv == step \notin {"serving", "closing", "exited"} => AllClosed

StopInv ==
  /\ TypeOK /\ ChildInv /\ StepInv /\ ListedInv /\ KnownInv /\ GatewayInv
  /\ CleanExitIsHonest

THEOREM InitStopInv == Init => StopInv
<1> SUFFICES ASSUME Init PROVE StopInv
  OBVIOUS
<1> USE DEF Init
<1>1. TypeOK
  BY DEF TypeOK, Phases, Stages, Steps
<1>2. ChildInv /\ StepInv /\ ListedInv /\ KnownInv
  BY DEF ChildInv, StepInv, ListedInv, KnownInv, Early
<1>3. GatewayInv /\ CleanExitIsHonest
  BY DEF GatewayInv, CleanExitIsHonest
<1> QED
  BY <1>1, <1>2, <1>3 DEF StopInv

(* Steps of one attempt's own functions.                                   *)
OwnStep(a) ==
  \/ Start(a) \/ GateFails(a) \/ Spawned(a)
  \/ HandshakeFails(a) \/ HandshakeDone(a) \/ Adopted(a) \/ AdoptFails(a)
  \/ EndSession(a) \/ PumpStopped(a) \/ CloseReturns(a)

LEMMA OwnSteps == ASSUME NEW a \in Attempts, StopInv, OwnStep(a) PROVE StopInv'
<1> USE DEF StopInv, TypeOK, ChildInv, StepInv, ListedInv, KnownInv, GatewayInv,
            CleanExitIsHonest, ListedAreReaped, KnownAreClosed, AllClosed, Heard, Early, Phases,
            Stages, Running, Goto, Close, Ended, Registered, Forgotten,
            attemptVars, childVars, connVars, reapVars, stopVars
<1>1. CASE Start(a) \/ GateFails(a) \/ Adopted(a) \/ AdoptFails(a) \/ EndSession(a)
  BY <1>1 DEF Start, GateFails, Adopted, AdoptFails, EndSession
<1>2. CASE Spawned(a)
  BY <1>2 DEF Spawned
<1>3. CASE HandshakeFails(a) \/ PumpStopped(a)
  BY <1>3 DEF HandshakeFails, PumpStopped
<1>4. CASE HandshakeDone(a)
  BY <1>4 DEF HandshakeDone
<1>5. CASE CloseReturns(a)
  BY <1>5 DEF CloseReturns
<1> QED
  BY <1>1, <1>2, <1>3, <1>4, <1>5 DEF OwnStep

LEMMA ChildSteps ==
  ASSUME NEW a \in Attempts, StopInv, WaitEnds(a) \/ HarnessExits(a) \/ ReapNext(a)
  PROVE  StopInv'
<1> USE DEF StopInv, TypeOK, ChildInv, StepInv, ListedInv, KnownInv, GatewayInv,
            CleanExitIsHonest, ListedAreReaped, KnownAreClosed, AllClosed, Heard, Early, Phases,
            Stages, Running, Close, Forgotten,
            attemptVars, childVars, connVars, reapVars, stopVars
<1>1. CASE WaitEnds(a)
  BY <1>1 DEF WaitEnds, Escalated
<1>2. CASE HarnessExits(a)
  BY <1>2 DEF HarnessExits
<1>3. CASE ReapNext(a)
  <2> USE <1>3 DEF ReapNext
  <2>1. TypeOK' /\ ChildInv' /\ StepInv' /\ GatewayInv'
    OBVIOUS
  <2>2. ListedInv'
    BY NoAttemptIsNull
  <2>3. KnownInv' /\ CleanExitIsHonest'
    OBVIOUS
  <2> QED
    BY <2>1, <2>2, <2>3
<1> QED
  BY <1>1, <1>2, <1>3

LEMMA ServerSteps ==
  ASSUME StopInv,
         (\E c \in Conns : Upgrade(c) \/ SocketClosed(c)) \/ Signal \/ SecondSignal
  PROVE  StopInv'
<1> USE DEF StopInv, TypeOK, ChildInv, StepInv, ListedInv, KnownInv, GatewayInv,
            CleanExitIsHonest, ListedAreReaped, KnownAreClosed, AllClosed, Heard, Early, Phases,
            Steps, Running, attemptVars, childVars, connVars, reapVars, stopVars
<1>1. ASSUME NEW c \in Conns, Upgrade(c) PROVE StopInv'
  BY <1>1 DEF Upgrade
<1>2. ASSUME NEW c \in Conns, SocketClosed(c) PROVE StopInv'
  BY <1>2 DEF SocketClosed
<1>3. CASE Signal
  BY <1>3 DEF Signal
<1>4. CASE SecondSignal
  BY <1>4 DEF SecondSignal
<1> QED
  BY <1>1, <1>2, <1>3, <1>4

LEMMA TerminateSteps == ASSUME StopInv, Terminate PROVE StopInv'
<1> USE DEF StopInv, TypeOK, ChildInv, StepInv, ListedInv, KnownInv, GatewayInv,
            CleanExitIsHonest, ListedAreReaped, KnownAreClosed, AllClosed, Heard, Early, Steps,
            Ended, attemptVars, childVars, connVars, reapVars, stopVars
<1>1. CASE GatewayClosed
  BY <1>1 DEF GatewayClosed
<1>2. CASE Settled
  BY <1>2, NoAttemptIsNull DEF Settled
<1>3. CASE Reaped
  BY <1>3 DEF Reaped, Survived
<1>4. CASE ReapingDone
  BY <1>4 DEF ReapingDone
<1>5. CASE Exit
  BY <1>5, NoAttemptIsNull DEF Exit
<1> QED
  BY <1>1, <1>2, <1>3, <1>4, <1>5 DEF Terminate

THEOREM StopInvariant == Spec => []StopInv
<1>1. StopInv /\ [Next]_vars => StopInv'
  <2> SUFFICES ASSUME StopInv, [Next]_vars PROVE StopInv'
    OBVIOUS
  <2>1. ASSUME NEW a \in Attempts, OwnStep(a) PROVE StopInv'
    BY <2>1, OwnSteps
  <2>2. ASSUME NEW a \in Attempts, WaitEnds(a) \/ HarnessExits(a) \/ ReapNext(a)
        PROVE  StopInv'
    BY <2>2, ChildSteps
  <2>3. CASE (\E c \in Conns : Upgrade(c) \/ SocketClosed(c)) \/ Signal \/ SecondSignal
    BY <2>3, ServerSteps
  <2>4. CASE Terminate
    BY <2>4, TerminateSteps
  <2>5. CASE UNCHANGED vars
    BY <2>5 DEF vars, attemptVars, childVars, connVars, reapVars, stopVars,
         StopInv, TypeOK, ChildInv, StepInv, ListedInv, KnownInv, GatewayInv,
         CleanExitIsHonest, ListedAreReaped, KnownAreClosed, AllClosed, Heard, Early
  <2> QED
    BY <2>1, <2>2, <2>3, <2>4, <2>5 DEF Next, OwnStep, Terminate
<1> QED
  BY <1>1, InitStopInv, PTL DEF Spec

----------------------------------------------------------------------------
(* The theorems *)

(* Every variable keeps its type; the registry holds running children only.*)
THEOREM TypeCorrect == Spec => []TypeOK
BY StopInvariant, PTL DEF StopInv

(* A process that exits with 0 leaves no child the registry was told of:   *)
(* what it listed is gone, what it knew at the signal is gone or was given *)
(* up by its own session.                                                  *)
THEOREM CleanExitsAreHonest == Spec => []CleanExitIsHonest
BY StopInvariant, PTL DEF StopInv

(* No session is opened or loaded behind a closed gateway.                 *)
THEOREM NothingStartsLate == Spec => NothingStartsAfterClose
<1>1. StopInv /\ [Next]_vars => [StartsNothing]_vars
  <2> SUFFICES ASSUME StopInv, Next, step \notin {"serving", "closing"},
                      NEW a \in Attempts, phase[a] = "unused"
               PROVE  phase'[a] = "unused"
    BY DEF StartsNothing
  <2> USE DEF StopInv, TypeOK, StepInv, GatewayInv, AllClosed, Running,
              attemptVars, childVars, connVars, reapVars, stopVars
  <2>1. ASSUME NEW b \in Attempts, Start(b) PROVE FALSE
    BY <2>1 DEF Start
  <2>2. ASSUME NEW b \in Attempts, OwnStep(b) PROVE phase'[a] = "unused"
    BY <2>1, <2>2 DEF OwnStep, GateFails, Spawned, HandshakeFails, HandshakeDone,
         Adopted, AdoptFails, EndSession, PumpStopped, CloseReturns, Goto
  <2>3. ASSUME NEW b \in Attempts, WaitEnds(b) \/ HarnessExits(b) \/ ReapNext(b)
        PROVE  phase'[a] = "unused"
    BY <2>3 DEF WaitEnds, HarnessExits, ReapNext
  <2>4. ASSUME NEW c \in Conns, Upgrade(c) \/ SocketClosed(c)
        PROVE  phase'[a] = "unused"
    BY <2>4 DEF Upgrade, SocketClosed
  <2>5. CASE Signal \/ SecondSignal \/ Terminate
    BY <2>5 DEF Signal, SecondSignal, Terminate, GatewayClosed, Settled, Reaped,
         ReapingDone, Exit
  <2> QED
    BY <2>2, <2>3, <2>4, <2>5 DEF Next, OwnStep, Terminate
<1> QED
  BY <1>1, StopInvariant, PTL DEF Spec, NothingStartsAfterClose
=============================================================================
