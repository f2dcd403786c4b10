--------------------- MODULE RenderContextDriverProofs ---------------------
(***************************************************************************)
(* Proofs about RenderContextDriver, for every number of messages and      *)
(* every amount of film activity: IInv is inductive, and the safety        *)
(* properties follow from it.                                              *)
(***************************************************************************)
EXTENDS RenderContextDriver, TLAPS

(* The invariant's parts, and the groups of variables actions leave alone. *)
USE DEF TypeOK, WatcherAgrees, NoStaleCancel, ContextAgrees, StopAgrees,
        CountersAgree, SentAgrees, FinishedOnce, BeforeLaunch,
        ArrasPc, PrepPc, SendPc, Handled, handlerDone, ctx, queue, frame, counters, send, prep, seen, sent

LEMMA InitIInv == Init => IInv
<1> SUFFICES ASSUME Init PROVE IInv OBVIOUS
<1> USE DEF Init
<1>1. TypeOK OBVIOUS
<1>2. WatcherAgrees /\ NoStaleCancel OBVIOUS
<1>3. ContextAgrees /\ StopAgrees OBVIOUS
<1>4. CountersAgree /\ SentAgrees /\ FinishedOnce OBVIOUS
<1> QED BY <1>1, <1>2, <1>3, <1>4 DEF IInv

(* Receiving a message, queued or not. *)
LEMMA MessagesKeepIInv ==
  ASSUME IInv, Messages
  PROVE  IInv'
<1> USE DEF IInv, Receive
<1>1. CASE enqGeometryMessage BY <1>1 DEF enqGeometryMessage
<1>2. ASSUME NEW type \in {"RDL", "OTHER"}, enqUpdateMessage(type)
      PROVE  IInv'
  BY <1>2 DEF enqUpdateMessage, UpdateTypes
<1>3. CASE enqForceReload BY <1>3 DEF enqForceReload, UpdateTypes
<1>4. CASE enqRenderSetupMessage
  BY <1>4 DEF enqRenderSetupMessage, UpdateTypes
<1>5. CASE StopMessage BY <1>5 DEF StopMessage, stopTiming, isRunStateWait
<1>6. CASE InvalidateResources BY <1>6 DEF InvalidateResources
<1>7. CASE ForceRenderStart BY <1>7 DEF ForceRenderStart
<1> QED BY <1>1, <1>2, <1>3, <1>4, <1>5, <1>6, <1>7 DEF Messages

(* stopFrame() and the restart after it. *)
LEMMA StopKeepsIInv ==
  ASSUME IInv, StopSteps
  PROVE  IInv'
<1> USE DEF IInv
<1>1. CASE StopRendering
  <2> USE <1>1 DEF StopRendering, ContextStopped
  <2>1. TypeOK'
    <3>1. rendering' \in BOOLEAN OBVIOUS
    <3>2. ready' \in BOOLEAN OBVIOUS
    <3>3. complete' \in BOOLEAN OBVIOUS
    <3>4. cancel' \in BOOLEAN OBVIOUS
    <3>5. renderActive' \in BOOLEAN OBVIOUS
    <3> QED BY <3>1, <3>2, <3>3, <3>4, <3>5
  <2>2. WatcherAgrees' /\ NoStaleCancel' OBVIOUS
  <2>3. ContextAgrees' OBVIOUS
  <2>4. StopAgrees' OBVIOUS
  <2>5. CountersAgree' OBVIOUS
  <2>6. SentAgrees' /\ FinishedOnce' OBVIOUS
  <2> QED BY <2>1, <2>2, <2>3, <2>4, <2>5, <2>6
<1>2. CASE StopNotRendering BY <1>2 DEF StopNotRendering
<1>3. CASE StopPrepTest BY <1>3 DEF StopPrepTest, isRenderPrepRun
<1>4. CASE StopCancelClear
  <2> USE <1>4 DEF StopCancelClear
  <2>1. TypeOK'
    <3>1. cancel' \in BOOLEAN OBVIOUS
    <3> QED BY <3>1
  <2>2. WatcherAgrees' /\ NoStaleCancel' OBVIOUS
  <2>3. ContextAgrees' OBVIOUS
  <2>4. StopAgrees' OBVIOUS
  <2>5. CountersAgree' OBVIOUS
  <2>6. SentAgrees' /\ FinishedOnce' OBVIOUS
  <2> QED BY <2>1, <2>2, <2>3, <2>4, <2>5, <2>6
<1>5. CASE Restart
  BY <1>5 DEF Restart, start, isRunStateWait, RenderPrepWatcher!Request
<1>6. CASE RequestStop BY <1>6 DEF RequestStop
<1> QED BY <1>1, <1>2, <1>3, <1>4, <1>5, <1>6 DEF StopSteps

LEMMA ApplyKeepsIInv ==
  ASSUME IInv, applyUpdatesAndRestartRender
  PROVE  IInv'
<1> USE DEF IInv, applyUpdatesAndRestartRender, start, isRunStateWait,
            RenderPrepWatcher!Request
<1>1. rendering' \in BOOLEAN /\ ~rendering'
  BY DEF applyToContext, ContextFresh, ContextStopped
<1>2. ready' \in BOOLEAN /\ complete' \in BOOLEAN
  BY DEF applyToContext, ContextFresh, ContextStopped
<1>3. film' \in Nat
  BY DEF applyToContext, ContextFresh, ContextStopped
<1>4. initialized' \in BOOLEAN
  BY DEF initializedAfter, reconstruct
<1>5. emptySchedule' \in BOOLEAN /\ halted' \in BOOLEAN
  BY DEF applyToContext, ContextFresh, ContextStopped
<1>6. cancel' \in BOOLEAN /\ renderActive' \in BOOLEAN /\ geometry' \in BOOLEAN
  BY <1>1
<1>7. TypeOK' BY <1>1, <1>2, <1>3, <1>4, <1>5, <1>6
<1>8. WatcherAgrees' /\ NoStaleCancel' /\ CountersAgree' /\ FinishedOnce'
  OBVIOUS
<1>9. ContextAgrees' BY <1>1
<1>10. StopAgrees' /\ SentAgrees' BY <1>1
<1> QED BY <1>7, <1>8, <1>9, <1>10

LEMMA SendKeepsIInv ==
  ASSUME IInv, SendBegin \/ SendSteps
  PROVE  IInv'
<1> USE DEF IInv
<1>1. CASE SendBegin BY <1>1 DEF SendBegin, isReadyToSnapshot, isRunStateWait
<1>2. CASE SendDecide
  <2> USE <1>2 DEF SendDecide
  <2>1. halted' \in BOOLEAN BY DEF haltIfUpdates
  <2> QED BY <2>1
<1>3. CASE SendNothing
  <2> USE <1>3 DEF SendNothing
  <2>1. halted' \in BOOLEAN BY DEF haltIfUpdates
  <2> QED BY <2>1
<1>4. CASE SendStatus
  <2> USE <1>4 DEF SendStatus
  <2>1. TypeOK'
    <3>1. beforeInitial' \in BOOLEAN OBVIOUS
    <3>2. finishing' \in BOOLEAN OBVIOUS
    <3>3. sentComplete' \in BOOLEAN OBVIOUS
    <3>4. renderActive' \in BOOLEAN OBVIOUS
    <3>5. unseen' \in BOOLEAN OBVIOUS
    <3>6. setupSince' \in BOOLEAN OBVIOUS
    <3> QED BY <3>1, <3>2, <3>3, <3>4, <3>5, <3>6
  <2>2. WatcherAgrees' /\ NoStaleCancel' OBVIOUS
  <2>3. ContextAgrees' OBVIOUS
  <2>4. StopAgrees' OBVIOUS
  <2>5. CountersAgree' OBVIOUS
  <2>6. SentAgrees' /\ FinishedOnce' OBVIOUS
  <2> QED BY <2>1, <2>2, <2>3, <2>4, <2>5, <2>6
<1>5. CASE SendSnapshot
  <2> USE <1>5 DEF SendSnapshot
  <2>1. TypeOK'
    <3>1. trailing' \in BOOLEAN OBVIOUS
    <3>2. inCallBack' \in BOOLEAN /\ deferring' \in BOOLEAN OBVIOUS
    <3> QED BY <3>1, <3>2
  <2>2. WatcherAgrees' /\ NoStaleCancel' OBVIOUS
  <2>3. ContextAgrees' OBVIOUS
  <2>4. StopAgrees' OBVIOUS
  <2>5. CountersAgree' OBVIOUS
  <2>6. FinishedOnce'
    <3>1. CASE finishing BY <3>1
    <3>2. CASE ~finishing BY <3>2
    <3> QED BY <3>1, <3>2
  <2>7. SentAgrees' OBVIOUS
  <2> QED BY <2>1, <2>2, <2>3, <2>4, <2>5, <2>6, <2>7
<1>6. CASE SendReturn
  <2> USE <1>6 DEF SendReturn
  <2>1. CASE finishing /\ rendering
    <3> USE <2>1 DEF ContextStopped
    <3>1. TypeOK'
      <4>1. rendering' \in BOOLEAN OBVIOUS
      <4>2. ready' \in BOOLEAN OBVIOUS
      <4>3. complete' \in BOOLEAN OBVIOUS
      <4>4. inCallBack' \in BOOLEAN /\ finishing' \in BOOLEAN OBVIOUS
      <4> QED BY <4>1, <4>2, <4>3, <4>4
    <3>2. WatcherAgrees' /\ NoStaleCancel' OBVIOUS
    <3>3. ContextAgrees' OBVIOUS
    <3>4. StopAgrees' OBVIOUS
    <3>5. CountersAgree' OBVIOUS
    <3>6. SentAgrees' /\ FinishedOnce' OBVIOUS
    <3> QED BY <3>1, <3>2, <3>3, <3>4, <3>5, <3>6
  <2>2. CASE ~(finishing /\ rendering)
    <3> USE <2>2
    <3>1. TypeOK'
      <4>1. inCallBack' \in BOOLEAN /\ finishing' \in BOOLEAN OBVIOUS
      <4>2. UNCHANGED ctx BY Zenon
      <4> QED BY <4>1, <4>2
    <3>2. WatcherAgrees' /\ NoStaleCancel' OBVIOUS
    <3>3. ContextAgrees' OBVIOUS
    <3>4. StopAgrees' OBVIOUS
    <3>5. CountersAgree' OBVIOUS
    <3>6. SentAgrees' /\ FinishedOnce' OBVIOUS
    <3> QED BY <3>1, <3>2, <3>3, <3>4, <3>5, <3>6
  <2> QED BY <2>1, <2>2
<1> QED BY <1>1, <1>2, <1>3, <1>4, <1>5, <1>6 DEF SendSteps

LEMMA PrepKeepsIInv ==
  ASSUME IInv, PrepSteps
  PROVE  IInv'
<1> USE DEF IInv
<1>1. CASE PrepBegin BY <1>1 DEF PrepBegin, RenderPrepWatcher!Begin
<1>2. CASE PrepEnter BY <1>2 DEF PrepEnter
<1>3. CASE PrepCanceled
  <2> USE <1>3 DEF PrepCanceled
  <2>1. TypeOK'
    <3>1. ready' \in BOOLEAN OBVIOUS
    <3>2. complete' \in BOOLEAN OBVIOUS
    <3> QED BY <3>1, <3>2
  <2>2. WatcherAgrees' /\ NoStaleCancel' OBVIOUS
  <2>3. ContextAgrees' OBVIOUS
  <2>4. StopAgrees' OBVIOUS
  <2>5. CountersAgree' OBVIOUS
  <2>6. SentAgrees' /\ FinishedOnce' OBVIOUS
  <2> QED BY <2>1, <2>2, <2>3, <2>4, <2>5, <2>6
<1>4. CASE PrepUncanceled BY <1>4 DEF PrepUncanceled
<1>5. CASE PrepLaunch
  <2> USE <1>5 DEF PrepLaunch
  <2>1. TypeOK'
    <3>1. rendering' \in BOOLEAN OBVIOUS
    <3>2. ready' \in BOOLEAN OBVIOUS
    <3>3. complete' \in BOOLEAN OBVIOUS
    <3>4. emptySchedule' \in BOOLEAN /\ halted' \in BOOLEAN OBVIOUS
    <3> QED BY <3>1, <3>2, <3>3, <3>4
  <2>2. WatcherAgrees' /\ NoStaleCancel' OBVIOUS
  <2>3. ContextAgrees' OBVIOUS
  <2>4. StopAgrees' OBVIOUS
  <2>5. CountersAgree' OBVIOUS
  <2>6. SentAgrees' /\ FinishedOnce' OBVIOUS
  <2> QED BY <2>1, <2>2, <2>3, <2>4, <2>5, <2>6
<1>6. CASE PrepClear
  <2> USE <1>6 DEF PrepClear
  <2>1. TypeOK'
    <3>1. cancel' \in BOOLEAN OBVIOUS
    <3>2. renderActive' \in BOOLEAN OBVIOUS
    <3> QED BY <3>1, <3>2
  <2>2. WatcherAgrees' /\ NoStaleCancel' OBVIOUS
  <2>3. ContextAgrees' OBVIOUS
  <2>4. StopAgrees' OBVIOUS
  <2>5. CountersAgree' OBVIOUS
  <2>6. SentAgrees' /\ FinishedOnce' OBVIOUS
  <2> QED BY <2>1, <2>2, <2>3, <2>4, <2>5, <2>6
<1>7. CASE PrepCountLoad BY <1>7 DEF PrepCountLoad
<1>8. CASE PrepCountStore
  <2> USE <1>8 DEF PrepCountStore
  <2>1. TypeOK'
    <3>1. beforeInitial' \in BOOLEAN OBVIOUS
    <3>2. sentComplete' \in BOOLEAN OBVIOUS
    <3>3. unseen' \in BOOLEAN OBVIOUS
    <3>4. trailing' \in BOOLEAN OBVIOUS
    <3> QED BY <3>1, <3>2, <3>3, <3>4
  <2>2. WatcherAgrees' /\ NoStaleCancel' OBVIOUS
  <2>3. ContextAgrees' OBVIOUS
  <2>4. StopAgrees' OBVIOUS
  <2>5. CountersAgree' OBVIOUS
  <2>6. SentAgrees' /\ FinishedOnce' OBVIOUS
  <2> QED BY <2>1, <2>2, <2>3, <2>4, <2>5, <2>6
<1>9. CASE PrepEnd BY <1>9 DEF PrepEnd, RenderPrepWatcher!End
<1> QED
  BY <1>1, <1>2, <1>3, <1>4, <1>5, <1>6, <1>7, <1>8, <1>9 DEF PrepSteps

LEMMA McrtKeepsIInv ==
  ASSUME IInv, McrtStep
  PROVE  IInv'
<1> USE DEF IInv, McrtStep
<1>1. TypeOK'
  <2>1. ready' \in BOOLEAN OBVIOUS
  <2>2. complete' \in BOOLEAN OBVIOUS
  <2>3. film' \in Nat OBVIOUS
  <2> QED BY <2>1, <2>2, <2>3
<1>2. /\ WatcherAgrees' /\ NoStaleCancel' /\ ContextAgrees'
      /\ StopAgrees' /\ CountersAgree' /\ FinishedOnce'
  OBVIOUS
<1>3. SentAgrees' OBVIOUS
<1> QED BY <1>1, <1>2, <1>3

LEMMA NextKeepsIInv == IInv /\ [Next]_vars => IInv'
<1> SUFFICES ASSUME IInv, [Next]_vars PROVE IInv' OBVIOUS
<1>1. CASE UNCHANGED vars BY <1>1 DEF IInv, vars
<1> QED
  BY <1>1, MessagesKeepIInv, StopKeepsIInv, ApplyKeepsIInv, SendKeepsIInv,
     PrepKeepsIInv, McrtKeepsIInv
  DEF Next

(* The two threads and the RenderContext always agree. *)
THEOREM Invariance == Spec => []IInv
  BY InitIInv, NextKeepsIInv, PTL DEF Spec

(* Types, of every variable. *)
THEOREM TypeCorrect == Spec => []TypeOK
<1>1. IInv => TypeOK BY DEF IInv
<1> QED BY <1>1, Invariance, PTL

(* No cancel request outlives the renderPrep it was meant for. *)
THEOREM CancelIsConsumed == Spec => []NoStaleCancel
<1>1. IInv => NoStaleCancel BY DEF IInv
<1> QED BY <1>1, Invariance, PTL

(* renderPrep never touches a RenderContext that renders. *)
THEOREM PrepIsAlone == Spec => []PrepOnStoppedContext
<1>1. IInv => PrepOnStoppedContext BY DEF IInv, PrepOnStoppedContext
<1> QED BY <1>1, Invariance, PTL

(* A STOP in time wins every race with renderPrep. *)
THEOREM StopWinsInTime == Spec => []StopIsObeyed
<1>1. IInv => StopIsObeyed BY DEF IInv, StopIsObeyed
<1> QED BY <1>1, Invariance, PTL

(* A node that renders is reported active. *)
THEOREM ActiveIsTold == Spec => []RenderActiveIsTold
<1>1. IInv => RenderActiveIsTold BY DEF IInv, RenderActiveIsTold
<1> QED BY <1>1, Invariance, PTL

(* An unchanged film activity means an up-to-date snapshot. *)
THEOREM ActivityTracksFilm == Spec => []NothingMissed
<1>1. IInv => NothingMissed BY DEF IInv, NothingMissed, isRunStateWait
<1> QED BY <1>1, Invariance, PTL

(* No frame is finished twice. *)
THEOREM OneFinished == Spec => []FinishedOnce
<1>1. IInv => FinishedOnce BY DEF IInv
<1> QED BY <1>1, Invariance, PTL

(* Only applyUpdatesAndRestartRender() empties the queue, and its gate holds
   it back while the frame has sent nothing. *)
THEOREM GateHolds == Spec => UpdatesWaitForSnapshot
<1> DEFINE Step == (updates # {} /\ updates' = {}) \/ (geometry /\ ~geometry')
                     => ~unseen \/ setupSince
<1>1. IInv /\ [Next]_vars => [Step]_vars
  <2> SUFFICES ASSUME IInv, Next PROVE Step OBVIOUS
  <2>1. CASE Messages
    BY <2>1 DEF Messages, enqGeometryMessage, enqUpdateMessage, enqForceReload,
                enqRenderSetupMessage, StopMessage, InvalidateResources,
                ForceRenderStart
  <2>2. CASE StopSteps
    BY <2>2 DEF StopSteps, StopRendering, StopNotRendering, StopPrepTest,
                StopCancelClear, Restart, RequestStop
  <2>3. CASE applyUpdatesAndRestartRender
    BY <2>3 DEF IInv, applyUpdatesAndRestartRender, gateOpen
  <2>4. CASE SendBegin \/ SendSteps
    BY <2>4 DEF SendBegin, SendSteps, SendDecide, SendNothing, SendStatus,
                SendSnapshot, SendReturn
  <2>5. CASE PrepSteps
    BY <2>5 DEF PrepSteps, PrepBegin, PrepEnter, PrepCanceled, PrepUncanceled,
                PrepLaunch, PrepClear, PrepCountLoad, PrepCountStore, PrepEnd
  <2>6. CASE McrtStep BY <2>6 DEF McrtStep
  <2> QED BY <2>1, <2>2, <2>3, <2>4, <2>5, <2>6 DEF Next
<1> QED BY <1>1, Invariance, PTL DEF Spec, UpdatesWaitForSnapshot

=============================================================================
