-------------------------- MODULE RenderSessionProofs --------------------------
(***************************************************************************)
(* Proofs about RenderSession, for every number of machines and frames,    *)
(* every credit and every target: IInv is inductive; the safety properties *)
(* and the order of the images follow from it.                             *)
(***************************************************************************)
EXTENDS RenderSession, TLAPS

USE MergeAssumption, SessionAssumption

(* Two states with the same fb have the same total. *)
LEMMA TotalKept == fb' = fb => Total' = Total
  BY DEF Total

USE DEF UNDEFINED, Ids, Statuses, States, session

LEMMA IdFacts == /\ \A s \in Ids : s \in Int /\ s >= -1
                 /\ \A s \in SyncIds : s \in Nat /\ s \in Ids
  OBVIOUS

LEMMA InitIInv == Init => IInv
<1> SUFFICES ASSUME Init PROVE IInv OBVIOUS
<1> USE DEF Init, MergeInit, NONE, NOTHING, IDLE
<1>1. TypeOK
  <2>1. firstFrame \in BOOLEAN /\ received \in BOOLEAN /\ hasProgressiveFrame \in BOOLEAN
        /\ packetDue \in BOOLEAN /\ starved \in BOOLEAN /\ parallelInitialFrame \in BOOLEAN OBVIOUS
  <2> QED BY <2>1 DEF TypeOK, MergeTypeOK
<1>2. ViewportFollows /\ QuickUpdateFollows /\ ReceivedIsOnDisplay
  BY DEF ViewportFollows, QuickUpdateFollows, ReceivedIsOnDisplay
<1>3. NeverAhead /\ LastIsNewest /\ CompletedOnce BY DEF NeverAhead, LastIsNewest, CompletedOnce
<1>4. BegunIsNumbered /\ TargetIsNoted /\ CompletionsAreDue /\ NoFrameIsCutShort
  BY DEF BegunIsNumbered, TargetIsNoted, CompletionsAreDue, NoFrameIsCutShort
<1>5. CreditNeverLeaks BY DEF CreditNeverLeaks, enabled
<1> QED BY <1>1, <1>2, <1>3, <1>4, <1>5 DEF IInv

(* What a ProgressiveFrame does to the frame on display. *)
LEMMA PushFacts ==
  ASSUME TypeOK, NEW msg, msg.machine \in Machines, msg.syncId \in SyncIds,
         msg.status \in Statuses, msg.progress \in Nat, push(msg)
  PROVE  /\ display' \in Ids /\ received' \in BOOLEAN
         /\ fb' \in [Machines -> [status : Statuses, progress : Nat]]
         /\ display' = IF msg.syncId > display THEN msg.syncId ELSE display
         /\ display' # UNDEFINED
         /\ received' => received \/ display' = msg.syncId
         /\ msg.syncId < display => UNCHANGED frames
<1>1. display \in Int /\ display >= -1 /\ msg.syncId \in Int /\ msg.syncId >= 0
  <2> HIDE DEF Ids
  <2>1. display \in Ids BY DEF TypeOK, MergeTypeOK
  <2>2. display \in Int BY <2>1, IdFacts
  <2>3. display >= -1 BY <2>1, IdFacts
  <2>4. msg.syncId \in Nat BY IdFacts
  <2> QED BY <2>2, <2>3, <2>4
<1> USE DEF TypeOK, MergeTypeOK, push, frames, NONE
<1>2. received' \in BOOLEAN OBVIOUS
<1>3. display' = IF msg.syncId > display THEN msg.syncId ELSE display
  <2>1. \/ msg.syncId > display /\ display' = msg.syncId
        \/ msg.syncId = display /\ display' = display
        \/ msg.syncId < display /\ display' = display
    OBVIOUS
  <2> HIDE DEF TypeOK, MergeTypeOK, push
  <2> QED BY <1>1, <2>1
<1>4. fb' \in [Machines -> [status : Statuses, progress : Nat]]
  <2> DEFINE entry == [status |-> msg.status, progress |-> msg.progress]
  <2>1. entry \in [status : Statuses, progress : Nat] OBVIOUS
  <2>2. \/ fb' = [m \in Machines |-> IF m = msg.machine THEN entry ELSE NONE]
        \/ fb' = [fb EXCEPT ![msg.machine] = entry]
        \/ fb' = fb
    OBVIOUS
  <2>3. NONE \in [status : Statuses, progress : Nat] OBVIOUS
  <2>4. fb \in [Machines -> [status : Statuses, progress : Nat]] OBVIOUS
  <2> HIDE DEF entry, NONE, TypeOK, MergeTypeOK, push
  <2> QED BY <2>1, <2>2, <2>3, <2>4
<1>5. received' => received \/ display' = msg.syncId OBVIOUS
<1>6. msg.syncId < display => UNCHANGED frames BY <1>1
<1>7. display' \in Ids OBVIOUS
<1> HIDE DEF TypeOK, MergeTypeOK, push, frames
<1>8. display' # UNDEFINED BY <1>1, <1>3
<1> QED BY <1>2, <1>3, <1>4, <1>5, <1>6, <1>7, <1>8

(* A machine sends something. *)
LEMMA SendsKeepsIInv ==
  ASSUME IInv, NEW m \in Machines,
         NEW state \in States, state.syncId \in SyncIds, restarts' \in Nat,
         state.stop => mcrt[m].stop /\ state.syncId = mcrt[m].syncId, Sends(m, state)
  PROVE  IInv'
<1>v. PICK viewport \in ViewportsOf[state.syncId], force \in BOOLEAN :
        onProgressiveFrame([machine |-> m, syncId |-> state.syncId, viewport |-> viewport,
                            status |-> state.status, progress |-> state.progress], force)
  BY DEF Sends
<1> DEFINE msg == [machine |-> m, syncId |-> state.syncId, viewport |-> viewport,
                   status |-> state.status, progress |-> state.progress]
<1>1. PICK forceUpdate \in BOOLEAN : onProgressiveFrame(msg, forceUpdate) BY <1>v
<1>2. /\ msg.viewport \in ViewportsOf[msg.syncId]
      /\ msg.machine = m /\ msg.syncId = state.syncId /\ msg.syncId \in SyncIds
      /\ msg.status \in Statuses /\ msg.progress \in Nat OBVIOUS
<1>3. TypeOK BY DEF IInv
<1>4. push(msg) BY <1>1 DEF onProgressiveFrame
<1>5. /\ display' \in Ids /\ received' \in BOOLEAN
      /\ fb' \in [Machines -> [status : Statuses, progress : Nat]]
      /\ display' = IF msg.syncId > display THEN msg.syncId ELSE display
      /\ display' # UNDEFINED
      /\ received' => received \/ display' = msg.syncId
      /\ msg.syncId < display => UNCHANGED frames
  BY <1>2, <1>3, <1>4, PushFacts
<1> HIDE DEF msg
<1>6. /\ mcrt' = [mcrt EXCEPT ![m] = state]
      /\ reached' = IF Total' >= Target THEN reached \cup {display'} ELSE reached BY DEF Sends
<1> USE <1>1, <1>2, <1>5, <1>6 DEF IInv, onProgressiveFrame, config, sent, control
<1>7. quickUpdate(msg) => msg.syncId >= display /\ rezedViewport' \in ViewportsOf[msg.syncId]
  BY DEF quickUpdate, isInitialFrameMessage, onViewportChanged, QuickUpdateFollows, TypeOK, MergeTypeOK
<1>8. ~quickUpdate(msg) => rezedViewport' = rezedViewport BY DEF onViewportChanged
<1>9. msg.syncId > display => quickUpdate(msg)
  BY DEF quickUpdate, isInitialFrameMessage, QuickUpdateFollows, TypeOK, MergeTypeOK
<1>0. /\ display \in Int /\ msg.syncId \in Int /\ msg.syncId >= 0
      /\ image.syncId \in Int /\ lastCompleteSyncId \in Int
  <2> HIDE DEF Ids
  <2>1. display \in Ids /\ image.syncId \in Ids /\ lastCompleteSyncId \in Ids
    BY <1>3 DEF TypeOK, MergeTypeOK
  <2>2. display \in Int BY <2>1, IdFacts
  <2>3. image.syncId \in Int BY <2>1, IdFacts
  <2>4. lastCompleteSyncId \in Int BY <2>1, IdFacts
  <2>5. msg.syncId \in Nat BY IdFacts
  <2> QED BY <2>2, <2>3, <2>4, <2>5
<1>10. TypeOK'
  <2>1. MergeTypeOK'
    <3>1. currActiveRecvSyncId' \in Ids BY DEF RecvSyncId, TypeOK, MergeTypeOK
    <3>2. image'.syncId \in Ids /\ owed' \in Nat /\ packetDue' \in BOOLEAN
      <4>1. packetDue' \in BOOLEAN BY DEF QuickSend, TypeOK, MergeTypeOK
      <4>2. owed' \in Nat
        <5>1. owed \in Nat BY <1>3 DEF TypeOK, MergeTypeOK
        <5>2. owed' = owed \/ owed' = owed + 1 BY DEF QuickSend
        <5> QED BY ONLY <5>1, <5>2
      <4>3. image'.syncId \in Ids
        <5>1. image.syncId \in Ids BY <1>3 DEF TypeOK, MergeTypeOK
        <5>2. msg.syncId \in Ids BY <1>2
        <5>3. image'.syncId = image.syncId \/ image'.syncId = msg.syncId BY DEF QuickSend
        <5> QED BY ONLY <5>1, <5>2, <5>3
      <4> QED BY <4>1, <4>2, <4>3
    <3>3. hasProgressiveFrame' \in BOOLEAN OBVIOUS
    <3> QED BY <3>1, <3>2, <3>3 DEF TypeOK, MergeTypeOK
  <2>2. reached' \subseteq Ids BY DEF TypeOK
  <2> QED BY <2>1, <2>2 DEF TypeOK
<1>11. ViewportFollows'
  <2>1. CASE msg.syncId > display
    BY <2>1, <1>7, <1>9 DEF ViewportFollows
  <2>2. CASE msg.syncId = display
    BY <2>2, <1>0, <1>7, <1>8 DEF ViewportFollows
  <2>3. CASE msg.syncId < display
    <3>1. ~quickUpdate(msg) BY <2>3, <1>0, <1>7
    <3> QED BY <2>3, <3>1, <1>0, <1>8 DEF ViewportFollows
  <2> QED BY <1>0, <2>1, <2>2, <2>3
<1>12. QuickUpdateFollows'
  BY <1>3 DEF QuickUpdateFollows, RecvSyncId, quickUpdate, TypeOK, MergeTypeOK
<1>13. ReceivedIsOnDisplay' BY DEF ReceivedIsOnDisplay
<1>14. NeverAhead'
  <2>1. image'.syncId = image.syncId \/ (quickUpdate(msg) /\ image'.syncId = msg.syncId)
    BY DEF QuickSend
  <2>2. lastCompleteSyncId' = lastCompleteSyncId OBVIOUS
  <2>3. image.syncId <= display /\ lastCompleteSyncId <= display BY DEF NeverAhead
  <2>4. quickUpdate(msg) => msg.syncId >= display BY <1>7
  <2>5. display' = IF msg.syncId > display THEN msg.syncId ELSE display OBVIOUS
  <2> HIDE DEF IInv, onProgressiveFrame
  <2> QED BY <1>0, <2>1, <2>2, <2>3, <2>4, <2>5 DEF NeverAhead
<1>15. LastIsNewest' /\ CompletedOnce' BY DEF LastIsNewest, CompletedOnce
<1>16. BegunIsNumbered' /\ TargetIsNoted' BY DEF BegunIsNumbered, TargetIsNoted, TypeOK
<1>17. CompletionsAreDue' BY DEF CompletionsAreDue
<1>18. NoFrameIsCutShort' BY DEF NoFrameIsCutShort, TypeOK
<1>19. CreditNeverLeaks'
  BY <1>3 DEF CreditNeverLeaks, enabled, QuickSend, TypeOK, MergeTypeOK
<1> QED BY <1>10, <1>11, <1>12, <1>13, <1>14, <1>15, <1>16, <1>17, <1>18, <1>19 DEF IInv

(* Credit and debt after n messages. *)
LEMMA ChargeFacts ==
  ASSUME TypeOK, CreditNeverLeaks, NEW n \in Nat, SendCharged(n), UNCHANGED initialCredit
  PROVE  credit' \in Int /\ owed' \in Nat /\ CreditNeverLeaks'
  BY DEF TypeOK, MergeTypeOK, CreditNeverLeaks, SendCharged, enabled, flow

LEMMA CountFacts == \A b \in BOOLEAN : Count(b) \in Nat
  BY DEF Count

(* sendCompleteToMcrt() for the frame on display. *)
LEMMA CompleteFacts ==
  ASSUME IInv, received, SendComplete, UNCHANGED <<display, reached, mcrt>>
  PROVE  /\ lastCompleteSyncId' \in Ids /\ lastCompleteSyncId' <= display
         /\ toMcrt' \in [Machines -> Seq(SyncIds)]
         /\ completed' \in Seq(SyncIds)
         /\ LastIsNewest' /\ CompletedOnce' /\ CompletionsAreDue'
<1>1. CASE ~CompleteIsDue
  BY <1>1 DEF IInv, SendComplete, control, TypeOK, MergeTypeOK, NeverAhead, LastIsNewest,
              CompletedOnce, CompletionsAreDue
<1>2. CASE CompleteIsDue
  <2>1. /\ display \in SyncIds /\ display \in reached
        /\ lastCompleteSyncId \in Ids /\ lastCompleteSyncId < display
    BY <1>2 DEF IInv, CompleteIsDue, ReceivedIsOnDisplay, TargetIsNoted, NeverAhead, TypeOK, MergeTypeOK
  <2>2. /\ lastCompleteSyncId' = display
        /\ toMcrt' = [m \in Machines |-> Append(toMcrt[m], display)]
        /\ completed' = Append(completed, display) BY <1>2 DEF SendComplete
  <2>3. completed \in Seq(SyncIds) /\ toMcrt \in [Machines -> Seq(SyncIds)]
    BY DEF IInv, TypeOK, MergeTypeOK
  <2>10. display \in Int /\ display >= 0 BY <2>1, IdFacts
  <2>4. LastIsNewest'
    <3>1. \A i \in 1 .. Len(completed) : completed[i] \in SyncIds /\ completed[i] <= lastCompleteSyncId
      BY <2>3 DEF IInv, LastIsNewest
    <3>2. ASSUME NEW i \in 1 .. Len(completed) PROVE completed[i] \in SyncIds /\ completed[i] < display
      <4>1. completed[i] \in Int /\ lastCompleteSyncId \in Int BY <2>1, <3>1, IdFacts
      <4> QED BY <2>1, <2>10, <3>1, <4>1
    <3>3. ASSUME NEW i \in 1 .. Len(completed') PROVE completed'[i] <= lastCompleteSyncId'
      <4>1. CASE i \in 1 .. Len(completed)
        <5>1. completed'[i] = completed[i] BY <4>1, <2>2, <2>3
        <5>2. completed[i] < display /\ completed[i] \in Int BY <4>1, <3>2, IdFacts
        <5> QED BY <5>1, <5>2, <2>2, <2>10
      <4>2. CASE i = Len(completed) + 1 BY <4>2, <2>1, <2>2, <2>3, <2>10
      <4> QED BY <2>1, <2>2, <2>3, <4>1, <4>2
    <3> QED BY <3>3 DEF LastIsNewest
  <2>5. CompletedOnce'
    <3>1. ASSUME NEW i \in 1 .. Len(completed) PROVE completed[i] \in SyncIds /\ completed[i] < display
      <4>1. completed[i] \in SyncIds /\ completed[i] <= lastCompleteSyncId BY <2>3 DEF IInv, LastIsNewest
      <4>2. completed[i] \in Int /\ lastCompleteSyncId \in Int BY <2>1, <4>1, IdFacts
      <4> QED BY <2>1, <2>10, <4>1, <4>2
    <3> QED BY <2>1, <2>2, <2>3, <3>1 DEF CompletedOnce, IInv
  <2>6. CompletionsAreDue'
    <3> SUFFICES ASSUME NEW m \in Machines, NEW i \in 1 .. Len(toMcrt'[m]) PROVE toMcrt'[m][i] \in reached
      BY DEF CompletionsAreDue
    <3> QED BY <2>1, <2>2, <2>3 DEF IInv, CompletionsAreDue
  <2>7. toMcrt' \in [Machines -> Seq(SyncIds)] BY <2>1, <2>2, <2>3
  <2>8. lastCompleteSyncId' \in Ids /\ lastCompleteSyncId' <= display /\ completed' \in Seq(SyncIds)
    BY <2>1, <2>2, <2>3
  <2> QED BY <2>4, <2>5, <2>6, <2>7, <2>8
<1> QED BY <1>1, <1>2

(* onIdle() with an image. *)
LEMMA IdleImageKeepsIInv ==
  ASSUME IInv, IdleImage, UNCHANGED session
  PROVE  IInv'
<1> USE DEF IInv, IdleImage, config, recv
<1>1. TypeOK /\ received = TRUE
  <2>1. received \in BOOLEAN /\ received BY DEF MaySendFrame, TypeOK, MergeTypeOK
  <2> QED BY <2>1
<1>2. /\ lastCompleteSyncId' \in Ids /\ lastCompleteSyncId' <= display
      /\ toMcrt' \in [Machines -> Seq(SyncIds)]
      /\ completed' \in Seq(SyncIds)
      /\ LastIsNewest' /\ CompletedOnce' /\ CompletionsAreDue'
  BY <1>1, CompleteFacts
<1>3. 1 + Count(CompleteIsDue) + Count(firstFrame) \in Nat BY DEF Count
<1>4. credit' \in Int /\ owed' \in Nat /\ CreditNeverLeaks'
  BY <1>1, <1>3, ChargeFacts
<1>5. image'.syncId = display OBVIOUS
<1>6. TypeOK'
  <2>1. firstFrame' \in BOOLEAN OBVIOUS
  <2>2. received' \in BOOLEAN OBVIOUS
  <2>3. hasProgressiveFrame' \in BOOLEAN OBVIOUS
  <2>4. packetDue' \in BOOLEAN OBVIOUS
  <2>5. starved' \in BOOLEAN OBVIOUS
  <2>6. lastMergeSyncId' \in Ids BY <1>1 DEF TypeOK, MergeTypeOK
  <2>7. MergeTypeOK'
    BY <1>1, <1>2, <1>4, <1>5, <2>1, <2>2, <2>3, <2>4, <2>5, <2>6 DEF TypeOK, MergeTypeOK
  <2> QED BY <1>1, <2>7 DEF TypeOK
<1>7. ViewportFollows' /\ QuickUpdateFollows' /\ ReceivedIsOnDisplay'
  BY DEF ViewportFollows, QuickUpdateFollows, ReceivedIsOnDisplay
<1>8. NeverAhead'
  <2>1. display \in Int BY <1>1, IdFacts DEF TypeOK, MergeTypeOK
  <2> QED BY <1>2, <1>5, <2>1 DEF NeverAhead
<1>9. BegunIsNumbered' /\ TargetIsNoted' BY DEF BegunIsNumbered, TargetIsNoted
<1>10. NoFrameIsCutShort' BY DEF NoFrameIsCutShort
<1> QED BY <1>2, <1>4, <1>6, <1>7, <1>8, <1>9, <1>10 DEF IInv

(* The other steps of the merge leave all but the credit and the flags. *)
LEMMA FlagsKeepIInv ==
  ASSUME IInv,
         UNCHANGED <<config, frames, recv, lastMergeSyncId, control, image, session>>,
         hasProgressiveFrame' \in BOOLEAN, packetDue' \in BOOLEAN,
         starved' \in BOOLEAN, firstFrame' \in BOOLEAN,
         credit' \in Int, owed' \in Nat, CreditNeverLeaks'
  PROVE  IInv'
<1> USE DEF IInv, config, frames, recv, control
<1>1. TypeOK' BY DEF TypeOK, MergeTypeOK
<1>2. ViewportFollows' /\ QuickUpdateFollows' /\ ReceivedIsOnDisplay'
  BY DEF ViewportFollows, QuickUpdateFollows, ReceivedIsOnDisplay
<1>3. NeverAhead' /\ LastIsNewest' /\ CompletedOnce' BY DEF NeverAhead, LastIsNewest, CompletedOnce
<1>4. BegunIsNumbered' /\ TargetIsNoted' BY TotalKept DEF BegunIsNumbered, TargetIsNoted, TypeOK
<1>5. CompletionsAreDue' /\ NoFrameIsCutShort' BY DEF CompletionsAreDue, NoFrameIsCutShort
<1> QED BY <1>1, <1>2, <1>3, <1>4, <1>5 DEF IInv

LEMMA MergeStepKeepsIInv ==
  ASSUME IInv, MergeStep, UNCHANGED session
  PROVE  IInv'
<1>1. CASE IdleImage BY <1>1, IdleImageKeepsIInv
<1> USE DEF sent, flow
<1>2. TypeOK /\ CreditNeverLeaks BY DEF IInv
<1>3. /\ hasProgressiveFrame \in BOOLEAN /\ packetDue \in BOOLEAN /\ received \in BOOLEAN
      /\ starved \in BOOLEAN /\ firstFrame \in BOOLEAN /\ credit \in Int /\ owed \in Nat
  BY <1>2 DEF TypeOK, MergeTypeOK
<1>4. CASE IdleWait
  <2>1. PICK b \in BOOLEAN : SendCharged(Count(b)) BY <1>4 DEF IdleWait
  <2>2. credit' \in Int /\ owed' \in Nat /\ CreditNeverLeaks'
    BY <1>2, <1>4, <2>1, CountFacts, ChargeFacts DEF IdleWait, config
  <2>3. hasProgressiveFrame' \in BOOLEAN BY <1>4 DEF IdleWait
  <2> QED BY <1>3, <1>4, <2>2, <2>3, FlagsKeepIInv DEF IdleWait
<1>5. CASE IdleGiveUp
  <2>1. CreditNeverLeaks' BY <1>2, <1>5 DEF IdleGiveUp, CreditNeverLeaks, enabled, config
  <2>2. hasProgressiveFrame' \in BOOLEAN BY <1>5 DEF IdleGiveUp
  <2>3. starved' \in BOOLEAN BY <1>3, <1>5 DEF IdleGiveUp
  <2> QED BY <1>3, <1>5, <2>1, <2>2, <2>3, FlagsKeepIInv DEF IdleGiveUp
<1>6. CASE IdleInfo
  <2>1. 1 + Count(firstFrame) \in Nat BY DEF Count
  <2>2. credit' \in Int /\ owed' \in Nat /\ CreditNeverLeaks'
    BY <1>2, <1>6, <2>1, ChargeFacts DEF IdleInfo, config
  <2>3. hasProgressiveFrame' \in BOOLEAN BY <1>6 DEF IdleInfo
  <2>4. firstFrame' \in BOOLEAN BY <1>6 DEF IdleInfo
  <2>5. starved' \in BOOLEAN BY <1>3, <1>6 DEF IdleInfo
  <2> QED BY <1>3, <1>6, <2>2, <2>3, <2>4, <2>5, FlagsKeepIInv DEF IdleInfo
<1>7. CASE onCreditUpdate
  <2>1. credit' \in Int /\ owed' \in Nat /\ CreditNeverLeaks'
    BY <1>2, <1>7 DEF onCreditUpdate, applyTo, CreditNeverLeaks, enabled, config, TypeOK, MergeTypeOK
  <2> QED BY <1>3, <1>7, <2>1, FlagsKeepIInv DEF onCreditUpdate
<1>8. CASE PacketTimer
  <2>1. CreditNeverLeaks' BY <1>2, <1>8 DEF PacketTimer, CreditNeverLeaks, enabled, config
  <2>2. packetDue' \in BOOLEAN BY <1>8 DEF PacketTimer
  <2> QED BY <1>3, <1>8, <2>1, <2>2, FlagsKeepIInv DEF PacketTimer
<1> QED BY <1>1, <1>4, <1>5, <1>6, <1>7, <1>8 DEF MergeStep, onIdle

(* A machine handles a completion. *)
LEMMA CompletionKeepsIInv ==
  ASSUME IInv, NEW m \in Machines, evalRenderCompleteMultiMachine(m)
  PROVE  IInv'
<1> USE DEF IInv, evalRenderCompleteMultiMachine, config, frames, recv, sent, flow
<1>1. TypeOK'
  <2>1. toMcrt' \in [Machines -> Seq(SyncIds)] BY DEF TypeOK, MergeTypeOK
  <2>2. mcrt[m].stop \in BOOLEAN /\ Stops(m) \in BOOLEAN BY DEF TypeOK, Stops
  <2>3. mcrt' \in [Machines -> [syncId : Ids, status : Statuses, progress : Nat, stop : BOOLEAN]]
    BY <2>2 DEF TypeOK
  <2> QED BY <2>1, <2>3 DEF TypeOK, MergeTypeOK
<1>2. ViewportFollows' /\ QuickUpdateFollows' /\ ReceivedIsOnDisplay'
  BY DEF ViewportFollows, QuickUpdateFollows, ReceivedIsOnDisplay
<1>3. NeverAhead' /\ LastIsNewest' /\ CompletedOnce' BY DEF NeverAhead, LastIsNewest, CompletedOnce
<1>4. BegunIsNumbered' /\ TargetIsNoted' BY TotalKept DEF BegunIsNumbered, TargetIsNoted, TypeOK
<1>5. toMcrt \in [Machines -> Seq(SyncIds)] /\ toMcrt[m] # <<>> BY DEF TypeOK, MergeTypeOK
<1>6. CompletionsAreDue'
  <2> SUFFICES ASSUME NEW n \in Machines, NEW i \in 1 .. Len(toMcrt'[n]) PROVE toMcrt'[n][i] \in reached
    BY DEF CompletionsAreDue
  <2>1. CASE n # m
    <3>1. toMcrt'[n] = toMcrt[n] BY <2>1, <1>5
    <3> QED BY <3>1 DEF CompletionsAreDue
  <2>2. CASE n = m
    <3>1. toMcrt'[m] = Tail(toMcrt[m]) BY <1>5
    <3>2. /\ i \in 1 .. Len(Tail(toMcrt[m])) /\ Tail(toMcrt[m])[i] = toMcrt[m][i + 1]
          /\ i + 1 \in 1 .. Len(toMcrt[m]) BY <2>2, <3>1, <1>5
    <3> QED BY <2>2, <3>1, <3>2 DEF CompletionsAreDue
  <2> QED BY <2>1, <2>2
<1>7. NoFrameIsCutShort'
  <2> SUFFICES ASSUME NEW n \in Machines, mcrt'[n].stop PROVE mcrt'[n].syncId \in reached
    BY DEF NoFrameIsCutShort
  <2>1. mcrt'[n].syncId = mcrt[n].syncId BY DEF TypeOK
  <2>2. CASE mcrt[n].stop BY <2>1, <2>2 DEF NoFrameIsCutShort
  <2>3. CASE n = m /\ Stops(m)
    <3>1. Head(toMcrt[m]) = toMcrt[m][1] /\ 1 \in 1 .. Len(toMcrt[m]) BY <1>5
    <3> QED BY <2>1, <2>3, <3>1 DEF CompletionsAreDue, Stops
  <2> QED BY <2>2, <2>3 DEF TypeOK
<1>8. CreditNeverLeaks' BY DEF CreditNeverLeaks, enabled
<1> QED BY <1>1, <1>2, <1>3, <1>4, <1>6, <1>7, <1>8 DEF IInv

LEMMA NextKeepsIInv == IInv /\ [Next]_vars => IInv'
<1> SUFFICES ASSUME IInv, [Next]_vars PROVE IInv' OBVIOUS
<1>1. ASSUME NEW m \in Machines, FirstImage(m) PROVE IInv'
  <2>1. PICK syncId \in SyncIds :
          /\ Begins(m, syncId)
          /\ \/ Sends(m, Begun(syncId))
             \/ Sends(m, [Begun(syncId) EXCEPT !.status = "FINISHED", !.progress = MaxProgress])
    BY <1>1 DEF FirstImage
  <2>2. restarts' \in Nat BY <2>1 DEF Begins, IInv, TypeOK
  <2>3. /\ Begun(syncId) \in States /\ Begun(syncId).syncId = syncId
        /\ Begun(syncId).stop = FALSE BY DEF Begun
  <2>4. CASE Sends(m, Begun(syncId)) BY <2>2, <2>3, <2>4, SendsKeepsIInv
  <2>5. CASE Sends(m, [Begun(syncId) EXCEPT !.status = "FINISHED", !.progress = MaxProgress])
    <3> DEFINE state == [Begun(syncId) EXCEPT !.status = "FINISHED", !.progress = MaxProgress]
    <3>1. /\ state \in States /\ state.syncId = syncId /\ state.stop = FALSE BY <2>3 DEF Begun
    <3> HIDE DEF state
    <3>2. Sends(m, state) BY <2>5 DEF state
    <3> QED BY <2>2, <3>1, <3>2, SendsKeepsIInv
  <2> QED BY <2>1, <2>4, <2>5
<1>2. ASSUME NEW m \in Machines, NextImage(m) \/ LastImage(m) PROVE IInv'
  <2>1. mcrt \in [Machines -> [syncId : Ids, status : Statuses, progress : Nat, stop : BOOLEAN]]
    BY DEF IInv, TypeOK
  <2>2. mcrt[m].syncId \in SyncIds BY <1>2 DEF NextImage, LastImage, IInv, BegunIsNumbered
  <2>r. restarts' \in Nat BY <1>2 DEF NextImage, LastImage, IInv, TypeOK
  <2>3. CASE NextImage(m)
    <3>1. PICK progress \in {mcrt[m].progress, mcrt[m].progress + 1} :
            Sends(m, [mcrt[m] EXCEPT !.status = "RENDERING", !.progress = progress])
      BY <2>3 DEF NextImage
    <3> DEFINE state == [mcrt[m] EXCEPT !.status = "RENDERING", !.progress = progress]
    <3>3. progress \in Nat BY <2>1
    <3>2. /\ state \in [syncId : SyncIds, status : Statuses, progress : Nat, stop : BOOLEAN]
          /\ state.stop = mcrt[m].stop /\ state.syncId = mcrt[m].syncId BY <2>1, <2>2, <3>3
    <3> QED BY <2>r, <2>2, <3>1, <3>2, SendsKeepsIInv
  <2>4. CASE LastImage(m)
    <3>1. Sends(m, [mcrt[m] EXCEPT !.status = "FINISHED",
                                   !.progress = IF mcrt[m].stop THEN @ ELSE MaxProgress])
      BY <2>4 DEF LastImage
    <3> DEFINE last == IF mcrt[m].stop THEN mcrt[m].progress ELSE MaxProgress
               state == [mcrt[m] EXCEPT !.status = "FINISHED", !.progress = last]
    <3>3. last \in Nat BY <2>1
    <3>4. state = [mcrt[m] EXCEPT !.status = "FINISHED",
                                  !.progress = IF mcrt[m].stop THEN @ ELSE MaxProgress] OBVIOUS
    <3> HIDE DEF last
    <3>2. /\ state \in [syncId : SyncIds, status : Statuses, progress : Nat, stop : BOOLEAN]
          /\ state.stop = mcrt[m].stop /\ state.syncId = mcrt[m].syncId BY <2>1, <2>2, <3>3
    <3> QED BY <2>r, <2>2, <3>1, <3>2, <3>4, SendsKeepsIInv
  <2> QED BY <1>2, <2>3, <2>4
<1>3. ASSUME NEW m \in Machines, evalRenderCompleteMultiMachine(m) PROVE IInv'
  BY <1>3, CompletionKeepsIInv
<1>4. CASE MergeStep /\ UNCHANGED session BY <1>4, MergeStepKeepsIInv
<1>5. CASE UNCHANGED vars
  <2> USE <1>5 DEF vars, mergeVars
  <2>1. CreditNeverLeaks' BY DEF IInv, CreditNeverLeaks, enabled, config, flow
  <2>2. /\ hasProgressiveFrame' \in BOOLEAN /\ packetDue' \in BOOLEAN
        /\ starved' \in BOOLEAN /\ firstFrame' \in BOOLEAN /\ credit' \in Int /\ owed' \in Nat
    BY DEF IInv, TypeOK, MergeTypeOK, sent, flow
  <2> QED BY <2>1, <2>2, FlagsKeepIInv DEF sent
<1> QED BY <1>1, <1>2, <1>3, <1>4, <1>5 DEF Next

(* Which frame each part of the merge works on, and what was announced, always agree. *)
THEOREM Invariance == Spec => []IInv
  BY InitIInv, NextKeepsIInv, PTL DEF Spec

(* sendCompleteToMcrt() announces each frame once, in order. *)
THEOREM AnnouncedOnce == Spec => []CompletedOnce
<1>1. IInv => CompletedOnce BY DEF IInv
<1> QED BY <1>1, Invariance, PTL

(* A machine is stopped only in a frame that has reached the target. *)
THEOREM StoppedInTime == Spec => []NoFrameIsCutShort
<1>1. IInv => NoFrameIsCutShort BY DEF IInv
<1> QED BY <1>1, Invariance, PTL

(* The credit and what the client owes always cover the initial credit. *)
THEOREM CreditIsCovered == Spec => []CreditNeverLeaks
<1>1. IInv => CreditNeverLeaks BY DEF IInv
<1> QED BY <1>1, Invariance, PTL

(* The images go out in the order of the frames, each with its own viewport. *)
LEMMA StepShowsInOrder ==
  ASSUME IInv, [Next]_vars, image' # image
  PROVE  image'.syncId >= image.syncId /\ image'.viewport \in ViewportsOf[image'.syncId]
<1>1. TypeOK BY DEF IInv
<1>2. display \in Int /\ image.syncId \in Int /\ image.syncId <= display
  <2> HIDE DEF Ids
  <2>1. display \in Ids /\ image.syncId \in Ids BY <1>1 DEF TypeOK, MergeTypeOK
  <2>2. display \in Int BY <2>1, IdFacts
  <2>3. image.syncId \in Int BY <2>1, IdFacts
  <2> QED BY <2>2, <2>3 DEF IInv, NeverAhead
<1>3. ASSUME NEW m \in Machines, NEW state, state.syncId \in SyncIds, Sends(m, state)
      PROVE  image'.syncId >= image.syncId /\ image'.viewport \in ViewportsOf[image'.syncId]
  <2>v. PICK viewport \in ViewportsOf[state.syncId], force \in BOOLEAN :
          onProgressiveFrame([machine |-> m, syncId |-> state.syncId, viewport |-> viewport,
                              status |-> state.status, progress |-> state.progress], force)
    BY <1>3 DEF Sends
  <2> DEFINE msg == [machine |-> m, syncId |-> state.syncId, viewport |-> viewport,
                     status |-> state.status, progress |-> state.progress]
  <2>1. PICK forceUpdate \in BOOLEAN : onProgressiveFrame(msg, forceUpdate) BY <2>v
  <2>2. msg.syncId = state.syncId /\ msg.viewport \in ViewportsOf[msg.syncId] OBVIOUS
  <2>3. msg.syncId \in Int BY <1>3, <2>2, IdFacts
  <2> HIDE DEF msg
  <2>4. /\ quickUpdate(msg) /\ image'.syncId = msg.syncId
        /\ image'.viewport \in ViewportsOf[image'.syncId]
    BY <2>1, <2>2 DEF onProgressiveFrame, QuickSend
  <2>5. msg.syncId >= display
    BY <1>2, <2>3, <2>4 DEF quickUpdate, isInitialFrameMessage, IInv, QuickUpdateFollows
  <2> QED BY <1>2, <2>3, <2>4, <2>5
<1>4. ASSUME NEW m \in Machines, FirstImage(m)
      PROVE  image'.syncId >= image.syncId /\ image'.viewport \in ViewportsOf[image'.syncId]
  <2>1. PICK syncId \in SyncIds :
          \/ Sends(m, Begun(syncId))
          \/ Sends(m, [Begun(syncId) EXCEPT !.status = "FINISHED", !.progress = MaxProgress])
    BY <1>4 DEF FirstImage
  <2>2. /\ Begun(syncId).syncId = syncId
        /\ [Begun(syncId) EXCEPT !.status = "FINISHED", !.progress = MaxProgress].syncId = syncId
    BY DEF Begun
  <2> QED BY <2>1, <2>2, <1>3
<1>5. ASSUME NEW m \in Machines, NextImage(m) \/ LastImage(m)
      PROVE  image'.syncId >= image.syncId /\ image'.viewport \in ViewportsOf[image'.syncId]
  <2>1. mcrt[m] \in [syncId : Ids, status : Statuses, progress : Nat, stop : BOOLEAN]
    BY <1>1 DEF TypeOK
  <2>2. mcrt[m].syncId \in SyncIds BY <1>5 DEF NextImage, LastImage, IInv, BegunIsNumbered
  <2>3. \E status, progress :
          Sends(m, [mcrt[m] EXCEPT !.status = status, !.progress = progress])
    BY <1>5 DEF NextImage, LastImage
  <2>4. PICK status, progress :
          Sends(m, [mcrt[m] EXCEPT !.status = status, !.progress = progress])
    BY <2>3
  <2>5. [mcrt[m] EXCEPT !.status = status, !.progress = progress].syncId \in SyncIds
    BY <2>1, <2>2
  <2> QED BY <2>4, <2>5, <1>3
<1>6. CASE IdleImage
  <2>1. received BY <1>6 DEF IdleImage, MaySendFrame
  <2>2. image'.syncId = display /\ image'.viewport = rezedViewport BY <1>6 DEF IdleImage
  <2> QED BY <1>2, <2>1, <2>2 DEF IInv, ReceivedIsOnDisplay, ViewportFollows
<1>7. ~ \E m \in Machines : evalRenderCompleteMultiMachine(m) BY DEF evalRenderCompleteMultiMachine
<1>8. CASE MergeStep
  BY <1>6, <1>8 DEF MergeStep, onIdle, IdleWait, IdleGiveUp, IdleInfo, onCreditUpdate, PacketTimer
<1> QED BY <1>4, <1>5, <1>7, <1>8 DEF Next, vars, mergeVars

(* The client never gets an older frame, nor a frame in the viewport of another. *)
THEOREM ImagesInOrder == Spec => ShownInOrder
<1>1. IInv /\ [Next]_vars =>
        [image' # image => /\ image'.syncId >= image.syncId
                           /\ image'.viewport \in ViewportsOf[image'.syncId]]_vars
  BY StepShowsInOrder DEF vars, mergeVars
<1> QED BY <1>1, Invariance, PTL DEF Spec, ShownInOrder
===============================================================================
