----------------------- MODULE ProgMcrtMergeComputation -----------------------
(***************************************************************************)
(* computation/progmcrt_merge/ProgMcrtMergeComputation.cc: what the merge  *)
(* does with the progressive frames of several machines.                   *)
(*                                                                         *)
(* Everything runs on the arras thread, so a handler is one action.  Time  *)
(* is a flag: packetDue says that 1/fps has passed since                   *)
(* mLastPacketSentTime.  Node information may be due at any time.          *)
(*                                                                         *)
(* FbMsgMultiFrames belongs to another library.  As this code uses it, it  *)
(* has one frame on display, the one with the newest sync id, and for it   *)
(* the last status and progress of each machine; what a machine still      *)
(* sends for an older frame is dropped.                                    *)
(*                                                                         *)
(* Feedback messages are in FeedbackSession.  Not modelled: the data      *)
(* of an image, statistics, sendDup and the other debug commands.          *)
(***************************************************************************)
EXTENDS Integers, Sequences, FiniteSetsExt

CONSTANTS
  Machines,        (* the progmcrt computations                              *)
  SyncIds,         (* the sync ids of the session, from 0 on                 *)
  ViewportsOf,     (* the sizes in which frames with a given sync id begin   *)
  Target,          (* sum of the machines' progress that completes a frame   *)
  InitialCredits   (* the values of the config item initialCredit tried      *)

ASSUME MergeAssumption ==
  /\ Machines # {}
  /\ SyncIds \subseteq Nat
  /\ Target \in Nat
  /\ InitialCredits \subseteq Int

VARIABLES
  initialCredit,         (* mInitialCredit                                   *)
  credit,                (* mCredit                                          *)
  parallelInitialFrame,  (* mParallelInitialFrameUpdateMode                  *)
  display,               (* external: getDisplaySyncFrameId()                *)
  fb,                    (* external: what each machine sent for that frame  *)
  received,              (* external: getReceivedMessagesTotal() > 0         *)
  hasProgressiveFrame,   (* mHasProgressiveFrame                             *)
  currActiveRecvSyncId,  (* mCurrActiveRecvSyncId                            *)
  rezedViewport,         (* mRezedViewport, the size of mFb and mFbSender    *)
  firstFrame,            (* mFirstFrame                                      *)
  lastMergeSyncId,       (* mLastMergeSyncId                                 *)
  lastCompleteSyncId,    (* mLastCompleteSyncId                              *)
  packetDue,             (* 1/fps has passed since mLastPacketSentTime       *)
  toMcrt,                (* completions on their way, per machine            *)
  image,                 (* history: the last image sent to the client       *)
  owed,                  (* history: messages the client has yet to credit   *)
  completed,             (* history: the completions announced               *)
  starved                (* history: since the last merged image one was given up at credit 0 *)

UNDEFINED == -1
NONE == [status |-> "NONE", progress |-> 0]
NOTHING == [syncId |-> UNDEFINED, status |-> "NONE", viewport |-> UNDEFINED]

config == <<initialCredit, parallelInitialFrame>>
frames == <<display, fb, received>>
recv == <<currActiveRecvSyncId, rezedViewport>>
sent == <<firstFrame, lastMergeSyncId>>
flow == <<credit, owed>>
control == <<lastCompleteSyncId, toMcrt, completed>>
mergeVars == <<config, frames, hasProgressiveFrame, recv, sent, flow,
               packetDue, control, image, starved>>

Ids == SyncIds \cup {UNDEFINED}
Statuses == {"NONE", "STARTED", "RENDERING", "FINISHED"}

MergeTypeOK ==
  /\ initialCredit \in InitialCredits
  /\ credit \in Int /\ owed \in Nat
  /\ parallelInitialFrame \in BOOLEAN
  /\ display \in Ids
  /\ fb \in [Machines -> [status : Statuses, progress : Nat]]
  /\ received \in BOOLEAN
  /\ hasProgressiveFrame \in BOOLEAN
  /\ currActiveRecvSyncId \in Ids
  /\ firstFrame \in BOOLEAN
  /\ lastMergeSyncId \in Ids
  /\ lastCompleteSyncId \in Ids
  /\ packetDue \in BOOLEAN
  /\ toMcrt \in [Machines -> Seq(SyncIds)]
  /\ image.syncId \in Ids
  /\ completed \in Seq(SyncIds)
  /\ starved \in BOOLEAN

MergeInit ==
  /\ initialCredit \in InitialCredits
  /\ credit = initialCredit
  /\ parallelInitialFrame \in BOOLEAN
  /\ display = UNDEFINED
  /\ fb = [m \in Machines |-> NONE]
  /\ received = FALSE
  /\ hasProgressiveFrame = FALSE
  /\ currActiveRecvSyncId = UNDEFINED
  /\ rezedViewport = UNDEFINED
  /\ firstFrame = TRUE
  /\ lastMergeSyncId = UNDEFINED
  /\ lastCompleteSyncId = UNDEFINED
  /\ packetDue = TRUE
  /\ toMcrt = [m \in Machines |-> <<>>]
  /\ image = NOTHING
  /\ owed = 0
  /\ completed = <<>>
  /\ starved = FALSE

(***************************************************************************)
(* Credit.  Each message to the client is charged, save the quick update.  *)
(***************************************************************************)

enabled == initialCredit >= 0

(* n messages go out: send(); if (mCredit > 0) mCredit--; *)
SendCharged(n) ==
  IF enabled
  THEN /\ credit' = IF credit > n THEN credit - n ELSE 0
       /\ owed' = owed + n
  ELSE UNCHANGED flow

(* Faulty variant: a credit that arrives is not stored. *)
applyToNothing == UNCHANGED credit

(* external: CreditUpdate::applyTo(mCredit, mInitialCredit) *)
applyTo == credit' = IF credit < initialCredit THEN credit + 1 ELSE credit

onCreditUpdate ==
  /\ owed > 0
  /\ owed' = owed - 1
  /\ applyTo
  /\ UNCHANGED <<config, frames, hasProgressiveFrame, recv, sent, packetDue,
                 control, image, starved>>

(***************************************************************************)
(* onMessage() with a ProgressiveFrame.                                    *)
(***************************************************************************)

(* external: isInitialFrameMessage(), asked of the frame on display: the first
   message of this machine for that frame, or for a newer one. *)
isInitialFrameMessage(msg) ==
  \/ msg.syncId > display
  \/ msg.syncId = display /\ fb[msg.machine] = NONE

(* Faulty variant: any message for another frame is taken for a new one. *)
quickUpdateUnordered(msg) ==
  IF parallelInitialFrame
  THEN isInitialFrameMessage(msg)
  ELSE currActiveRecvSyncId # msg.syncId

quickUpdate(msg) ==
  IF parallelInitialFrame
  THEN isInitialFrameMessage(msg)
  ELSE currActiveRecvSyncId < msg.syncId

RecvSyncId(msg) ==
  currActiveRecvSyncId' = IF ~parallelInitialFrame /\ quickUpdate(msg)
                          THEN msg.syncId ELSE currActiveRecvSyncId

(* onViewportChanged(): called for quick updates only, so a machine that begins a
   frame again in another size does not change the size of mFb. *)
onViewportChanged(msg) ==
  rezedViewport' = IF quickUpdate(msg) THEN msg.viewport ELSE rezedViewport

(* The first packet of a frame goes to the client as it is, neither tested nor
   charged.  forceUpdate comes from isInitialFrameMessage(). *)
QuickSend(msg, forceUpdate) ==
  IF quickUpdate(msg) /\ (forceUpdate \/ packetDue)
  THEN /\ image' = [syncId |-> msg.syncId, status |-> msg.status,
                    viewport |-> msg.viewport]
       /\ owed' = IF enabled THEN owed + 1 ELSE owed
       /\ packetDue' = FALSE
  ELSE UNCHANGED <<image, owed, packetDue>>

(* external: FbMsgMultiFrames::push() *)
push(msg) ==
  LET entry == [status |-> msg.status, progress |-> msg.progress]
  IN \/ /\ msg.syncId > display
        /\ display' = msg.syncId
        /\ fb' = [m \in Machines |-> IF m = msg.machine THEN entry ELSE NONE]
        /\ received' = TRUE
     \/ /\ msg.syncId = display
        /\ fb' = [fb EXCEPT ![msg.machine] = entry]
        /\ received' = TRUE
        /\ UNCHANGED display
     \/ /\ msg.syncId < display
        /\ UNCHANGED frames

onProgressiveFrame(msg, forceUpdate) ==
  /\ forceUpdate => parallelInitialFrame
  /\ RecvSyncId(msg)
  /\ onViewportChanged(msg)
  /\ QuickSend(msg, forceUpdate)
  /\ push(msg)
  /\ hasProgressiveFrame' = TRUE
  /\ UNCHANGED <<config, credit, sent, control, starved>>

(***************************************************************************)
(* onIdle().                                                               *)
(***************************************************************************)

(* mFbSender.getProgressFraction() *)
TotalOf(f) == MapThenSumSet(LAMBDA m : f[m].progress, Machines)
Total == TotalOf(fb)

(* external: getStatus() of the frame on display; STARTED until it was merged *)
AllFinished == \A m \in Machines : fb[m].status = "FINISHED"
getStatus ==
  IF AllFinished THEN "FINISHED"
  ELSE IF lastMergeSyncId # display THEN "STARTED" ELSE "RENDERING"

(* Faulty variant: one step more is waited for. *)
CompleteIsPassed == Total > Target /\ lastCompleteSyncId # display

(* Faulty variant: the sync id of the last completion is not looked at. *)
CompleteIsDueAgain == Total >= Target

(* sendCompleteToMcrt(): its early returns *)
CompleteIsDue == Total >= Target /\ lastCompleteSyncId # display

SendComplete ==
  IF CompleteIsDue
  THEN /\ lastCompleteSyncId' = display
       /\ toMcrt' = [m \in Machines |-> Append(toMcrt[m], display)]
       /\ completed' = Append(completed, display)
  ELSE UNCHANGED control

Count(b) == IF b THEN 1 ELSE 0

(* Faulty variant: the last image keeps to the interval like the others. *)
MustWaitFinishedToo == getStatus # "STARTED" /\ ~packetDue

(* decodeMergeSendProgressiveFrame(): only RENDERING keeps to the interval *)
MustWait == getStatus = "RENDERING" /\ ~packetDue

MaySendFrame == received /\ credit # 0

(* The merged image goes out, whatever else is due with it. *)
IdleImage ==
  /\ hasProgressiveFrame
  /\ MaySendFrame
  /\ ~MustWait
  /\ image' = [syncId |-> display, status |-> getStatus, viewport |-> rezedViewport]
  /\ SendComplete
  /\ SendCharged(1 + Count(CompleteIsDue) + Count(firstFrame))
  /\ firstFrame' = FALSE
  /\ lastMergeSyncId' = display
  /\ received' = FALSE
  /\ hasProgressiveFrame' = FALSE
  /\ packetDue' = FALSE
  /\ starved' = FALSE
  /\ UNCHANGED <<config, display, fb, recv>>

(* return false: the flag is down, at most info is sent *)
IdleWait ==
  /\ hasProgressiveFrame
  /\ MaySendFrame
  /\ MustWait
  /\ \E doSendInfo \in BOOLEAN : SendCharged(Count(doSendInfo))
  /\ hasProgressiveFrame' = FALSE
  /\ UNCHANGED <<config, frames, recv, sent, packetDue, control, image, starved>>

(* The flag goes down with nothing sent. *)
IdleGiveUp ==
  /\ hasProgressiveFrame
  /\ ~MaySendFrame
  /\ hasProgressiveFrame' = FALSE
  /\ starved' = (starved \/ received)
  /\ UNCHANGED <<config, frames, recv, sent, flow, packetDue, control, image>>

(* doSendInfo without an image: the message of the first frame goes along. *)
IdleInfo ==
  /\ ~(hasProgressiveFrame /\ MaySendFrame)
  /\ SendCharged(1 + Count(firstFrame))
  /\ firstFrame' = FALSE
  /\ starved' = (starved \/ (hasProgressiveFrame /\ received))
  /\ hasProgressiveFrame' = FALSE
  /\ UNCHANGED <<config, frames, recv, lastMergeSyncId, packetDue, control, image>>

onIdle == IdleImage \/ IdleWait \/ IdleGiveUp

PacketTimer ==
  /\ ~packetDue
  /\ packetDue' = TRUE
  /\ UNCHANGED <<config, frames, hasProgressiveFrame, recv, sent, flow,
                 control, image, starved>>
===============================================================================
