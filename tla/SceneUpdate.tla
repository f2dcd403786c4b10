------------------------------ MODULE SceneUpdate ------------------------------
(***************************************************************************)
(* lib/engine/mcrt/RenderContextDriver*.cc: how queued updates become the  *)
(* scene of a frame, on each machine.                                      *)
(*                                                                         *)
(* Module RenderContextDriver has the threads and the flags; here a frame  *)
(* is only requested, prepared or canceled, and rendered, and the contents *)
(* of the scene are followed: the RDL messages applied (their ids), the    *)
(* newest geometry, the region of interest and the viewport.  The last two *)
(* are also kept outside the scene, for sending (senderRoi,                *)
(* senderViewport), and all that RDL messages set also in the backup       *)
(* scene.                                                                  *)
(*                                                                         *)
(* An RDL message carries scene variables as well: its window says which   *)
(* region and viewport it sets, KEPT where it sets none.  The viewport     *)
(* stands for the image size with the region window that it makes.         *)
(***************************************************************************)
EXTENDS Integers, Sequences

CONSTANT Machines

UNDEFINED == -1
NONE == "none"
DEFAULT == "default"
KEPT == "kept"

VARIABLE driver  (* the RenderContextDriver of each machine *)

EMPTY == [rdl |-> {}, geometry |-> UNDEFINED, roi |-> NONE, viewport |-> DEFAULT]

DriverInit ==
  driver = [m \in Machines |->
    [scene |-> EMPTY,             (* SceneContext of mRenderContext          *)
     initialized |-> FALSE,       (* isInitialized()                         *)
     backup |-> EMPTY,            (* mSceneContextBackup                     *)
     senderRoi |-> NONE,          (* ROI viewport of mFbSender               *)
     senderViewport |-> DEFAULT,  (* mViewport, the size of mFbSender        *)
     syncId |-> 0,                (* mSyncId                                 *)
     queue |-> <<>>,              (* mMcrtUpdates                            *)
     geometry |-> UNDEFINED,      (* mGeometryUpdate                         *)
     lastResult |-> "FINISHED",   (* mLastTimeRenderPrepResult               *)
     phase |-> "stopped",
     ahead |-> FALSE,             (* mRenderCounterLastSnapshot < mRenderCounter *)
     reset |-> FALSE,             (* mRenderCounter is 0 again: RENDER_SETUP *)
     (* history *)
     dirty |-> FALSE,             (* a canceled renderPrep left the scene    *)
     patched |-> FALSE,           (* and geometry alone went into it since   *)
     rebuilt |-> FALSE,           (* the scene came from the backup          *)
     regionSet |-> FALSE]]        (* RDL set a region since the backup is new *)

RoiKinds == {"ROI_SET", "ROI_DISABLE"}
Phases == {"stopped", "prep", "rendering"}
inFrame(d) == d.phase \in {"prep", "rendering"}

(***************************************************************************)
(* Processing one queued message.                                          *)
(***************************************************************************)

resetRenderContext(d) ==
  [d EXCEPT !.scene = EMPTY, !.initialized = FALSE, !.dirty = FALSE,
            !.patched = FALSE, !.rebuilt = FALSE]

initializeBuffers(d) == [d EXCEPT !.senderViewport = d.scene.viewport]

setBy(msg, context) ==
  [context EXCEPT !.rdl = @ \cup {msg.arg},
                  !.roi = IF msg.window.roi = KEPT THEN @ ELSE msg.window.roi,
                  !.viewport = IF msg.window.viewport = KEPT THEN @ ELSE msg.window.viewport]

(* updateScene() and updateSceneContextBackup() *)
updateScene(d, msg) ==
  [d EXCEPT !.syncId = msg.arg, !.scene = setBy(msg, @), !.backup = setBy(msg, @),
            !.regionSet = @ \/ msg.window.roi # KEPT]

reloads(d, msg) ==
  IF msg.kind = "RDL_FORCE_RELOAD"
  THEN [resetRenderContext(d) EXCEPT !.backup = EMPTY, !.regionSet = FALSE]
  ELSE d

(* The buffers follow when the context is new or its viewport has changed;
   nobody tells mFbSender of a region that the message sets. *)
processRdlMessage(d, msg) ==
  LET updated == updateScene(reloads(d, msg), msg)
  IN IF updated.initialized /\ updated.senderViewport = updated.scene.viewport
     THEN updated
     ELSE initializeBuffers([updated EXCEPT !.initialized = TRUE])

processRenderSetupMessage(d) == resetRenderContext(d)

(* Faulty variant: a region that replaces another is not sent to mFbSender. *)
setRoiOnce(d, region) ==
  IF d.scene.roi = region THEN d
  ELSE [d EXCEPT !.scene.roi = region,
                 !.senderRoi = IF d.scene.roi = NONE THEN region ELSE @]

setRoi(d, region) ==
  IF d.scene.roi = region THEN d
  ELSE [d EXCEPT !.scene.roi = region, !.senderRoi = region]

processROIMessage(d, msg) ==
  IF msg.kind = "ROI_SET" THEN setRoi(d, msg.arg)
  ELSE [d EXCEPT !.scene.roi = NONE, !.senderRoi = NONE]

processViewportMessage(d, msg) ==
  IF d.scene.viewport = msg.arg THEN d
  ELSE initializeBuffers([d EXCEPT !.scene.viewport = msg.arg])

process(d, msg) ==
  CASE msg.kind \in {"RDL", "RDL_FORCE_RELOAD"} -> processRdlMessage(d, msg)
    [] msg.kind = "SETUP" -> processRenderSetupMessage(d)
    [] msg.kind \in RoiKinds -> processROIMessage(d, msg)
    [] msg.kind = "VIEWPORT" -> processViewportMessage(d, msg)
    [] msg.kind = "START" -> d

(* The driver after each of the queued messages; a disabled one does nothing. *)
processed(d, queue, enabled) ==
  LET afterMsg[n \in 0 .. Len(queue)] ==
        IF n = 0 THEN d
        ELSE IF n \in enabled THEN process(afterMsg[n - 1], queue[n])
        ELSE afterMsg[n - 1]
  IN afterMsg

processAll(d, queue, enabled) == processed(d, queue, enabled)[Len(queue)]

(***************************************************************************)
(* preprocessQueuedMessage()                                               *)
(***************************************************************************)

(* Faulty variant: what confines the image is all one kind. *)
SupersedesAnyWindow(newer, older) ==
  \/ newer = "RDL_FORCE_RELOAD" /\ older \in {"RDL", "RDL_FORCE_RELOAD"}
  \/ newer = "START" /\ older = "START"
  \/ newer \in RoiKinds \cup {"VIEWPORT"} /\ older \in RoiKinds \cup {"VIEWPORT"}

Supersedes(newer, older) ==
  \/ newer = "RDL_FORCE_RELOAD" /\ older \in {"RDL", "RDL_FORCE_RELOAD"}
  \/ newer = "START" /\ older = "START"
  \/ newer \in RoiKinds /\ older \in RoiKinds
  \/ newer = "VIEWPORT" /\ older = "VIEWPORT"

(* A disabled message disables nothing itself, but whatever it would have
   disabled the newer one disables too. *)
isActive(queue, i) ==
  \A j \in i + 1 .. Len(queue) : ~Supersedes(queue[j].kind, queue[i].kind)

active(queue) == {i \in DOMAIN queue : isActive(queue, i)}

forceReload(queue) == \E i \in DOMAIN queue : queue[i].kind = "RDL_FORCE_RELOAD"

(***************************************************************************)
(* applyUpdatesAndRestartRender()                                          *)
(***************************************************************************)

reconstructSceneFromBackup(d) ==
  [resetRenderContext(d) EXCEPT !.scene = d.backup, !.initialized = TRUE, !.rebuilt = TRUE]

(* Faulty variant: the result is looked at only when nothing is left of it. *)
recoverUninitialized(d) ==
  IF ~forceReload(d.queue) /\ d.lastResult = "CANCELED" /\ ~d.initialized
  THEN reconstructSceneFromBackup(d)
  ELSE d

(* A canceled renderPrep is made good unless a reload follows anyway. *)
recover(d) ==
  IF ~forceReload(d.queue) /\ d.lastResult = "CANCELED"
  THEN reconstructSceneFromBackup(d)
  ELSE d

applyQueue(d) ==
  IF d.queue = <<>> THEN d
  ELSE [processAll(recover(d), d.queue, active(d.queue)) EXCEPT !.queue = <<>>]

(* Faulty variant: mSyncId is whatever came last. *)
applyGeometryAlways(d) ==
  IF d.geometry = UNDEFINED THEN d
  ELSE [d EXCEPT !.scene.geometry = d.geometry, !.syncId = d.geometry, !.geometry = UNDEFINED]

applyGeometry(d) ==
  IF d.geometry = UNDEFINED THEN d
  ELSE [d EXCEPT !.scene.geometry = d.geometry,
                 !.syncId = IF d.geometry > @ THEN d.geometry ELSE @,
                 !.geometry = UNDEFINED]

(* Without a scene nothing starts and the geometry waits for one. *)
restart(d) ==
  IF d.initialized THEN [applyGeometry(d) EXCEPT !.phase = "prep"] ELSE d

applyUpdatesAndRestartRender(m) ==
  LET d == driver[m] IN
  /\ d.phase # "prep"
  /\ d.queue # <<>> \/ d.geometry # UNDEFINED
  /\ ~d.ahead
  /\ driver' = [driver EXCEPT ![m] =
       restart(applyQueue([d EXCEPT !.phase = "stopped",
                                    !.patched = @ \/ (d.dirty /\ d.queue = <<>>)]))]

(***************************************************************************)
(* renderPrepMain() and sendDelta(), as far as updates depend on them.     *)
(***************************************************************************)

update(m, d) == driver' = [driver EXCEPT ![m] = d]

(* Without a snapshot since, mRenderCounter has gone ahead, unless a
   RENDER_SETUP had made it 0 and the last snapshot's number is larger. *)
renderPrepFinished(m) ==
  /\ driver[m].phase = "prep"
  /\ \E ahead \in BOOLEAN :
       /\ ~ahead => driver[m].reset
       /\ update(m, [driver[m] EXCEPT !.phase = "rendering", !.lastResult = "FINISHED",
                                      !.ahead = ahead])

renderPrepCanceled(m) ==
  update(m, [driver[m] EXCEPT !.phase = "stopped", !.lastResult = "CANCELED",
                              !.dirty = TRUE, !.patched = FALSE])

sendDelta(m) ==
  /\ driver[m].phase # "prep"
  /\ driver[m].initialized
  /\ driver[m].ahead \/ driver[m].reset
  /\ update(m, [driver[m] EXCEPT !.ahead = FALSE, !.reset = FALSE])

(***************************************************************************)
(* Messages.                                                               *)
(***************************************************************************)

enqGeometryMessage(m, msg) == update(m, [driver[m] EXCEPT !.geometry = msg.arg])

(* RDL, START, ROI and VIEWPORT; a reload clears what is queued. *)
enqUpdateMessage(m, msg) ==
  update(m, [driver[m] EXCEPT
    !.queue = Append(IF msg.kind = "RDL_FORCE_RELOAD" THEN <<>> ELSE @, msg)])

enqRenderSetupMessage(m, msg) ==
  update(m, [driver[m] EXCEPT !.queue = <<msg>>, !.ahead = FALSE, !.reset = TRUE])

(* A STOP of a renderPrep comes in time to cancel it or does not; until the
   renderPrep is over nothing else would tell the difference. *)
StopMessage(m) ==
  \/ driver[m].phase = "prep" /\ renderPrepCanceled(m)
  \/ driver[m].phase = "prep" /\ UNCHANGED driver
  \/ driver[m].phase # "prep" /\ update(m, [driver[m] EXCEPT !.phase = "stopped"])

(* stopFrame(), and startFrame() if that stopped one.  In the moment between
   the launch of the frame and the end of its renderPrep the restart is lost. *)
evalInvalidateResources(m) ==
  \/ driver[m].phase # "rendering" /\ UNCHANGED driver
  \/ /\ driver[m].phase = "rendering"
     /\ \E phase \in {"prep", "stopped"} : update(m, [driver[m] EXCEPT !.phase = phase])

================================================================================
