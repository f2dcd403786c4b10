------------------------ MODULE RenderContextDriver ------------------------
(***************************************************************************)
(* lib/engine/mcrt/RenderContextDriver*.cc: how a frame is started,        *)
(* stopped, snapshotted and replaced.                                      *)
(*                                                                         *)
(* Three kinds of thread step.  The arras thread runs one handler at a     *)
(* time: a message (enqueue, STOP, INVALIDATE_RESOURCES) or a half of      *)
(* onIdle (sendDelta, applyUpdatesAndRestartRender).  After a              *)
(* ForceRenderStart messages are deferred, and then handled in the middle  *)
(* of sendDelta(), by the callback that sends the image.  The renderPrep   *)
(* thread runs renderPrepMain() whenever resume() has woken it; its        *)
(* Watcher is StopAndGo, which module Watcher implements.  The MCRT        *)
(* threads of the moonray RenderContext fill the film.                     *)
(*                                                                         *)
(* One action is one access to what another thread may write.  Everything  *)
(* applyUpdatesAndRestartRender() does is one action: it runs only when    *)
(* the watcher says WAIT, only the arras thread can end that, and it stops *)
(* the MCRT threads first.  Scene contents are not modelled here, only     *)
(* whether the RenderContext is fresh and whether it is initialized.       *)
(***************************************************************************)
EXTENDS Naturals

CONSTANTS
  MaxMsgs,  (* bound: messages received, hence frames and restarts        *)
  MaxFilm   (* bound: film activity of one frame                          *)

ASSUME DriverBounds == MaxMsgs \in Nat /\ MaxFilm \in Nat

VARIABLES
  (* shared flags and the watcher *)
  watcher,        (* mRenderPrepWatcher as its owner sees it              *)
  cancel,         (* *mRenderPrepCancel                                   *)
  renderActive,   (* renderActive of the McrtNodeInfo                     *)
  (* the moonray RenderContext *)
  rendering,      (* isFrameRendering()                                   *)
  ready,          (* isFrameReadyForDisplay()                             *)
  complete,       (* isFrameComplete() || isFrameCompleteAtPassBoundary() *)
  film,           (* getFilmActivity()                                    *)
  emptySchedule,  (* getTiles()->empty()                                  *)
  halted,         (* requestStop() was called for the frame               *)
  initialized,    (* isInitialized()                                      *)
  (* the driver's own fields *)
  updates,        (* the message types queued in mMcrtUpdates             *)
  geometry,       (* mGeometryUpdate is not null                          *)
  lastResult,     (* mLastTimeRenderPrepResult                            *)
  lastFilm,       (* mLastSnapshotFilmActivity                            *)
  renderCounter,  (* mRenderCounter                                       *)
  lastSnapshot,   (* mRenderCounterLastSnapshot                           *)
  beforeInitial,  (* mBeforeInitialSnapshot                               *)
  sentComplete,   (* mSentCompleteFrame                                   *)
  (* the two threads *)
  apc,            (* where the arras thread is in its handler             *)
  deferring,      (* mOnMessageCache of ProgMcrtComputation               *)
  inCallBack,     (* the handler is called from within sendDelta          *)
  seenFilm,       (* snapshotFilmActivity of sendDelta                    *)
  finishing,      (* sentLastData of sendProgressiveFrameMessage          *)
  ppc,            (* where the renderPrep thread is in renderPrepMain     *)
  loaded,         (* the mRenderCounter it has loaded to increment it     *)
  (* history *)
  msgs,           (* messages received                                    *)
  unseen,         (* the last prepared frame has sent no snapshot yet     *)
  setupSince,     (* a RenderSetup message came after the last snapshot   *)
  stopAsked,      (* a STOP came while the requested frame rendered or    *)
                  (* had a cancel point ahead ("heard"), before its       *)
                  (* renderPrep began ("early"), or after its last cancel *)
                  (* point ("late")                                       *)
  finishes,       (* FINISHED messages sent for the last prepared frame   *)
  trailing,       (* an image message of it was sent after FINISHED       *)
  shown           (* film activity in the last snapshot of it             *)

ctx == <<rendering, ready, complete, film, emptySchedule, halted>>
queue == <<updates, geometry>>
frame == <<lastFilm, beforeInitial, sentComplete>>
counters == <<renderCounter, lastSnapshot>>
send == <<deferring, inCallBack, seenFilm, finishing>>
prep == <<ppc, loaded, lastResult>>
seen == <<unseen, setupSince>>
sent == <<finishes, trailing, shown>>
vars == <<watcher, cancel, renderActive, ctx, initialized, queue, frame,
          counters, apc, send, prep, msgs, seen, stopAsked, sent>>

UpdateTypes == {"SETUP", "FORCE_RELOAD", "RDL", "OTHER"}
ArrasPc == {"idle", "stopTest", "stopTestRestart", "prepTest", "cancelClear",
            "restart", "requestStop", "sendDecide", "sendStatus",
            "sendSnapshot", "sendReturn"}
PrepPc == {"off", "enter", "prep", "launch", "clear", "countLoad",
           "countStore", "done"}

(* The renderPrep thread's watcher: resume(), the callback's begin and end. *)
RenderPrepWatcher == INSTANCE StopAndGo WITH phase <- watcher, quit <- FALSE

isRunStateWait == watcher = "WAIT"
isRenderPrepRun == ppc \in {"prep", "launch"}
haveUpdates == updates # {} \/ geometry

(***************************************************************************)
(* The RenderContext, as the driver uses it.                               *)
(***************************************************************************)

(* MCRT threads: the film changes, then is fit for display, then complete.
   Completion need not come with a change of the film. *)
McrtStep ==
  /\ rendering
  /\ \/ ~complete /\ film < MaxFilm /\ film' = film + 1
        /\ UNCHANGED <<ready, complete>>
     \/ ~ready /\ film > 0 /\ ready' = TRUE /\ UNCHANGED <<complete, film>>
     \/ ready /\ ~complete /\ complete' = TRUE /\ UNCHANGED <<ready, film>>
  /\ UNCHANGED <<emptySchedule, halted, watcher, cancel, renderActive, rendering, initialized, queue,
                 frame, counters, apc, send, prep, msgs, seen, stopAsked, sent>>

(* stopFrame(): the MCRT threads have ended.  Whether what they left still
   counts as displayable and complete is the RenderContext's business. *)
ContextStopped ==
  /\ rendering' = FALSE
  /\ \/ UNCHANGED <<ready, complete>>
     \/ ready' = FALSE /\ complete' = FALSE
  /\ UNCHANGED <<film, emptySchedule, halted>>

ContextFresh ==
  /\ rendering' = FALSE
  /\ ready' = FALSE
  /\ complete' = FALSE
  /\ film' = 0
  /\ halted' = FALSE
  /\ UNCHANGED emptySchedule

(***************************************************************************)
(* Messages that are queued.                                               *)
(***************************************************************************)

(* A message is handled when the arras thread is at rest or, having been
   deferred, while it is inside the callback of sendDelta.  Which messages
   were deferred is settled when they are handled. *)
Receive ==
  /\ apc = "idle"
  /\ ~deferring
  /\ msgs < MaxMsgs
  /\ msgs' = msgs + 1

(* From a handler, or back to the loop over the deferred messages. *)
handlerDone == IF inCallBack THEN "requestStop" ELSE "idle"

Handled == apc' = handlerDone

(* After each deferred message requestStop(): MCRT threads may stop stepping,
   whatever frame they render by now. *)
RequestStop ==
  /\ apc = "requestStop"
  /\ halted' = TRUE
  /\ apc' = "idle"
  /\ UNCHANGED <<watcher, cancel, renderActive, rendering, ready, complete, film,
                 emptySchedule, initialized, queue, frame, counters, send, prep,
                 msgs, seen, stopAsked, sent>>

(* ForceRenderStart: later messages wait until an image is sent. *)
ForceRenderStart ==
  /\ apc = "idle"
  /\ ~deferring
  /\ deferring' = TRUE
  /\ Handled
  /\ UNCHANGED <<watcher, cancel, renderActive, ctx, initialized, queue, frame,
                 counters, inCallBack, seenFilm, finishing, prep, msgs, seen,
                 stopAsked, sent>>

enqGeometryMessage ==
  /\ Receive
  /\ Handled
  /\ geometry' = TRUE
  /\ UNCHANGED <<watcher, cancel, renderActive, ctx, initialized, updates,
                 frame, counters, send, prep, seen, stopAsked, sent>>

(* RDL without forceReload, render START, ROI, viewport. *)
enqUpdateMessage(type) ==
  /\ Receive
  /\ Handled
  /\ updates' = updates \cup {type}
  /\ UNCHANGED <<watcher, cancel, renderActive, ctx, initialized, geometry,
                 frame, counters, send, prep, seen, stopAsked, sent>>

(* A forceReload supersedes everything queued. *)
enqForceReload ==
  /\ Receive
  /\ Handled
  /\ updates' = {"FORCE_RELOAD"}
  /\ UNCHANGED <<watcher, cancel, renderActive, ctx, initialized, geometry,
                 frame, counters, send, prep, seen, stopAsked, sent>>

enqRenderSetupMessage ==
  /\ Receive
  /\ Handled
  /\ renderCounter' = 0
  /\ updates' = {"SETUP"}
  /\ setupSince' = TRUE
  /\ UNCHANGED <<watcher, cancel, renderActive, ctx, initialized, geometry,
                 frame, lastSnapshot, send, prep, unseen, stopAsked, sent>>

(***************************************************************************)
(* stopFrame() and its immediate callers.                                  *)
(***************************************************************************)

(* What a STOP finds, for the record. *)
stopTiming ==
  IF rendering \/ ppc = "prep" THEN "heard"
  ELSE IF watcher = "START" \/ ppc = "enter" THEN "early"
  ELSE IF isRunStateWait THEN stopAsked ELSE "late"

(* Faulty variant: STOP only stops what renders, it cancels no renderPrep. *)
StopMessageNoCancel ==
  /\ Receive
  /\ apc' = "stopTest"
  /\ stopAsked' = stopTiming
  /\ UNCHANGED <<watcher, cancel, renderActive, ctx, initialized, queue, frame,
                 counters, send, prep, seen, sent>>

(* Render control STOP: raise the cancel flag, then stopFrame(). *)
StopMessage ==
  /\ Receive
  /\ cancel' = TRUE
  /\ apc' = "stopTest"
  /\ stopAsked' = stopTiming
  /\ UNCHANGED <<watcher, renderActive, ctx, initialized, queue, frame,
                 counters, send, prep, seen, sent>>

(* INVALIDATE_RESOURCES: stopFrame(), and startFrame() if that stopped one. *)
InvalidateResources ==
  /\ Receive
  /\ apc' = "stopTestRestart"
  /\ UNCHANGED <<watcher, cancel, renderActive, ctx, initialized, queue, frame,
                 counters, send, prep, seen, stopAsked, sent>>

(* stopFrame() of a rendering context.  The flag is cleared in the same step:
   past its launch renderPrepMain() does not read it again. *)
StopRendering ==
  /\ apc \in {"stopTest", "stopTestRestart"}
  /\ rendering
  /\ ContextStopped
  /\ cancel' = FALSE
  /\ renderActive' = FALSE
  /\ apc' = IF apc = "stopTestRestart" THEN "restart" ELSE handlerDone
  /\ UNCHANGED <<watcher, initialized, queue, frame, counters, send, prep,
                 msgs, seen, stopAsked, sent>>

StopNotRendering ==
  /\ apc \in {"stopTest", "stopTestRestart"}
  /\ ~rendering
  /\ apc' = "prepTest"
  /\ UNCHANGED <<watcher, cancel, renderActive, ctx, initialized, queue, frame,
                 counters, send, prep, msgs, seen, stopAsked, sent>>

(* Faulty variant: the flag is left alone outside renderPrep too. *)
StopPrepTestKeepsFlag ==
  /\ apc = "prepTest"
  /\ Handled
  /\ UNCHANGED <<watcher, cancel, renderActive, ctx, initialized, queue, frame,
                 counters, send, prep, msgs, seen, stopAsked, sent>>

(* A running renderPrep is left to find the flag; otherwise it is cleared. *)
StopPrepTest ==
  /\ apc = "prepTest"
  /\ apc' = IF isRenderPrepRun THEN handlerDone ELSE "cancelClear"
  /\ UNCHANGED <<watcher, cancel, renderActive, ctx, initialized, queue, frame,
                 counters, send, prep, msgs, seen, stopAsked, sent>>

StopCancelClear ==
  /\ apc = "cancelClear"
  /\ cancel' = FALSE
  /\ Handled
  /\ UNCHANGED <<watcher, renderActive, ctx, initialized, queue, frame,
                 counters, send, prep, msgs, seen, stopAsked, sent>>

(* start(): resume() does nothing unless the watcher is at rest. *)
start ==
  IF isRunStateWait THEN RenderPrepWatcher!Request ELSE UNCHANGED watcher

Restart ==
  /\ apc = "restart"
  /\ start
  /\ renderActive' = TRUE
  /\ stopAsked' = "no"
  /\ Handled
  /\ UNCHANGED <<cancel, ctx, initialized, queue, frame, counters, send, prep,
                 msgs, seen, sent>>

(***************************************************************************)
(* applyUpdatesAndRestartRender().                                         *)
(***************************************************************************)

(* Faulty variants: no gate; a gate that asks for one snapshot too many. *)
gateOpenAlways == TRUE
gateOpenLater == lastSnapshot > renderCounter

(* Updates wait until a snapshot of the current frame has been sent. *)
gateOpen == ~(lastSnapshot < renderCounter)

(* A canceled renderPrep leaves the scene unusable: without a forceReload in
   the queue the RenderContext is rebuilt from the backup scene. *)
reconstruct ==
  updates # {} /\ "FORCE_RELOAD" \notin updates /\ lastResult = "CANCELED"

freshContext ==
  reconstruct \/ updates \cap {"SETUP", "FORCE_RELOAD"} # {}

(* SETUP leaves a context without a scene; an RDL message initializes it. *)
initializedAfter ==
  IF updates \cap {"RDL", "FORCE_RELOAD"} # {} THEN TRUE
  ELSE IF "SETUP" \in updates THEN FALSE
  ELSE initialized \/ reconstruct

(* Faulty variant: the running frame is not stopped first. *)
applyToContextRunning ==
  IF freshContext THEN ContextFresh ELSE UNCHANGED ctx

(* stopFrame(), then the updates. *)
applyToContext ==
  IF freshContext THEN ContextFresh
  ELSE IF rendering THEN ContextStopped
  ELSE UNCHANGED ctx

applyUpdatesAndRestartRender ==
  /\ apc = "idle"
  /\ ~inCallBack
  /\ isRunStateWait
  /\ haveUpdates
  /\ gateOpen
  /\ applyToContext
  /\ initialized' = initializedAfter
  /\ cancel' = FALSE
  /\ updates' = {}
  /\ IF initializedAfter
     THEN /\ geometry' = FALSE
          /\ start
          /\ renderActive' = TRUE
          /\ stopAsked' = "no"
     ELSE /\ renderActive' = (renderActive /\ ~rendering)
          /\ UNCHANGED <<geometry, watcher, stopAsked>>
  /\ UNCHANGED <<frame, counters, apc, send, prep, msgs, seen, sent>>

(***************************************************************************)
(* sendDelta(): called by onIdle when the interval and the credit allow.   *)
(***************************************************************************)

isReadyToSnapshot ==
  /\ isRunStateWait
  /\ ready
  /\ rendering \/ complete

SendBegin ==
  /\ apc = "idle"
  /\ ~inCallBack
  /\ isReadyToSnapshot
  /\ seenFilm' = film
  /\ apc' = "sendDecide"
  /\ UNCHANGED <<watcher, cancel, renderActive, ctx, initialized, queue, frame,
                 counters, deferring, inCallBack, finishing, prep, msgs, seen,
                 stopAsked, sent>>

(* Faulty variant: a completion that left the film as it was is no update. *)
renderUpdateFilmOnly == seenFilm # lastFilm

renderUpdate ==
  \/ seenFilm # lastFilm
  \/ rendering /\ complete /\ ~sentComplete

(* With updates waiting, requestStop() at the first sign of an image. *)
haltIfUpdates == halted' = (halted \/ (renderUpdate /\ haveUpdates))

(* Send, when the film has changed or completed, this machine has tiles to
   render, and isReadyToSend(). *)
SendDecide ==
  /\ apc = "sendDecide"
  /\ renderUpdate
  /\ haltIfUpdates
  /\ ~emptySchedule
  /\ lastFilm' = seenFilm
  /\ seenFilm' = 0
  /\ apc' = "sendStatus"
  /\ UNCHANGED <<watcher, cancel, renderActive, rendering, ready, complete, film,
                 emptySchedule, initialized, queue, beforeInitial, sentComplete,
                 counters, deferring, inCallBack, finishing, prep, msgs, seen,
                 stopAsked, sent>>

(* No update; no tiles; or an initial snapshot that is still held back. *)
SendNothing ==
  /\ apc = "sendDecide"
  /\ haltIfUpdates
  /\ seenFilm' = 0
  /\ apc' = "idle"
  /\ UNCHANGED <<watcher, cancel, renderActive, rendering, ready, complete, film,
                 emptySchedule, initialized, queue, frame, counters, deferring,
                 inCallBack, finishing, prep, msgs, seen, stopAsked, sent>>

(* sendProgressiveFrameMessage() fixes the status and then takes the image. *)
SendStatus ==
  /\ apc = "sendStatus"
  /\ beforeInitial' = FALSE
  /\ finishing' = (rendering /\ complete)
  /\ sentComplete' = (sentComplete \/ finishing')
  /\ renderActive' = (renderActive /\ ~finishing')
  /\ lastSnapshot' = renderCounter
  /\ unseen' = FALSE
  /\ setupSince' = FALSE
  /\ apc' = "sendSnapshot"
  /\ UNCHANGED <<watcher, cancel, ctx, initialized, queue, lastFilm,
                 renderCounter, deferring, inCallBack, seenFilm, prep, msgs,
                 stopAsked, sent>>

(* The message leaves, through the callback.  In deferred mode the callback
   goes on to the deferred messages: each is handled as it would have been at
   rest, until none is left or one of them is a ForceRenderStart. *)
SendSnapshot ==
  /\ apc = "sendSnapshot"
  /\ shown' = film
  /\ finishes' = IF finishing THEN finishes + 1 ELSE finishes
  /\ trailing' = (trailing \/ (finishes > 0 /\ ~finishing))
  /\ deferring' = FALSE
  /\ inCallBack' = deferring
  /\ apc' = IF deferring THEN "idle" ELSE "sendReturn"
  /\ UNCHANGED <<watcher, cancel, renderActive, ctx, initialized, queue, frame,
                 counters, seenFilm, finishing, prep, msgs, seen, stopAsked>>

(* Back from the callback.  After FINISHED the RenderContext is stopped,
   whatever it renders by now: a deferred INVALIDATE_RESOURCES may have
   started the frame anew. *)
SendReturn ==
  /\ apc = "sendReturn" \/ (apc = "idle" /\ inCallBack)
  /\ IF finishing /\ rendering THEN ContextStopped ELSE UNCHANGED ctx
  /\ inCallBack' = FALSE
  /\ finishing' = FALSE
  /\ apc' = "idle"
  /\ UNCHANGED <<watcher, cancel, renderActive, initialized, queue, frame,
                 counters, deferring, seenFilm, prep, msgs, seen, stopAsked,
                 sent>>

(***************************************************************************)
(* renderPrepMain().                                                       *)
(***************************************************************************)

PrepBegin ==
  /\ RenderPrepWatcher!Begin
  /\ ppc = "off"
  /\ ppc' = "enter"
  /\ UNCHANGED <<cancel, renderActive, ctx, initialized, queue, frame, counters,
                 apc, send, loaded, lastResult, msgs, seen, stopAsked, sent>>

(* A cancel request is void if MCRT runs already; startFrame() begins. *)
PrepEnter ==
  /\ ppc = "enter"
  /\ ppc' = "prep"
  /\ cancel' = (cancel /\ ~rendering)
  /\ UNCHANGED <<watcher, renderActive, ctx, initialized, queue, frame, counters,
                 apc, send, loaded, lastResult, msgs, seen, stopAsked, sent>>

(* A cancel point of startFrame() finds the flag raised. *)
PrepCanceled ==
  /\ ppc = "prep"
  /\ cancel
  /\ ppc' = "clear"
  /\ lastResult' = "CANCELED"
  /\ \/ UNCHANGED <<ready, complete, film>>
     \/ ready' = FALSE /\ complete' = FALSE /\ film' = 0
  /\ UNCHANGED <<watcher, cancel, renderActive, rendering, emptySchedule, halted,
                 initialized, queue,
                 frame, counters, apc, send, loaded, msgs, seen, stopAsked, sent>>

(* The last cancel point finds it down. *)
PrepUncanceled ==
  /\ ppc = "prep"
  /\ ~cancel
  /\ ppc' = "launch"
  /\ UNCHANGED <<watcher, cancel, renderActive, ctx, initialized, queue, frame,
                 counters, apc, send, loaded, lastResult, msgs, seen, stopAsked,
                 sent>>

(* startFrame() sets the MCRT threads going and returns.  Its schedule may
   leave this machine without tiles; a requestStop() that came during
   renderPrep may still count. *)
PrepLaunch ==
  /\ ppc = "launch"
  /\ ppc' = "clear"
  /\ lastResult' = "FINISHED"
  /\ rendering' = TRUE
  /\ ready' = FALSE
  /\ complete' = FALSE
  /\ film' = 0
  /\ emptySchedule' \in BOOLEAN
  /\ halted' \in {halted, FALSE}
  /\ UNCHANGED <<watcher, cancel, renderActive, initialized, queue, frame,
                 counters, apc, send, loaded, msgs, seen, stopAsked, sent>>

(* The flag is cleared for the next frame; a canceled one ends here. *)
PrepClear ==
  /\ ppc = "clear"
  /\ cancel' = FALSE
  /\ ppc' = IF lastResult = "CANCELED" THEN "done" ELSE "countLoad"
  /\ renderActive' = (renderActive /\ lastResult # "CANCELED")
  /\ UNCHANGED <<watcher, ctx, initialized, queue, frame, counters, apc, send,
                 loaded, lastResult, msgs, seen, stopAsked, sent>>

(* Faulty variant: the film activity of the last snapshot is not reset. *)
PrepCountLoadKeepsFilm ==
  /\ ppc = "countLoad"
  /\ ppc' = "countStore"
  /\ loaded' = renderCounter
  /\ UNCHANGED <<watcher, cancel, renderActive, ctx, initialized, queue, frame,
                 counters, apc, send, lastResult, msgs, seen, stopAsked, sent>>

(* mRenderCounter++ on a plain int that enqRenderSetupMessage() writes too:
   a load and a store. *)
PrepCountLoad ==
  /\ ppc = "countLoad"
  /\ ppc' = "countStore"
  /\ lastFilm' = 0
  /\ loaded' = renderCounter
  /\ UNCHANGED <<watcher, cancel, renderActive, ctx, initialized, queue,
                 beforeInitial, sentComplete, counters, apc, send, lastResult,
                 msgs, seen, stopAsked, sent>>

PrepCountStore ==
  /\ ppc = "countStore"
  /\ ppc' = "done"
  /\ renderCounter' = loaded + 1
  /\ loaded' = 0
  /\ beforeInitial' = TRUE
  /\ sentComplete' = FALSE
  /\ unseen' = TRUE
  /\ finishes' = 0
  /\ trailing' = FALSE
  /\ shown' = 0
  /\ UNCHANGED <<watcher, cancel, renderActive, ctx, initialized, queue,
                 lastFilm, lastSnapshot, apc, send, lastResult, msgs,
                 setupSince, stopAsked>>

PrepEnd ==
  /\ ppc = "done"
  /\ RenderPrepWatcher!End
  /\ ppc' = "off"
  /\ UNCHANGED <<cancel, renderActive, ctx, initialized, queue, frame, counters,
                 apc, send, loaded, lastResult, msgs, seen, stopAsked, sent>>

(***************************************************************************)
(* The specification.                                                      *)
(***************************************************************************)

Init ==
  /\ watcher = "WAIT"
  /\ cancel = FALSE
  /\ renderActive = FALSE
  /\ rendering = FALSE /\ ready = FALSE /\ complete = FALSE /\ film = 0
  /\ emptySchedule = TRUE /\ halted = FALSE
  /\ initialized = FALSE
  /\ updates = {} /\ geometry = FALSE
  /\ lastResult = "FINISHED"
  /\ lastFilm = 0 /\ beforeInitial = FALSE /\ sentComplete = TRUE
  /\ renderCounter = 0 /\ lastSnapshot = 0
  /\ apc = "idle" /\ deferring = FALSE /\ inCallBack = FALSE
  /\ seenFilm = 0 /\ finishing = FALSE
  /\ ppc = "off" /\ loaded = 0
  /\ msgs = 0
  /\ unseen = FALSE /\ setupSince = FALSE
  /\ stopAsked = "no"
  /\ finishes = 0 /\ trailing = FALSE /\ shown = 0

Messages ==
  \/ enqGeometryMessage
  \/ \E type \in {"RDL", "OTHER"} : enqUpdateMessage(type)
  \/ enqForceReload
  \/ enqRenderSetupMessage
  \/ StopMessage
  \/ InvalidateResources
  \/ ForceRenderStart

StopSteps ==
  \/ StopRendering \/ StopNotRendering \/ StopPrepTest \/ StopCancelClear
  \/ Restart \/ RequestStop

SendSteps ==
  SendDecide \/ SendNothing \/ SendStatus \/ SendSnapshot \/ SendReturn

PrepSteps ==
  \/ PrepBegin \/ PrepEnter \/ PrepCanceled \/ PrepUncanceled \/ PrepLaunch
  \/ PrepClear \/ PrepCountLoad \/ PrepCountStore \/ PrepEnd

Next ==
  \/ Messages
  \/ StopSteps
  \/ applyUpdatesAndRestartRender
  \/ SendBegin
  \/ SendSteps
  \/ PrepSteps
  \/ McrtStep

Spec == Init /\ [][Next]_vars

(* MCRT threads that nobody asked to stop: onIdle asks them to stop as soon as
   the frame is fit for display when updates wait, and requestStop() at once. *)
McrtUnasked == McrtStep /\ ~halted /\ (ready => ~haveUpdates)

(* A handler that has begun returns, renderPrep runs, and MCRT threads go on
   unless asked to stop.  onIdle is called for ever, and with updates waiting
   no interval or credit keeps it from applying them.  Nothing is assumed of
   sendDelta(), which the interval and the credit may hold back for ever. *)
FairSpec ==
  /\ Spec
  /\ WF_vars(StopSteps)
  /\ WF_vars(SendSteps)
  /\ WF_vars(PrepSteps)
  /\ WF_vars(McrtUnasked)
  /\ SF_vars(applyUpdatesAndRestartRender)

(***************************************************************************)
(* Properties.                                                             *)
(***************************************************************************)

TypeOK ==
  /\ watcher \in {"WAIT", "START", "BUSY"}
  /\ cancel \in BOOLEAN /\ renderActive \in BOOLEAN
  /\ rendering \in BOOLEAN /\ ready \in BOOLEAN /\ complete \in BOOLEAN
  /\ film \in Nat
  /\ emptySchedule \in BOOLEAN /\ halted \in BOOLEAN
  /\ initialized \in BOOLEAN
  /\ updates \subseteq UpdateTypes /\ geometry \in BOOLEAN
  /\ lastResult \in {"FINISHED", "CANCELED"}
  /\ lastFilm \in Nat
  /\ renderCounter \in Nat /\ lastSnapshot \in Nat
  /\ beforeInitial \in BOOLEAN /\ sentComplete \in BOOLEAN
  /\ apc \in ArrasPc /\ deferring \in BOOLEAN /\ inCallBack \in BOOLEAN
  /\ seenFilm \in Nat /\ finishing \in BOOLEAN
  /\ ppc \in PrepPc /\ loaded \in Nat
  /\ msgs \in Nat
  /\ unseen \in BOOLEAN /\ setupSince \in BOOLEAN
  /\ stopAsked \in {"no", "early", "heard", "late"}
  /\ finishes \in Nat /\ trailing \in BOOLEAN /\ shown \in Nat

(* A cancel request dies with the renderPrep it was meant for: once the
   handler that raised it has returned, the flag is up only while a renderPrep
   is there to consume it, and never cancels the next frame. *)
NoStaleCancel ==
  cancel /\ apc \notin {"stopTest", "stopTestRestart", "prepTest", "cancelClear"}
    => ppc \in {"prep", "launch", "clear"}

(* No scene is prepared, and no RenderContext exchanged, under MCRT threads
   that still render the previous frame. *)
PrepOnStoppedContext ==
  ppc \in {"enter", "prep", "launch"} => ~rendering

(* A STOP that arrives while a cancel point lies ahead, or while MCRT threads
   run, stops the frame, however its two tests interleave with the prep. *)
StopIsObeyed ==
  stopAsked = "heard" /\ apc = "idle" => ~rendering

(* What the STOP handler's comments say: the flag stays up until startFrame()
   has returned, so a STOP that comes before renderPrep begins stops it. *)
StopBeforePrepStops ==
  stopAsked = "early" /\ apc = "idle" /\ isRunStateWait => ~rendering

(* Downstream is never told that an MCRT node which renders is inactive. *)
RenderActiveIsTold ==
  rendering /\ apc = "idle" /\ ~inCallBack => renderActive

(* When the film activity has not moved since the last snapshot, that
   snapshot shows this frame's film as it is, although the activity is read
   before the pixels are. *)
NothingMissed ==
  apc = "idle" /\ isRunStateWait /\ rendering /\ lastFilm = film
    => shown = film

(* One FINISHED per frame. *)
FinishedOnce == finishes <= 1

(* sendDelta: FINISHED is the last message of its frame. *)
FinishedIsLast == ~trailing

(* A frame is given up for updates only after a snapshot of it was sent, or
   because a RenderSetup message came after the last snapshot. *)
UpdatesWaitForSnapshot ==
  [][(updates # {} /\ updates' = {}) \/ (geometry /\ ~geometry')
       => ~unseen \/ setupSince]_vars

(* What the interval and the credit must grant: a frame that is again and again
   fit for a snapshot is looked at by sendDelta(), and an image that is again
   and again due is no longer held back by isReadyToSend(). *)
SnapshotsAreGranted == SF_vars(SendBegin) /\ SF_vars(SendDecide)

(* If sends are granted, a frame that completes is finished and its context
   stopped, even when the completion left no mark on the film and whatever
   deferred messages did meanwhile; unless this machine has no tiles in it. *)
CompleteFrameIsFinished ==
  SnapshotsAreGranted =>
    (rendering /\ complete /\ ~emptySchedule ~> ~rendering)

(* If sends are granted, queued updates are applied in the end; except that
   nothing opens the gate any more for a frame that has sent no snapshot and
   was stopped, was asked to stop before it was fit for display, or gives this
   machine no tiles. *)
GateStuck ==
  /\ unseen
  /\ \/ ~rendering /\ isRunStateWait
     \/ halted /\ ~ready
     \/ emptySchedule

UpdatesAreApplied ==
  SnapshotsAreGranted => (updates # {} ~> (updates = {} \/ GateStuck))

(***************************************************************************)
(* The inductive invariant behind the safety properties.                   *)
(***************************************************************************)

BeforeLaunch == watcher = "START" \/ ppc \in {"enter", "prep", "launch"}

(* The watcher rests exactly when no renderPrep runs, and sendDelta, once
   past its first test, still sees it at rest until deferred messages are
   handled. *)
SendPc == {"sendDecide", "sendStatus", "sendSnapshot", "sendReturn"}

WatcherAgrees ==
  /\ watcher = "BUSY" <=> ppc # "off"
  /\ apc \in SendPc => watcher = "WAIT" /\ ~inCallBack
  /\ apc = "requestStop" => inCallBack

(* From the request to the launch, and after a cancel, nothing renders. *)
ContextAgrees ==
  /\ BeforeLaunch => ~rendering /\ renderActive
  /\ ppc = "clear" /\ lastResult = "CANCELED" => ~rendering
  /\ apc = "restart" => ~rendering /\ ~BeforeLaunch
  /\ finishing => apc \in {"sendSnapshot", "sendReturn"} \/ inCallBack
  /\ finishing /\ ~inCallBack => rendering
  /\ rendering => renderActive \/ finishing

(* A STOP that was heard leaves no way to a launch. *)
StopAgrees ==
  stopAsked = "heard" =>
    /\ watcher # "START"
    /\ ppc \notin {"enter", "launch"}
    /\ ppc = "prep" => cancel /\ apc # "cancelClear"
    /\ rendering => apc = "stopTest"

(* The counters compare as the gate needs, until a RenderSetup resets one. *)
CountersAgree ==
  ~setupSince =>
    /\ lastSnapshot <= renderCounter
    /\ unseen => lastSnapshot < renderCounter
    /\ ppc = "countStore" => lastSnapshot <= loaded

(* What was sent of a frame that renders. *)
SentAgrees ==
  rendering =>
    /\ ppc = "countStore" => lastFilm = 0
    /\ ppc \in {"off", "done"} =>
         /\ finishes > 0 => finishing /\ apc # "sendSnapshot"
         /\ lastFilm <= film
         /\ shown <= film
         /\ apc \notin {"sendStatus", "sendSnapshot"} => lastFilm <= shown
         /\ apc = "sendDecide" => seenFilm <= film

IInv ==
  /\ TypeOK
  /\ WatcherAgrees
  /\ NoStaleCancel
  /\ ContextAgrees
  /\ StopAgrees
  /\ CountersAgree
  /\ SentAgrees
  /\ FinishedOnce

=============================================================================
