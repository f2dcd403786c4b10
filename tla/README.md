# Verification of mcrt_computation

TLA+ models of the MCRT computations of the moonray arras renderer, TLC
configurations that check them on small instances, and TLAPS proofs about them.
Paths below are relative to the repository; `progmcrt` stands for
`src/computation/progmcrt`, `mcrt` for `src/lib/engine/mcrt`.

## 1. The system

A client sends scene updates to the *dispatch* computation, which forwards them
to N *progmcrt* computations. Each of them renders its share of the pixels with a
moonray `RenderContext` and sends progressive frames to the *merge* computation,
which combines them, sends them on to the client and reports back to the progmcrt
computations: credits, progress, completion, feedback images. All of them are arras
computations: the framework calls `onMessage()` and `onIdle()` on one thread each,
the **arras thread**. The interesting concurrency is inside a progmcrt computation,
which has four more kinds of threads:

| thread | runs | started by |
|---|---|---|
| renderPrep | `RenderContextDriver::renderPrepMain()` once per frame | `mRenderPrepWatcher`, a `Watcher` in `STOP_AND_GO` mode |
| heartbeat | `heartBeatMain()` for ever: statistics, info-only messages | `mHeartBeatWatcher`, `NON_STOP` |
| cleanup | deletes old `RenderContext`s | `mOldRenderContextWatcher`, `NON_STOP` |
| MCRT threads | fill the film of the `RenderContext` | moonray (external) |

### Inventory

**Watcher** (`mcrt/Watcher`). A thread that runs a callback, once per `resume()` or
for ever. *State*: thread state, run state WAIT/START, shutdown flag, a mutex and
condition variable for booting and for running. *Operations*: `boot`, `resume`,
`isRunStateWait`, `shutDown`, `threadMain`. *Hard*: state is written and notified
without the mutex under which it is tested, so notifications can be lost; the
thread writes WAIT while its owner writes START. *Correct when* WAIT is never
visible while the callback runs, each accepted `resume()` is one callback,
`shutDown()` ends.

**RenderContextDriver** (`mcrt/RenderContextDriver*.cc`). *State*: queue of
updates, geometry update, watcher, cancel flag, film activity and render counter of
the last snapshot, flags for the initial and the final snapshot, the
`RenderContext` pointer, backup scene, ROI and viewport. *Operations*: enqueue
messages, STOP, INVALIDATE_RESOURCES, start and stop a frame, apply updates and
restart, snapshot and send, renderPrep, heartbeat. *Hard*: renderPrep and MCRT
threads run through every handler; the only lock between renderPrep and the arras
thread is the watcher's WAIT; cancel is a flag tested at some points and cleared at
others; the gate that lets a frame be replaced compares two counters written by
two threads. *Correct when* nothing renders under a renderPrep, STOP stops, no
cancel hits the wrong frame, frames that complete are finished and sent once, a
frame is not replaced before it was shown, and queued updates are applied.

**RenderContextDestructionManager** and the ownership of a `RenderContext`.
*State*: table of old contexts, shutdown flag, condition variable; the driver's
raw pointer. *Operations*: `push`, cleanup loop, destructor;
`resetRenderContext`, `getRenderContext`. *Hard*: deletion runs concurrently with
rendering and is unbounded; the heartbeat thread reads the pointer without a lock;
the order of destruction at `onStop()`. *Correct when* every context has one owner
and is deleted exactly once, nobody waits for a deletion, nothing is left behind.

**ProgMcrtComputation** (`progmcrt/ProgMcrtComputation`). *State*: credit, deferred
mode and queue, options. *Operations*: `onMessage`, `onIdle`, `onCreditUpdate`,
`processDeferredMessage`, the send callbacks, `handleGenericMessage`. *Hard*: two
threads charge the credit under a mutex, a third path adds to it without; messages
are deferred until an image is sent, which depends on messages. *Correct when* the
credit is conserved and never leaves its mode, messages are handled in order, and
deferral ends.

**ProgMcrtDispatchComputation**. *State*: the latest geometry update, lists of RDL
and JSON updates, last sync ids, the counter of JSON ids. *Operations*: `onMessage`,
`onIdle`. *Hard*: forwarding is once per interval and by kind, not by arrival; ids are
given here or by the client. *Correct when* a frame shows what its sync id says, or
the verification of sync ids has complained, and picks keep their order.

**Scene updates** (`mcrt/RenderContextDriver_{enqMessage,onIdle,startStop}.cc`).
*State*: message queue, latest geometry, scene, backup scene, `mSyncId`, ROI and
viewport of the scene and of the sender, result of the last renderPrep. *Operations*:
`preprocessQueuedMessage`, `process*Message`, the rebuild after a canceled renderPrep.
*Hard*: the backup holds what RDL messages set and nothing else; RDL, ROI and
ViewportMessages all set region or size, and the sender's copies are changed elsewhere
than the scene's; disabled messages are never applied. *Correct when* dropped messages
make no difference to the scene, nothing is built on a half-prepared scene, and what is
sent has the size and region that is rendered.

**ProgMcrtMergeComputation**. *State*: the frame on display, what each of the N
machines sent for it, sizes, credit, progress and completion. *Operations*:
`onMessage`, `onIdle`, quick update, `sendCredit`, completion, progress and pick
messages. *Hard*: messages of several machines and frames interleave, credit is tested
in one place and spent in another, a completion meets machines that have gone on.
*Correct when* images do not go back, the last image of a frame gets out, completions
are announced once and stop the right frame, and picks are answered once.

**DeltaImageCache** and feedback. *State*: list of sent messages, decoded and merged
frame buffers on the machine; delta-coded feedback on the merge. *Operations*:
`enqueueMessage` (with eviction), `decodeMessage`, `processFeedback`,
`evalProgressiveFeedbackMessage`. *Hard*: the machine replays the merge's actions on
data it may have evicted, frames late, while feedback is switched on and off on both
sides. *Correct when* the replay gives what the merge had.

**Others**: `RenderContextDriverManager` (one driver; its destruction order is
modelled with the ownership), `MessageHistory`, `TimingRecorder`,
`McrtDebugFeedback`, debug consoles, `rec_load`, `mcrt_logging`, the start-up
programs: recording, command parsing and I/O on which no control depends.

### How they interact

`ProgMcrtComputation::onMessage` calls the driver's `enq*` handlers; `onIdle` calls
`sendDelta` and then `applyUpdatesAndRestartRender`. `sendDelta` calls back into
the computation to send, and that callback charges credit and may handle deferred
messages, which call the driver again. The driver talks to renderPrep through the
watcher, the cancel flag and plain fields; renderPrep drives the `RenderContext`,
whose state the arras thread polls. `resetRenderContext` hands the old context to
the destruction manager. The heartbeat thread uses the same send callback under
`mMutexSendAction`. Merge answers each message with a `CreditUpdate`.

## 2. Order of the work

The most important behaviour first, each component's proof after its checks:

1. `Watcher`, with the abstract `StopAndGo`: everything rests on WAIT.
2. `RenderContextDriver` over `StopAndGo`: the life of a frame.
3. `RenderContextDestructionManager`, composed with the driver's pointer in
   `RenderContextLifetime`.
4. `ProgMcrtComputation`: rate control and deferred messages.
5. `ProgMcrtMergeComputation`, composed with several machines in `RenderSession`.
6. `DeltaImageCache`, composed with the merge's feedback in `FeedbackSession`.
7. `SceneUpdate` and `ProgMcrtDispatchComputation`, composed with a client, several
   machines and the merge's way back for picks in `SceneSession`.

What could follow: the composition of 4 with 2, which would say when the driver has an
image to send and so replace the hypotheses `ImagesKeepComing` and `SnapshotsAreGranted`.

## 3. Modules

| module | models |
|---|---|
| `StopAndGo` | what a `STOP_AND_GO` watcher promises: WAIT, START, BUSY |
| `Watcher` | `mcrt/Watcher.cc`, one action per access to shared state |
| `RenderContextDriver` | `mcrt/RenderContextDriver*.cc`: the control of frames |
| `RenderContextDestructionManager` | `mcrt/RenderContextDestructionManager.cc` |
| `RenderContextLifetime` | composes it with the driver's pointer, the heartbeat thread and `onStop()` |
| `ProgMcrtComputation` | `progmcrt/ProgMcrtComputation.cc`: credit and deferral |
| `ProgMcrtMergeComputation` | `progmcrt_merge/ProgMcrtMergeComputation.cc`: images, credit, completion |
| `RenderSession` | composes it with several machines that render frame by frame |
| `DeltaImageCache` | `mcrt/DeltaImageCache.cc` and `mcrt/RenderContextDriver_feedback.cc` on one machine |
| `FeedbackSession` | composes it with the merge's side of feedback |
| `SceneUpdate` | `mcrt/RenderContextDriver*.cc`: how queued updates become a scene |
| `ProgMcrtDispatchComputation` | `progmcrt_dispatch/ProgMcrtDispatchComputation.cc` |
| `SceneSession` | composes the two with a client and the way back of pick answers |
| `*Proofs` | the theorems about the module of that name |
| `SceneContentsProofs` | the theorems about the scenes of `SceneSession`; `SceneSessionProofs` has those about its picks |
| `MC*` | instances for TLC, with one `.cfg` per run |

Actions keep the names of the functions they model; a function that another thread
can get in between is cut at each access to what that thread may write, and the
pieces are named after it. A definition preceded by "Faulty variant" is a plausible
mistake in the definition that follows it; the specification never uses it.

**Watcher.** Owner and thread each have a program counter. The code's two mutexes
are each locked by one thread only (the waiter), so they exclude nothing and are
not state; a waiter that has tested its predicate and not yet slept is at "block",
where a notification is lost. The histories `runLost` and `bootLost` record that.
Spurious wake-ups are an action without fairness. `NON_STOP` mode is modelled too.

**StopAndGo and the driver.** `Watcher` implements `StopAndGo` (proved and checked).
The driver uses `StopAndGo` through an instance that maps `phase` to its own
variable `watcher`. `StopAndGo` states no
fairness of its own; the driver's fairness assumes that a requested renderPrep begins,
that is, that its notification is not lost. The loss itself is in `Watcher`, whose
liveness properties name it (`runLost`).

**RenderContextDriver.** The arras thread has a program counter `apc` inside `STOP`,
`INVALIDATE_RESOURCES` and `sendDelta`, which read what renderPrep or MCRT threads
write. The callback with which `sendDelta` sends an image handles deferred messages
(`ProgMcrtComputation.cc:395-397`), which call the driver again: from `SendSnapshot` to
`SendReturn` the arras thread may, with `inCallBack`, receive STOP, INVALIDATE_RESOURCES
and RENDER_SETUP and all that is queued, each followed by `requestStop()` (`:554`), and
then goes on to `stopFrame()` of a FINISHED frame as it had decided to before
(`finishing`). `halted` is a context that was asked to stop, `emptySchedule` a frame of
which this machine has no tiles (`getTiles()->empty()`), which sends nothing at all.
`applyUpdatesAndRestartRender` is one action, because it runs only at WAIT,
which only the arras thread can end, and stops the MCRT threads before it touches
the context. The renderPrep thread has `ppc`. The moonray context is external: it
is rendering, displayable, complete, has a film activity, and `stopFrame()` may or
may not leave it displayable. The queue is the *set* of message kinds it holds: the
code asks only for emptiness and for the kinds; the contents are in `SceneUpdate`.
`mRenderCounter++` is split into load and store, as another thread assigns 0.

**RenderContextDestructionManager / RenderContextLifetime.** The manager's module
has the cleanup thread as actions and what callers do to it as operators, which the
composition puts into the caller's actions. The mutex is held over a step in one
place, from the cleanup thread's test to its sleep (`cpc = "block"`), where `MayPush`
is false. Both threads that can run `resetRenderContext()` do, step by step. The
history `raced` says that the heartbeat thread has met a null pointer, after which
two resets run at once.

**ProgMcrtComputation.** The heartbeat's `if (mCredit > 0) mCredit--` is three
actions under the mutex; the arras thread's is one, as only the heartbeat writes
besides and it waits for the mutex. `onCreditUpdate()` takes no mutex and is split
into load and store; `torn` records an overwritten update. `CreditUpdate::applyTo`
is external and taken to add 1, the value the merge sends. `UPDATE` stands for
every message but `CreditUpdate` and ForceRenderStart.

**ProgMcrtMergeComputation / RenderSession.** The merge is single-threaded, so a
handler is an action. `FbMsgMultiFrames` belongs to another library; as the merge
uses it, it has one frame on display, the newest, and for it the last status and
progress of each machine. Intervals are flags (`packetDue`). In `RenderSession` a
machine begins a frame of any id: the next, one after it, and, `MaxRestarts` times, the
same again (INVALIDATE_RESOURCES, ROI, VIEWPORT, START) or an older one (`mSyncId` is what
the last RDL message says); a frame has one of the sizes in `ViewportsOf` its id, so that
one that is begun again may have another. A machine's messages
arrive in order, completions come back through a queue per machine. The history
`starved` says that an image of the frame on display was given up because the credit
was 0, `reached` which frames the machines together have completed.

**DeltaImageCache / FeedbackSession.** An image is its id; a decoded or merged buffer
is the set of ids in it, tile by tile, which is what the merge actions distinguish.
Eviction, which the code decides by the clock, may remove any oldest part of the
cache. `decodeMessage()` is one action per merge action, because its callbacks are
separate operations; the merge does not move meanwhile, as neither reads what the
other writes there. A frame may be begun under a new id, again under its own or under an
older one (`MaxRestarts` times); each empties the cache. Sending an image may itself
begin the frame again, as its callback handles deferred messages, and `enqueueMessage()`
then puts the old image into the new cache (`SendImageAnew`). The history `fresh` says
that the frame's id is newer than all before. Every feedback message carries as a history (`merged`) what the
merge had; the replay is compared with it.

**SceneUpdate.** A scene is the ids of the RDL messages in it, the newest geometry,
the region and the viewport (the image size with the region window that it makes). An
RDL message carries scene variables, too: its `window` says which region and viewport it
sets, in the scene and in the backup (`setBy`). The buffers follow a new viewport; of a
new region the sender hears nothing. A machine's driver is one record, and the processing
of the queue a recursive function on it (`processed`), so that "with all messages" can
be compared with "with the active ones". The control of a frame is reduced to stopped, prep and rendering; its
interleavings are in `RenderContextDriver`. The histories `dirty`, `patched` and
`rebuilt` say what a canceled renderPrep has left, `regionSet` that RDL messages have set
a region.

**ProgMcrtDispatchComputation / SceneSession.** The interval may end at any moment.
What is forwarded travels to each machine in order; a ViewportMessage goes to the
machines directly, as no code in the dispatch computation handles it. The scenes of
the machines in `Followed` are followed, of the others only the picks they answer:
machines do not see each other, so more followed machines only multiply states.
`sceneOf` is the history of what the client had sent when it used a sync id.

## 4. Runs

Each run's properties are in its `.cfg`; each property is stated in words in its
module.

| run | shows |
|---|---|
| `watcher` | either run mode: WAIT means quiet, one callback per accepted `resume()` up to lost notifications, `shutDown()` returns likewise, `StopAndGo` is implemented |
| `driver` | contexts, STOP, snapshots, gate and completion stay consistent in every interleaving, deferred messages handled inside `sendDelta` included; if sends are granted, complete frames are finished, and updates applied unless `GateStuck` says why not |
| `driver_stop` (violation) | a STOP between the request of a frame and its renderPrep is forgotten |
| `driver_finished` (violation) | an image message can follow FINISHED |
| `lifetime` | one owner and one deletion per context, resets do not wait, shutdown leaves nothing and returns unless its wake-up is lost |
| `lifetime_use` (violation) | the heartbeat thread can use a deleted context |
| `credit` | credit conservation, order of deferred messages; credit comes back, deferral ends while there is credit and images keep coming |
| `credit_deferred` (violation) | with the credit used up, ForceRenderStart defers the CreditUpdate it depends on |
| `merge` | two machines that lag, skip and overtake each other: images in order, last images shown, completions announced once and obeyed only in frames of the right id, no credit lost; without rate control one of them also begins a frame again, in another size, or goes back to an older one |
| `feedback` | the machine's replay is exact whatever is skipped, grouped, evicted or delayed, unless images were decoded early or the frame was begun again under its id; nothing of a frame is passed over |
| `feedback_tiles` (violation) | feedback of an older frame names tiles that the frame buffer of a newer, smaller frame does not have |
| `scene` | a frame shows what its sync id says as long as RUNTIME-VERIFY is silent; dropping queued messages changes nothing; canceled scenes are rebuilt; sizes and regions agree but for what the backup or RDL messages brought; picks are answered once and in order. `SessionInv` is the two inductive invariants of the proofs, `IInv` and `ScenesInv` |

The five violation runs are findings; `PROJECT.json` quotes the text each of them
contradicts and tells the run.

### Behaviour met while modelling

The properties are stated around the following, which the models contain:

- A notification of `resume()` can fall between the thread's test and its sleep
  (`Watcher.cc:42`, without the mutex); later calls are then ignored.
- A RenderSetup that arrives while renderPrep runs does not force its update
  (`RenderContextDriver_enqMessage.cc:156`): `mRenderCounter++` follows the reset and
  closes the gate.
- "MCRT Rendered First Frame" goes out with node information, before there is an
  image (`ProgMcrtMergeComputation.cc:290`).
- An image given up at credit 0 is not sent later (`ProgMcrtMergeComputation.cc:271`):
  hence `starved` in two properties.
- A frame that is begun again keeps its `mSyncId`. The late completion of its first run
  stops the second before it has come as far (`RenderContextDriver_evalMessage.cc:143`),
  and feedback of the first run meets an empty cache
  (`RenderContextDriver_startStop.cc:29`): hence ids and not runs in `NoFrameIsCutShort`,
  and `fresh` in `MinusOneIsExact`. The merge takes the size of an id from its first
  message only (`ProgMcrtMergeComputation.cc:357`).
- With an empty tile schedule (`RenderContextDriver_onIdle.cc:151`), or stopped before its
  first snapshot, a frame never opens the gate for the updates after it
  (`RenderContextDriver_onIdle.cc:209`): `GateStuck`.
- An INVALIDATE_RESOURCES handled in the callback of a FINISHED image begins the frame
  anew, and `sendDelta`, which called back, stops it
  (`RenderContextDriver_onIdle.cc:167`).
- A machine that begins a frame after its completion was announced does not hear of it
  and renders to the end: hence the condition of `OvershootIsStopped`.
- After early decoding the minus-one image has deltas the merge had not decoded yet:
  hence `evicted = {}` in `MinusOneIsExact`.
- A geometry update queued before a forced reload is applied after it, although
  `RenderContextDriver_enqMessage.cc:57` clears the queue to "only use this message".
- A scene rebuilt from the backup has lost geometry and the region and viewport that ROI
  and ViewportMessages set; a canceled scene that gets a geometry update alone is rendered
  as it is. `VerifiedMeansExact`, `SenderAgrees` and `CanceledIsRebuilt` name these cases.
- A region that an RDL message sets is rendered, but nobody tells the sender
  (`setRoiViewport()` is called at `RenderContextDriver_enqMessage.cc:460` only), and an ROI
  message that sets the same later is ignored (`:445`). `SenderAgrees` names the case
  (`RegionOfRdl`).
- The preprocessing may disable a message that mattered to the sender. Of the
  ROI messages before and after an RDL message that sets a region only the second
  stays, and is ignored if it sets that region; with both the sender would have been told
  the first. Likewise the last ViewportMessage is ignored if it asks for the size of a
  rebuilt or new context (`RenderContextDriver_onIdle.cc:369`,
  `RenderContextDriver_enqMessage.cc:513`). `PreprocessKeepsOutcome` names both cases; the
  scene and the backup are the same in all.
- The dispatch computation reorders by kind, so that `mSyncId` of a machine can go
  backwards and RUNTIME-VERIFY can complain of ids the client used in order; a
  RENDER_SETUP is forwarded after the RDL messages of its interval that it then drops.

### Bounds, and why they are enough

- `MaxResume = 2` (watcher): the second `resume()` meets a thread that has run; more
  repeat the same pairs of positions.
- `MaxMsgs = 3`, `MaxFilm = 2` (driver; 2 messages in the violation runs): one
  message makes a frame, one races with it, inside or outside of `sendDelta`, one meets
  what the race left; film
  levels are what a snapshot has shown and what it has missed.
- Four contexts (lifetime; three in the violation run): three resets, one of which
  may be the heartbeat's own. `Spare` keeps a reset from starting without one.
- `InitialCredits = {-1, 1, 2}`, `MaxMsgs = 3`, `MaxCredit = 3` (credit): rate
  control off, exhausted by one message, and by two; three messages are a
  ForceRenderStart and two that must keep their order, one of which may be another
  ForceRenderStart. `MaxCredit` ends the sending of messages that are not charged,
  which the code does not bound; charged ones are not limited by it.
- Two machines, two ids, of which the first has frames of two sizes and the second of
  one, `Target = 1`, `MaxProgress = 1`,
  `InitialCredits = {-1, 1}`, `MaxOwed = 1`, `MaxRestarts` 1 without rate control and 0
  with it (what a restart does and what the credit does are told apart by different
  variables, and both together multiply states): one machine behind, ahead or equal;
  a completion that meets an older, the same or a newer frame; a target that one
  machine or both reach; credit there or not.
- Two ids, two tiles, `MaxImages = 3`, `MaxMerges = 1`, `MaxQueue = 1`, `MaxRestarts = 1`
  (feedback): an image evicted, one named and one under way; an action sequence of a
  decode and a merge; one frame that is begun again or goes back, with feedback of it under
  way. The frames grow in `feedback` and shrink in `feedback_tiles`.
- `MaxSyncId = 3`, `MaxJson = 2`, `MaxSent = 4`, two regions that differ in nothing but
  their names (hence the symmetry), one viewport besides the default, RDL messages that
  set a region, none, or a viewport, two machines of
  which one is followed (scene): up to three scene messages, so that one can be replaced or
  overtaken while another is rebuilt, with a cancel, a region or a pick; or two scene
  messages with a cancel and a region, two regions, a region and a viewport, or two picks.
- The counters of the proofs are unbounded: the theorems hold for every value of
  these constants.

Deadlock checking is off in every run: once all messages were received, or
after `shutDown()` or `onStop()`, the system may rest. Progress is stated as
liveness instead.

### Fairness

- *Watcher*: weak fairness of calls once begun and of the thread; none for spurious
  wakes or for the owner's choice of a call.
- *Driver*: weak fairness for handlers that have begun, renderPrep and MCRT threads
  that nobody asked to stop: they are threads the system schedules and functions that
  return. Strong fairness for `applyUpdatesAndRestartRender`: `onIdle()` is called for ever,
  and with updates waiting neither interval nor credit keeps it from applying them. Of
  `sendDelta` nothing is assumed, as the interval and the credit
  (`ProgMcrtComputation.cc:376-380`) may hold it back for ever, which the run
  `credit_deferred` shows; the two liveness properties have as their hypothesis
  `SnapshotsAreGranted`, that a frame that is fit for a snapshot again and again is looked
  at, and that `isReadyToSend()` holds an image that is due back for a finite time only.
- *Lifetime*: strong fairness for the arras and heartbeat threads inside a function,
  as they compete for a mutex that is free again and again; weak for the cleanup
  thread, save for the deletion itself, which may last for ever.
  `ShutDownReturnsOrIsLost` adds that deletions end.
- *Credit*: weak fairness for handlers and callbacks that have begun, strong for the
  merge's answers and for a thread waiting for the mutex. Nothing is assumed of the
  interval, nor that there is another image: a frame that is finished, stopped or without
  tiles has none. `DeferredAreHandledOnCredit` and `DeferredAreHandled` have that as their
  hypothesis, `ImagesKeepComing`.
- *Merge*: weak fairness for the merge's `onIdle` and its timer, for a machine that
  renders and for one asked to stop at a pass boundary, and for the delivery of
  completions. Nothing obliges the client to return credit, or a machine to begin a frame
  or to begin it again.
- *Feedback, scene*: safety only, no fairness.

## 5. Proofs

All for every value of the constants, from the constants' assumptions only (bounds
are natural numbers, `None` is no context, sync ids are natural numbers).

- `WatcherProofs`: the inductive invariant `IInv` relates the program counters to the
  flags. `Accounted` is its core: a request is open exactly from the START of
  `resume()` to the callback. Without it, that the thread's WAIT cannot swallow a
  later START is not inductive. From it: `WaitMeansQuiet`, `OneRunPerResume`,
  `SleepsForAReason`, and the refinement of `StopAndGo`, action by action.
- `RenderContextDriverProofs`: `IInv` adds to the properties that no renderPrep is
  past its request while something renders (`ContextAgrees`), that a STOP which was
  heard leaves no way to a launch (`StopAgrees`), how the counters compare until a
  RenderSetup resets one (`CountersAgree`), and what was sent of a frame that
  renders (`SentAgrees`). What ties the watcher and the context to the position of the arras
  thread in `sendDelta` holds until that calls back (`WatcherAgrees`, `finishing` in
  `ContextAgrees`): deferred messages may then stop the frame or begin another, and the
  steps of `sendDelta` after the callback assume nothing of the context. From it the six safety invariants of the run; and
  `GateHolds`, the action property, step by step.
- `RenderContextLifetimeProofs`: `OneOwner` is inductive with `PointerAgrees` (the
  pointer is null just while the arras thread makes a new context), `OnlyMadeContexts`
  (nothing unmade is held, so a new context is nobody's) and `EndAgrees` (how far
  the shutdown has come and what the cleanup thread has done about it).
  `NothingLeftBehind` follows from the last state's owners.
- `ProgMcrtComputationProofs`: `RateControlStays` and `CreditConserved` are inductive
  with `SendAgrees`: only one thread raises the credit, and only the holder of the
  mutex lowers it, so what a thread has loaded is never on the wrong side of what
  is stored. `WaitingInOrder` says that the deferred queue is just what was received and
  not handled, in order; with it `NothingOvertakes` and the action property
  `DeferredWait` follow, and `HandledInOrder`: messages are handled first come, first
  served, through the deferred queue or past it.
- `RenderSessionProofs`: `IInv` ties together which frame is on display, which one the
  sizes were set for (`ViewportFollows`, without which a quick update could carry
  a viewport that no frame of its id had), the announced completions (`LastIsNewest`) and those under
  way (`CompletionsAreDue`: whatever is in a queue was due, so a late one still stops
  no frame of another id, though machines begin frames in any order and again). From it `CompletedOnce`, `NoFrameIsCutShort`, `CreditNeverLeaks` and
  the action property `ShownInOrder`, for every number of machines and frames.
- `FeedbackSessionProofs`: the ids of a frame pass in order from the images under way
  through the merge's tracker to the feedback under way and in evaluation
  (`ToldInOrder`, `NotedInOrder`, `PassedInOrder`); what is still cached is on that way
  or behind all that will be named (`CachedIsToldLater`, `CachedIsOnItsWay`). Hence no
  feedback, however old, passes over an image that is still to be named
  (`FrameIsWhole`) or takes one that is not its own (`NeverAhead`), also when the frame
  has been begun again under its id and the feedback is of its first run: image ids go on
  counting, so that nothing in the new cache has an id that the old run knew.

  The second half proves `MinusOneIsExact`. The machine's feedback yet to come is one
  sequence, `Underway`: the feedback in evaluation, what is queued, and last what the
  merge would send now. `Replays` says of it, feedback by feedback, that its actions
  lead from the tiles of the one before, and from what is decoded by then, to the tiles
  the merge had when it sent it; a tile's value is settled by the last action that
  covers it (`Gives`). That is preserved when an action is done at the front
  (`GivesTail`, `ReplaysHead`: what `mergeTiles()` has put off counts as done, hence
  `Merged` and not `mMergedFb`), when a feedback ends, and when the merge adds to the
  end (`GivesAppend`, `ReplaysLast`, `ReplaysAppend`). It needs that ids belong to
  their frame (`IdsOfTheirFrame`) and that feedback of an older frame finds nothing
  (`OldFindsNothing`): while any is under way nothing of this frame is decoded. For a frame
  that is begun again under its id that is not so, hence its restriction to `fresh` frames. TLC
  found `ReplayInv` true in every state of the instance of `feedback` before the
  proof; no run repeats that, as its part that matters is `MinusOneIsExact`.
- `SceneSessionProofs`: a pick is followed from the client through the JSON queue, each
  machine's channel, its answers, to the client. `NoneIsMissing` and the order of
  the keys on every way make the first answer with a larger number the next one
  asked for; `NumbersAgree` and `NumbersAhead` say that numbers order as the
  keys do whoever gave them. Stated for `Followed = Machines`; `IInv` does not look
  into scenes.
- `SceneContentsProofs`: what the scenes are, for any followed machines. Of each driver
  alone, whatever it is sent (`DriversInv`): a reload or a RENDER_SETUP is first in its
  queue, what a cancel left is marked, and the sender's size and region go with the
  scene's unless the backup or RDL messages brought those (`SenderFollows`; its last part,
  that the backup has a region only if RDL messages set one, makes it inductive over the
  rebuild). From these `CanceledIsRebuilt`, `SenderAgrees` and, message by message
  through the queue with and without the disabled ones (`BothProcessed`),
  `PreprocessKeepsOutcome`. Of the whole way from the client (`ScenesInv`): as long as
  RUNTIME-VERIFY is silent and there was no RENDER_SETUP, the ids are in order from
  context to queue to channel to the dispatch computation (`IdsInOrder`), none is
  missing but those that a reload or newer geometry stands for (`NothingMissing`),
  and context and backup are what the client had sent by then (`ContentsAgree`). From
  it `VerifiedMeansExact`. The client's history only grows, which makes "the client had
  sent" the same at every later time (`HistoryGrows`). Loops over a queue are proved
  with `SetInductionUpTo`, induction for the *set* of lengths for which the claim
  holds, which well-foundedness of `<` gives.

Theorems whose formula no run lists (`RunsMatchRequests`, `SleepHasAReason`,
`CancelIsConsumed`, `ActiveIsTold`, `OneFinished`, `CreditNeverNegative`,
`ForceStartHolds`) follow from an `IInv` that is checked. `Invariance` of merge,
feedback and picks, `DriversInvariance`, `ScenesInvariance` and `ReplayInvariance` state
the inductive invariants themselves; the two of `scene` are checked as `SessionInv`.

Every invariant and every action property of the passing runs is proved. Only
model-checked: the liveness properties and the fairness they rest on, which are out of
the prover's reach (`ResumeRunsOrIsLost`, `ShutDownReturnsOrIsLost` of both modules,
`CompleteFrameIsFinished`, `UpdatesAreApplied`, `BacklogIsTaken`, `ResetDoesNotWait`,
`CreditComesBack`, `DeferredAreHandledOnCredit`, `LastImageIsShown`,
`OvershootIsStopped`).

## 6. Not modelled

- The path visualizer mode of a progmcrt computation, and the interval of render
  outputs, which decides only what an image contains.
- Of the merge: parser and debug commands, task tunneling, statistics, the clock delta
  exchange (an external client and server).
- Pixel values, the encoding of images and feedback: an image is its id.
- The moonray renderer, arras, `mcrt_dataio` and `FbMsgMultiFrames`: external,
  modelled from how this code uses them.
- `MessageHistory`, `TimingRecorder`, `rec_load`, `mcrt_logging`, debug consoles,
  configuration parsing, start-up programs: recording, I/O and command parsing on
  which no control depends.
- Crashes: no component persists anything, a computation that dies ends the session.

`PROJECT.json` lists each component with its reason.
