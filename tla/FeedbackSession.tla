---------------------------- MODULE FeedbackSession ----------------------------
(***************************************************************************)
(* One machine with its DeltaImageCache, and the feedback the merge        *)
(* computation sends it (ProgMcrtMergeComputation.cc, processFeedback()).  *)
(*                                                                         *)
(* The merge is told about the machine by its images only; the other       *)
(* machines show by the frames they bring to the display.  What the merge  *)
(* keeps for the machine (mcrt_dataio's FbMsgSingleFrame and               *)
(* MergeActionTracker) is external: the deltas received, decoded and, tile *)
(* by tile, merged, and the actions since the last feedback.  Both         *)
(* directions are queues.                                                  *)
(***************************************************************************)
EXTENDS DeltaImageCache, FiniteSets

CONSTANTS
  MaxMerges,       (* bound: merges recorded between two feedbacks           *)
  MaxQueue         (* bound: messages under way in each direction            *)

ASSUME SessionAssumption == MaxMerges \in Nat /\ MaxQueue \in Nat

VARIABLES
  toMerge,                  (* the machine's images under way                *)
  toMcrt,                   (* feedback under way                            *)
  display,                  (* external: getDisplaySyncFrameId()             *)
  frameFeedbackActive,      (* external: getFeedbackActive() of that frame   *)
  pending, decoded, merged, (* external: deltas received, decoded, merged    *)
  tracker,                  (* external: MergeActionTracker                  *)
  feedbackInitialized,      (* mFeedbackInitialized                          *)
  lastSentFeedbackSyncId    (* mLastSentFeedbackSyncId                       *)

mergeFrame == <<display, frameFeedbackActive, pending, decoded, merged, tracker>>
mergeFeedback == <<feedbackInitialized, lastSentFeedbackSyncId>>
mergeVars == <<mergeFrame, mergeFeedback>>
vars == <<machineVars, mergeVars, toMerge, toMcrt>>

Init ==
  /\ MachineInit
  /\ toMerge = <<>> /\ toMcrt = <<>>
  /\ display = UNDEFINED
  /\ frameFeedbackActive = FALSE
  /\ pending = {} /\ decoded = {} /\ merged = Blank
  /\ tracker = <<>>
  /\ feedbackInitialized = TRUE
  /\ lastSentFeedbackSyncId = 0

(***************************************************************************)
(* The machine.                                                            *)
(***************************************************************************)

MachineSends ==
  \E isStarted \in BOOLEAN :
    /\ Len(toMerge) < MaxQueue
    /\ SendImage(isStarted) \/ SendImageAnew(isStarted)
    /\ toMerge' = Append(toMerge, [id |-> sendImageActionId, syncId |-> syncId])
    /\ UNCHANGED <<toMcrt, mergeVars>>

MachineReceives ==
  /\ toMcrt # <<>>
  /\ evalProgressiveFeedbackMessage(Head(toMcrt))
  /\ toMcrt' = Tail(toMcrt)
  /\ UNCHANGED <<toMerge, mergeVars>>

MachineStarts ==
  /\ startFrame
  /\ UNCHANGED <<toMerge, toMcrt, mergeVars>>

MachineEvaluates ==
  /\ decodeMessage
  /\ UNCHANGED <<toMerge, toMcrt, mergeVars>>

(***************************************************************************)
(* The merge.  It rests while the machine is inside decodeMessage(): there *)
(* neither reads what the other writes.                                    *)
(***************************************************************************)

(* external: push() of the first message of a frame, which takes mFeedbackActive as
   a command has set it by then.  Feedback that was off until
   then begins with mFeedbackInitCallBack, initFeedbackFbSender(). *)
NewFrame(s, ids) ==
  /\ s > display
  /\ display' = s
  /\ frameFeedbackActive' \in BOOLEAN
  /\ pending' = ids /\ decoded' = {} /\ merged' = Blank /\ tracker' = <<>>
  /\ feedbackInitialized' = (feedbackInitialized \/ (frameFeedbackActive' /\ ~frameFeedbackActive))
  /\ UNCHANGED lastSentFeedbackSyncId

(* onMessage() with an image of another machine, for a new frame *)
OtherMachine ==
  /\ Ready
  /\ \E s \in SyncIds : NewFrame(s, {})
  /\ UNCHANGED <<machineVars, toMerge, toMcrt>>

(* onMessage() with an image of this machine *)
MergeReceives ==
  /\ Ready
  /\ toMerge # <<>>
  /\ LET msg == Head(toMerge)
     IN \/ NewFrame(msg.syncId, {msg.id})
        \/ /\ msg.syncId = display
           /\ pending' = pending \cup {msg.id}
           /\ UNCHANGED <<display, frameFeedbackActive, decoded, merged, tracker, mergeFeedback>>
        \/ /\ msg.syncId < display
           /\ UNCHANGED <<mergeFrame, mergeFeedback>>
  /\ toMerge' = Tail(toMerge)
  /\ UNCHANGED <<machineVars, toMcrt>>

(* external: MergeActionTracker.  The images of one frame have consecutive ids. *)
Decodes ==
  IF pending = {} THEN <<>>
  ELSE <<[op |-> IF Cardinality(pending) = 1 THEN "DECODE_SINGLE" ELSE "DECODE_RANGE",
          ids |-> pending, tiles |-> {}]>>

Merges(op, tiles) ==
  <<[op |-> op, ids |-> {}, tiles |-> IF op = "MERGE_ALL_TILES" THEN {} ELSE tiles]>>

Encodes(op, tiles) ==
  \/ op = "MERGE_TILE_SINGLE" /\ Cardinality(tiles) = 1
  \/ op = "MERGE_TILE_RANGE" /\ Cardinality(tiles) > 1
  \/ op = "MERGE_ALL_TILES" /\ tiles = Tiles(NumTile[display])

(* Faulty variant: a new frame does not make the feedback STARTED. *)
StartedOnInitOnly == feedbackInitialized

feedbackIsStarted == feedbackInitialized \/ lastSentFeedbackSyncId # display

(* processFeedback() *)
processFeedback(actions) ==
  /\ Len(toMcrt) < MaxQueue
  /\ toMcrt' = Append(toMcrt, [syncId |-> display, isStarted |-> feedbackIsStarted,
                               actions |-> actions, merged |-> merged'])
  /\ feedbackInitialized' = FALSE
  /\ lastSentFeedbackSyncId' = display
  /\ tracker' = <<>>

(* Feedback, when it is time for it; else the actions wait in the tracker. *)
FeedbackIfDue(actions) ==
  \/ processFeedback(actions)
  \/ /\ Cardinality({p \in 1 .. Len(actions) : actions[p].op \in MergeOps}) <= MaxMerges
     /\ tracker' = actions
     /\ UNCHANGED <<toMcrt, mergeFeedback>>

(* decodeMergeSendProgressiveFrame(): decodeAll(), merge() of some tiles or all.
   Of a machine without an image there may be nothing to record.  Frames without
   feedback are left out. *)
MergeSends ==
  /\ Ready
  /\ frameFeedbackActive
  /\ decoded' = decoded \cup pending
  /\ pending' = {}
  /\ \E first, last \in Tiles(NumTile[display]) : \E op \in MergeOps :
       LET tiles == first .. last
       IN /\ tiles # {} /\ Encodes(op, tiles)
          /\ merged' = [t \in AllTiles |-> IF t \in tiles THEN decoded' ELSE merged[t]]
          /\ \/ FeedbackIfDue(tracker \o Decodes \o Merges(op, tiles))
             \/ decoded' = {} /\ FeedbackIfDue(tracker)
  /\ UNCHANGED <<machineVars, toMerge, display, frameFeedbackActive>>

Next ==
  \/ MachineEvaluates
  \/ MachineSends \/ MachineReceives \/ MachineStarts
  \/ OtherMachine \/ MergeReceives \/ MergeSends

Spec == Init /\ [][Next]_vars

(***************************************************************************)
(* Properties.                                                             *)
(***************************************************************************)

(* decodeMessage() "would simulate the merge action of Merge computation": when a
   feedback of the current frame has been evaluated mMergedFb is what the merge had
   of this machine in its image then, tile by tile, whatever older feedback was
   evaluated before; unless images were decoded early to save memory.  It is so for
   frames with an id that is newer than those before: of one that was begun again
   under its id startFrame() has emptied the cache, while feedback of the first run
   has that id, too, and the merge goes on from what it had. *)
MinusOneIsExact ==
  [][message # NoMessage /\ message' = NoMessage /\ ~outOfTable'
       /\ message.syncId = syncId /\ fresh /\ feedbackActiveRuntime /\ evicted = {}
     => mergedFb' = message.merged]_vars

(* Nothing a machine sent in this frame is lost for its minus-one image: each image
   is in the cache or in mDecodedFb; none is passed over as wasted data, also when the
   frame was begun again and the feedback is of its first run. *)
FrameIsWhole ==
  feedbackActiveRuntime => sentData \cup decodedFb = firstId .. (sendImageActionId - 1)

(* Only what the merge has decoded is in mDecodedFb, but for what was decoded early:
   feedback of an older frame takes nothing of this frame. *)
NeverAhead ==
  feedbackActiveRuntime /\ display <= syncId =>
    decodedFb \subseteq evicted \cup (IF display = syncId THEN decoded ELSE {})

(* A feedback image is built from the deltas of one frame. *)
FeedbackOfOneFrame ==
  message # NoMessage => feedbackFb = {message.syncId}

(* "simulate the merge action of Merge computation": the tiles the merge names are
   tiles of the frame buffer the machine merges into, as long as it has one. *)
TilesFit == feedbackActiveRuntime => ~outOfTable

(***************************************************************************)
(* The inductive invariant.  The ids of a frame pass, in their order, from *)
(* toMerge to pending, to the tracker, to feedback under way and to the    *)
(* feedback in evaluation; one that is still in the cache is on that way,  *)
(* or behind every id the machine will yet be told.                        *)
(***************************************************************************)

Actions == [op : DecodeOps, ids : SUBSET Ids, tiles : {{}}]
             \cup [op : MergeOps, ids : {{}}, tiles : SUBSET Nat]
Messages == [syncId : SyncIds, isStarted : BOOLEAN, actions : Seq(Actions),
             merged : [AllTiles -> SUBSET Ids]]

MachineTypeOK ==
  /\ feedbackActiveRuntime \in BOOLEAN
  /\ beforeInitialSnapshot \in BOOLEAN
  /\ outOfTable \in BOOLEAN
  /\ syncId \in SyncIds \cup {UNDEFINED} /\ newest \in SyncIds \cup {UNDEFINED}
  /\ fresh \in BOOLEAN /\ restarts \in Nat
  /\ sendImageActionId \in 0 .. MaxImages /\ firstId \in 0 .. MaxImages
  /\ sentData \subseteq Ids /\ started \in Ids \cup {UNDEFINED}
  /\ numTile \in Nat
  /\ decodedFb \subseteq Ids /\ mergedFb \in [AllTiles -> SUBSET Ids]
  /\ message \in Messages \cup {NoMessage}
  /\ lastAction \in DecodeOps \cup MergeOps \cup {"EOD"}
  /\ tileTbl \subseteq Nat
  /\ feedbackFb \subseteq SyncIds
  /\ evicted \subseteq Ids

TypeOK ==
  /\ MachineTypeOK
  /\ toMerge \in Seq([id : Ids, syncId : SyncIds])
  /\ toMcrt \in Seq(Messages)
  /\ display \in SyncIds \cup {UNDEFINED}
  /\ frameFeedbackActive \in BOOLEAN
  /\ pending \subseteq Ids /\ decoded \subseteq Ids
  /\ merged \in [AllTiles -> SUBSET Ids]
  /\ tracker \in Seq(Actions)
  /\ feedbackInitialized \in BOOLEAN
  /\ lastSentFeedbackSyncId \in Nat

Named(i, actions) == \E p \in 1 .. Len(actions) : i \in actions[p].ids
Told(i) == Named(i, message.actions) \/ \E k \in 1 .. Len(toMcrt) : Named(i, toMcrt[k].actions)
Noted(i) == Named(i, tracker)
OnTheWay(i) == \E k \in 1 .. Len(toMerge) : toMerge[k].id = i

InOrder(actions) ==
  \A p, q \in 1 .. Len(actions) : p < q =>
    \A i \in actions[p].ids, j \in actions[q].ids : i < j

SendingFollows ==
  /\ firstId <= sendImageActionId
  /\ started < sendImageActionId
  /\ fresh /\ beforeInitialSnapshot => firstId = sendImageActionId
  /\ syncId <= newest /\ (fresh => syncId = newest)
  /\ syncId = UNDEFINED => ~feedbackActiveRuntime
  /\ display = UNDEFINED => ~frameFeedbackActive
StartedIsFirst ==
  feedbackActiveRuntime /\ started \in sentData =>
    decodedFb = {} /\ \A i \in sentData : started <= i

ImagesInOrder ==
  \A k \in 1 .. Len(toMerge) :
    /\ toMerge[k].id < sendImageActionId
    /\ toMerge[k].syncId <= newest
    /\ firstId <= toMerge[k].id => toMerge[k].syncId = syncId
    /\ \A l \in 1 .. Len(toMerge) : k < l => toMerge[k].id < toMerge[l].id
ToldInOrder ==
  /\ InOrder(message.actions)
  /\ \A k \in 1 .. Len(toMcrt) :
       /\ InOrder(toMcrt[k].actions)
       /\ \A i, j \in Ids : Named(j, toMcrt[k].actions) =>
            /\ Named(i, message.actions) => i < j
            /\ \A l \in 1 .. k - 1 : Named(i, toMcrt[l].actions) => i < j
NotedInOrder == InOrder(tracker)
PassedInOrder ==
  \A i \in Ids :
    /\ Told(i) \/ Noted(i) \/ i \in pending =>
         i < sendImageActionId /\ \A j \in Ids : OnTheWay(j) => i < j
    /\ Told(i) \/ Noted(i) => \A j \in pending : i < j
    /\ Told(i) => \A j \in Ids : Noted(j) => i < j

CachedIsToldLater ==
  feedbackActiveRuntime =>
    \A i \in sentData, j \in Ids : Told(j) /\ i < j => Told(i)
CachedIsOnItsWay ==
  feedbackActiveRuntime /\ display <= syncId =>
    \A i \in sentData : Told(i) \/ Noted(i) \/ i \in pending \/ OnTheWay(i)
AheadIsEmpty ==
  display > newest => pending = {} /\ decoded = {} /\ \A i \in Ids : ~Noted(i)
ToldIsDecoded ==
  \A i \in firstId .. (MaxImages - 1) :
    /\ Noted(i) \/ i \in pending => display = syncId
    /\ display <= syncId /\ (Told(i) \/ Noted(i)) => display = syncId /\ i \in decoded

OneStartPerFrame ==
  /\ \A k \in 1 .. Len(toMcrt) : ~toMcrt[k].isStarted =>
       IF k = 1 THEN feedbackFb = {toMcrt[1].syncId} ELSE toMcrt[k - 1].syncId = toMcrt[k].syncId
  /\ ~feedbackInitialized =>
       IF toMcrt = <<>> THEN feedbackFb = {lastSentFeedbackSyncId}
       ELSE toMcrt[Len(toMcrt)].syncId = lastSentFeedbackSyncId

IInv ==
  /\ TypeOK
  /\ SendingFollows /\ FrameIsWhole /\ StartedIsFirst
  /\ ImagesInOrder /\ ToldInOrder /\ NotedInOrder /\ PassedInOrder
  /\ CachedIsToldLater /\ CachedIsOnItsWay /\ AheadIsEmpty /\ ToldIsDecoded
  /\ NeverAhead /\ OneStartPerFrame /\ FeedbackOfOneFrame

(***************************************************************************)
(* The replay.  What the machine has yet to evaluate is a sequence of      *)
(* feedback: the one in evaluation, those under way, and the one the merge *)
(* would send now.  Replayed from mDecodedFb and the merged tiles on, each *)
(* feedback of the frame gives the tiles the merge had when it sent it, as *)
(* long as nothing was decoded early.                                      *)
(***************************************************************************)

Feedbacks == [syncId : SyncIds \cup {UNDEFINED}, isStarted : BOOLEAN, actions : Seq(Actions),
              merged : [AllTiles -> SUBSET Ids]]
Unevaluated(msg, queue) == IF msg = NoMessage THEN queue ELSE <<msg>> \o queue
Recorded == [syncId |-> display, isStarted |-> feedbackIsStarted, actions |-> tracker, merged |-> merged]
Underway == Append(Unevaluated(message, toMcrt), Recorded)

Covers(action, n, t) == t \in (IF action.op = "MERGE_ALL_TILES" THEN Tiles(n) ELSE action.tiles)

(* Tile t goes from `before' to `after' when the actions are replayed on the deltas D,
   in a frame of n tiles: the last merge of t takes what is decoded by then. *)
Gives(actions, n, D, before, t, after) ==
  \/ /\ \A p \in 1 .. Len(actions) : ~Covers(actions[p], n, t)
     /\ after = before
  \/ \E p \in 1 .. Len(actions) :
       /\ Covers(actions[p], n, t)
       /\ \A q \in p + 1 .. Len(actions) : ~Covers(actions[q], n, t)
       /\ after = D \cup {i \in Ids : \E q \in 1 .. p : i \in actions[q].ids}

(* What is decoded, and merged, when the k-th feedback of w begins. *)
DecodedBefore(w, s, D, k) ==
  D \cup {i \in Ids : \E l \in 1 .. k - 1 : w[l].syncId = s /\ Named(i, w[l].actions)}
Shown(feedback, s) == IF feedback.syncId = s THEN feedback.merged ELSE Blank
ShownBefore(w, s, M, k) == IF k = 1 THEN M ELSE Shown(w[k - 1], s)

Replays(w, s, D, M) ==
  \A k \in 1 .. Len(w) : w[k].syncId = s =>
    \A t \in AllTiles :
      Gives(w[k].actions, NumTile[s], DecodedBefore(w, s, D, k), ShownBefore(w, s, M, k)[t], t, w[k].merged[t])

(* The feedback of a sequence is of ascending frames, and of a frame the machine has
   not begun it names no ids; in a fresh frame it names ids of its own frame only. *)
InSyncOrder(w) == \A k, l \in 1 .. Len(w) : k < l => w[k].syncId <= w[l].syncId
IdsFit(feedback, s, first, begun, isFresh) ==
  /\ feedback.syncId > begun => feedback.merged = Blank /\ \A i \in Ids : ~Named(i, feedback.actions)
  /\ isFresh =>
       \A i \in Ids : Named(i, feedback.actions) =>
         IF feedback.syncId = s THEN first <= i ELSE feedback.syncId < s /\ i < first

IdsOfTheirFrame ==
  /\ InSyncOrder(Underway)
  /\ \A k \in 1 .. Len(Underway) : IdsFit(Underway[k], syncId, firstId, newest, fresh)
  /\ fresh =>
       /\ \A k \in 1 .. Len(toMerge) : toMerge[k].syncId = syncId => firstId <= toMerge[k].id
       /\ display = syncId => \A i \in pending : firstId <= i
MergedIsDecoded == \A t \in AllTiles : merged[t] \subseteq decoded
EvaluationAgrees ==
  /\ message = NoMessage => lastAction = "EOD"
  /\ lastAction = "EOD" => tileTbl = {}
  /\ feedbackActiveRuntime /\ fresh => numTile = NumTile[syncId]

(* Feedback of an older frame finds nothing to do. *)
OldFindsNothing ==
  /\ decodedFb = {} => mergedFb = Blank
  /\ \A k \in 1 .. Len(Underway) : Underway[k].syncId < syncId => decodedFb = {}
ReplayIsExact ==
  /\ Replays(Underway, syncId, decodedFb, Merged)
  /\ display = syncId => decoded = DecodedBefore(Underway, syncId, decodedFb, Len(Underway) + 1)

ReplayInv ==
  /\ IInv
  /\ IdsOfTheirFrame /\ MergedIsDecoded /\ EvaluationAgrees
  /\ feedbackActiveRuntime /\ fresh /\ evicted = {} => OldFindsNothing /\ ReplayIsExact
===============================================================================
