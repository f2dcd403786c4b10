---------------------------- MODULE DeltaImageCache ----------------------------
(***************************************************************************)
(* lib/engine/mcrt/DeltaImageCache.cc and RenderContextDriver_feedback.cc: *)
(* a machine remembers the images it has sent to the merge computation and *)
(* replays on them what the merge did, as each ProgressiveFeedback tells.  *)
(*                                                                         *)
(* An image is a delta, known by its sendImageActionId; a frame buffer is  *)
(* the set of the deltas in it, for each tile.  As ids only grow mSentData *)
(* is a set: back() is its least element.  Time is not modelled: how many  *)
(* of the oldest images mMaxCachedDataTimeLength evicts is any number.     *)
(*                                                                         *)
(* All of it runs on the arras thread.  decodeMessage() is one action per  *)
(* callback of its decodeLoop(); no other action of the machine comes      *)
(* between.  Not modelled: mDebugMode, the parser commands, the values of  *)
(* pixels, latency; and feedbackFbViewportCheck(), which clears mFeedbackFb *)
(* once more when the feedback comes in another size.                      *)
(***************************************************************************)
EXTENDS Integers, Sequences

CONSTANTS
  SyncIds,         (* the frames of the session, from 0 on                   *)
  NumTile,         (* getNumTile() for the viewport each frame first has     *)
  MaxImages,       (* bound: images sent in the session                      *)
  MaxRestarts      (* bound: frames begun with an id that is not newer       *)

ASSUME CacheAssumption ==
  /\ SyncIds \subseteq Nat
  /\ NumTile \in [SyncIds -> Nat \ {0}]
  /\ MaxImages \in Nat /\ MaxRestarts \in Nat

VARIABLES
  feedbackActiveRuntime,     (* mFeedbackActiveRuntime                       *)
  syncId,                    (* mSyncId                                      *)
  newest,                    (* history: the newest id a frame has begun with *)
  fresh,                     (* history: this frame began with a newer one   *)
  restarts,                  (* history: how many did not                    *)
  beforeInitialSnapshot,     (* mBeforeInitialSnapshot                       *)
  sendImageActionId,         (* mSendImageActionId                           *)
  firstId,                   (* history: the first id in the cache since startFrame() *)
  sentData,                  (* mSentData                                    *)
  started,                   (* the one of sentData with status STARTED      *)
  numTile,                   (* getNumTile(): from mWidth, mHeight           *)
  decodedFb, mergedFb,       (* mDecodedFb, mMergedFb                        *)
  message,                   (* the feedback in evaluation                   *)
  lastAction,                (* lastAction                                   *)
  tileTbl,                   (* tileTbl: the tiles set                       *)
  feedbackFb,                (* mFeedbackFb: the frames whose deltas are in it *)
  evicted,                   (* history: images decoded early in this frame  *)
  outOfTable                 (* history: a tile that is not in tileTbl       *)

UNDEFINED == -1
Ids == 0 .. MaxImages - 1
Tiles(n) == 0 .. n - 1
Sizes == {NumTile[s] : s \in SyncIds}
AllTiles == UNION {Tiles(n) : n \in Sizes}
Blank == [t \in AllTiles |-> {}]
DecodeOps == {"DECODE_SINGLE", "DECODE_RANGE"}
MergeOps == {"MERGE_TILE_SINGLE", "MERGE_TILE_RANGE", "MERGE_ALL_TILES"}
NoMessage == [syncId |-> UNDEFINED, actions |-> <<>>]

frame == <<syncId, newest, fresh, restarts, beforeInitialSnapshot, sendImageActionId, firstId>>
cache == <<sentData, started, numTile, decodedFb, mergedFb>>
evaluation == <<message, lastAction, tileTbl>>
machineVars == <<feedbackActiveRuntime, frame, cache, evaluation, feedbackFb, evicted, outOfTable>>

MachineInit ==
  /\ feedbackActiveRuntime = FALSE
  /\ syncId = UNDEFINED /\ newest = UNDEFINED /\ fresh = TRUE /\ restarts = 0
  /\ beforeInitialSnapshot = FALSE
  /\ sendImageActionId = 0 /\ firstId = 0
  /\ sentData = {} /\ started = UNDEFINED
  /\ numTile = 0
  /\ decodedFb = {} /\ mergedFb = Blank
  /\ message = NoMessage /\ lastAction = "EOD" /\ tileTbl = {}
  /\ feedbackFb = {}
  /\ evicted = {}
  /\ outOfTable = FALSE

(* The arras thread is not inside decodeMessage(), and was not undone by it. *)
Ready == message = NoMessage /\ ~outOfTable

(***************************************************************************)
(* Frames and images.                                                      *)
(***************************************************************************)

(* Faulty variant: what was cached for the frame before is kept. *)
resetFbOnly(n) ==
  /\ UNCHANGED <<sentData, started>>
  /\ numTile' = n
  /\ decodedFb' = {} /\ mergedFb' = Blank

reset(n) ==
  /\ sentData' = {} /\ started' = UNDEFINED
  /\ numTile' = n
  /\ decodedFb' = {} /\ mergedFb' = Blank

(* A frame begins.  Its id is mostly newer than those before; but INVALIDATE_RESOURCES,
   ROI, VIEWPORT and START messages begin a frame again under the id there is, the
   third in another size, and an RDL message may go back to an older one.
   mFeedbackActiveUserInput, set by a command at any time, is looked at here only. *)
Begins(s, n) ==
  /\ \/ s > newest /\ n = NumTile[s] /\ UNCHANGED restarts
     \/ s <= newest /\ restarts < MaxRestarts /\ restarts' = restarts + 1
  /\ syncId' = s
  /\ newest' = IF s > newest THEN s ELSE newest
  /\ fresh' = (s > newest)
  /\ beforeInitialSnapshot' = TRUE
  /\ firstId' = sendImageActionId
  /\ evicted' = {}
  /\ feedbackActiveRuntime' \in BOOLEAN

startFrame ==
  /\ Ready
  /\ \E s \in SyncIds, n \in Sizes :
       /\ Begins(s, n)
       /\ IF feedbackActiveRuntime' THEN reset(n) ELSE UNCHANGED cache
  /\ UNCHANGED <<sendImageActionId, evaluation, feedbackFb, outOfTable>>

(* decodeSingleItem() for several items, from the oldest to the newest: STARTED
   clears both buffers. *)
DecodeItems(items) ==
  /\ decodedFb' = IF started \in items THEN items ELSE decodedFb \cup items
  /\ mergedFb' = IF started \in items THEN Blank ELSE mergedFb

(* enqueueMessage(): STARTED cleans up; the oldest are decoded when they are too
   old, never the newest. *)
enqueueMessage(id, isStarted) ==
  IF isStarted
  THEN /\ sentData' = {id} /\ started' = id
       /\ decodedFb' = {} /\ mergedFb' = Blank
       /\ UNCHANGED <<numTile, evicted>>
  ELSE \E keep \in 0 .. id :
         LET old == {i \in sentData : i < keep}
         IN /\ DecodeItems(old)
            /\ sentData' = (sentData \ old) \cup {id}
            /\ evicted' = evicted \cup old
            /\ UNCHANGED <<started, numTile>>

(* sendProgressiveFrameMessage(): a frame that is complete at its first image is
   FINISHED and not STARTED. *)
Sending(isStarted) ==
  /\ Ready
  /\ syncId # UNDEFINED
  /\ sendImageActionId < MaxImages
  /\ isStarted => beforeInitialSnapshot
  /\ sendImageActionId' = sendImageActionId + 1

SendImage(isStarted) ==
  /\ Sending(isStarted)
  /\ beforeInitialSnapshot' = FALSE
  /\ firstId' = IF isStarted THEN sendImageActionId ELSE firstId
  /\ IF feedbackActiveRuntime
     THEN enqueueMessage(sendImageActionId, isStarted)
     ELSE UNCHANGED <<cache, evicted>>
  /\ UNCHANGED <<feedbackActiveRuntime, syncId, newest, fresh, restarts, evaluation, feedbackFb, outOfTable>>

(* callBackSend() has handled a deferred INVALIDATE_RESOURCES: the frame has begun
   again when the image of the frame before is put into the cache. *)
SendImageAnew(isStarted) ==
  /\ Sending(isStarted)
  /\ \E n \in Sizes :
       /\ Begins(syncId, n)
       /\ IF feedbackActiveRuntime'
          THEN /\ sentData' = {sendImageActionId}
               /\ started' = IF isStarted THEN sendImageActionId ELSE UNDEFINED
               /\ numTile' = n
               /\ decodedFb' = {} /\ mergedFb' = Blank
          ELSE UNCHANGED cache
  /\ UNCHANGED <<evaluation, feedbackFb, outOfTable>>

(***************************************************************************)
(* evalProgressiveFeedbackMessage().  An action of the merge is a record   *)
(* with the ids or the tiles it names, one or those from a first to a last. *)
(***************************************************************************)

(* decodeFeedbackImageData(), decodeMergeActionTracker(): without an action of
   this machine nothing more is done.  tileTbl is clear at first: tileTblSetAll(FALSE)
   writes from 0 to getNumTile() - 1, an unsigned number. *)
evalProgressiveFeedbackMessage(msg) ==
  /\ Ready
  /\ feedbackFb' = IF msg.isStarted THEN {msg.syncId} ELSE feedbackFb \cup {msg.syncId}
  /\ IF msg.actions = <<>>
     THEN UNCHANGED <<message, outOfTable>>
     ELSE /\ message' = msg
          /\ outOfTable' = (numTile = 0)
  /\ UNCHANGED <<feedbackActiveRuntime, frame, cache, lastAction, tileTbl, evicted>>

Evaluating(op) ==
  /\ message # NoMessage /\ ~outOfTable
  /\ message.actions # <<>>
  /\ Head(message.actions).op = op
  /\ message' = [message EXCEPT !.actions = Tail(@)]

priorActionWasMerge == lastAction \in MergeOps
priorActionWasDecode == lastAction \in DecodeOps

(* mergeTiles() *)
Merged == [t \in AllTiles |-> IF priorActionWasMerge /\ t \in tileTbl THEN decodedFb ELSE mergedFb[t]]

(* Faulty variant: the tiles of the last merge are forgotten when a decode follows. *)
MergedAtEndOnly == mergedFb

MergedBefore == Merged

(* Faulty variant: the oldest image is taken even if it is newer than the target. *)
NewerFound(ids) == {i \in sentData : \E j \in ids : i >= j}

Found(ids) == sentData \cap ids

(* decodeSingleItemById() for each of the ids: what is older than one of them and
   still there is dropped, with a warning. *)
decodeItemsById(ids) ==
  LET found == Found(ids)
  IN /\ sentData' = {i \in sentData : \A j \in ids : i > j}
     /\ decodedFb' = IF started \in found THEN found ELSE decodedFb \cup found
     /\ mergedFb' = IF started \in found THEN Blank ELSE MergedBefore

DecodeFunc(op) ==
  /\ Evaluating(op)
  /\ decodeItemsById(Head(message.actions).ids)
  /\ lastAction' = op
  /\ UNCHANGED <<feedbackActiveRuntime, frame, started, numTile, tileTbl, feedbackFb, evicted, outOfTable>>

(* tileTblSetRange() after tileTblSetAll(FALSE) if a decode came before *)
MergeTileFunc(op, tiles) ==
  /\ Evaluating(op)
  /\ tileTbl' = tiles \cup (IF priorActionWasDecode THEN {} ELSE tileTbl)
  /\ lastAction' = op
  /\ outOfTable' = ~(tiles \subseteq Tiles(numTile))
  /\ UNCHANGED <<feedbackActiveRuntime, frame, cache, feedbackFb, evicted>>

decodeSingleFunc == DecodeFunc("DECODE_SINGLE")
decodeRangeFunc == DecodeFunc("DECODE_RANGE")
mergeTileSingleFunc == MergeTileFunc("MERGE_TILE_SINGLE", Head(message.actions).tiles)
mergeTileRangeFunc == MergeTileFunc("MERGE_TILE_RANGE", Head(message.actions).tiles)
mergeAllTilesFunc == MergeTileFunc("MERGE_ALL_TILES", Tiles(numTile))

(* eodFunc; constructFeedbackMinusOne() then takes mMergedFb from mFeedbackFb, unless
   their sizes differ. *)
eodFunc ==
  /\ message # NoMessage /\ ~outOfTable
  /\ message.actions = <<>>
  /\ mergedFb' = Merged
  /\ message' = NoMessage
  /\ lastAction' = "EOD"
  /\ tileTbl' = {}
  /\ UNCHANGED <<feedbackActiveRuntime, frame, sentData, started, numTile, decodedFb,
                 feedbackFb, evicted, outOfTable>>

decodeMessage ==
  \/ decodeSingleFunc \/ decodeRangeFunc
  \/ mergeTileSingleFunc \/ mergeTileRangeFunc \/ mergeAllTilesFunc
  \/ eodFunc
===============================================================================
