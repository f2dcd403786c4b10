---------------------- MODULE ProgMcrtDispatchComputation ----------------------
(***************************************************************************)
(* computation/progmcrt_dispatch/ProgMcrtDispatchComputation.cc: gathers   *)
(* what the client sends and forwards it to all machines once in a frame   *)
(* interval: the newest GeometryData, then every RDLMessage, then every    *)
(* JSONMessage.                                                            *)
(*                                                                         *)
(* A message is a record of its kind and its argument: the sync id of a    *)
(* GeometryData or RDLMessage, the region of an ROI message, the syncId of *)
(* a pick or UNDEFINED if the client did not number it.  "key" says which  *)
(* pick it is, whatever its number.  Left out: "continuous", which only    *)
(* adds a message nobody handles, and the debug console.                   *)
(***************************************************************************)
EXTENDS Integers, Sequences, SequencesExt, FiniteSets

UNDEFINED == -1

VARIABLES
  geometryUpdate,  (* mGeometryUpdate, a sequence of at most one message      *)
  rdlUpdates,      (* mRdlUpdates                                             *)
  jsonUpdates,     (* mJsonUpdates                                            *)
  lastSyncId,      (* mLastSyncId                                             *)
  lastJsonSyncId,  (* mLastJsonSyncId                                         *)
  jsonSyncId,      (* mJsonSyncId                                             *)
  unverified       (* history: RUNTIME-VERIFY errors of either kind           *)

dispatchVars == <<geometryUpdate, rdlUpdates, jsonUpdates, lastSyncId,
                  lastJsonSyncId, jsonSyncId, unverified>>

DispatchInit ==
  /\ geometryUpdate = <<>>
  /\ rdlUpdates = <<>>
  /\ jsonUpdates = <<>>
  /\ lastSyncId = UNDEFINED
  /\ lastJsonSyncId = UNDEFINED
  /\ jsonSyncId = UNDEFINED
  /\ unverified = {}

NumberedKinds == {"PICK", "INVALIDATE"}
RdlKinds == {"RDL", "RDL_FORCE_RELOAD"}

HasUpdates == geometryUpdate \o rdlUpdates \o jsonUpdates # <<>>

(* onMessage(): a GeometryData replaces the one before. *)
onMessage(msg) ==
  /\ geometryUpdate' = IF msg.kind = "GEOMETRY" THEN <<msg>> ELSE geometryUpdate
  /\ rdlUpdates' = IF msg.kind \in RdlKinds THEN Append(rdlUpdates, msg) ELSE rdlUpdates
  /\ jsonUpdates' = IF msg.kind \in RdlKinds \cup {"GEOMETRY"} THEN jsonUpdates
                    ELSE Append(jsonUpdates, msg)
  /\ UNCHANGED <<lastSyncId, lastJsonSyncId, jsonSyncId, unverified>>

(***************************************************************************)
(* onIdle(), when the interval is over.                                    *)
(***************************************************************************)

(* runtimeVerifySyncId(), runtimeVerifyJsonSyncId(): each id must be larger
   than the largest before it; an error is logged and the message sent. *)
Verified(last, msgs) ==
  \A i \in DOMAIN msgs :
    /\ msgs[i].arg > last
    /\ \A j \in 1 .. i - 1 : msgs[i].arg > msgs[j].arg

LastVerified(last, msgs) ==
  CHOOSE id \in {last} \cup {msgs[i].arg : i \in DOMAIN msgs} :
    /\ id >= last
    /\ \A i \in DOMAIN msgs : id >= msgs[i].arg

NeedsNumber(msg) == msg.kind \in NumberedKinds /\ msg.arg = UNDEFINED
HasNumber(msg) == msg.kind \in NumberedKinds /\ msg.arg # UNDEFINED

(* How many of the first n JSON messages have been numbered here. *)
Numbered(n) == Cardinality({i \in 1 .. n : NeedsNumber(jsonUpdates[i])})

(* Faulty variant: mJsonSyncId++. *)
numberedJsonLate ==
  [i \in DOMAIN jsonUpdates |->
     IF NeedsNumber(jsonUpdates[i])
     THEN [jsonUpdates[i] EXCEPT !.arg = jsonSyncId + Numbered(i) - 1]
     ELSE jsonUpdates[i]]

(* Picks and invalidations without a syncId get one, ++mJsonSyncId. *)
numberedJson ==
  [i \in DOMAIN jsonUpdates |->
     IF NeedsNumber(jsonUpdates[i])
     THEN [jsonUpdates[i] EXCEPT !.arg = jsonSyncId + Numbered(i)]
     ELSE jsonUpdates[i]]

(* Faulty variant: RDL messages first. *)
rdlThenGeometry == rdlUpdates \o geometryUpdate

geometryThenRdl == geometryUpdate \o rdlUpdates

(* What is sent, in this order. *)
Forwarded == geometryThenRdl \o numberedJson

onIdle ==
  /\ HasUpdates
  /\ unverified' = unverified
       \cup (IF Verified(lastSyncId, geometryThenRdl) THEN {} ELSE {"SYNC_ID"})
       \cup (IF Verified(lastJsonSyncId, SelectSeq(jsonUpdates, HasNumber)) THEN {}
             ELSE {"JSON_SYNC_ID"})
  /\ lastSyncId' = LastVerified(lastSyncId, geometryThenRdl)
  /\ lastJsonSyncId' = LastVerified(lastJsonSyncId, SelectSeq(jsonUpdates, HasNumber))
  /\ jsonSyncId' = jsonSyncId + Numbered(Len(jsonUpdates))
  /\ geometryUpdate' = <<>>
  /\ rdlUpdates' = <<>>
  /\ jsonUpdates' = <<>>

================================================================================
