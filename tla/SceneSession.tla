------------------------------ MODULE SceneSession ------------------------------
(***************************************************************************)
(* A client, progmcrt_dispatch, several progmcrt computations and the      *)
(* merge computation's way back for pick answers.                          *)
(*                                                                         *)
(* What the dispatch computation forwards reaches each machine in order,   *)
(* each in its own time; a ViewportMessage goes from the client to the     *)
(* machines directly.  The client numbers RDLMessages and GeometryData     *)
(* upwards and either all of its picks or none.                            *)
(***************************************************************************)
EXTENDS ProgMcrtDispatchComputation

CONSTANTS
  Machines,
  Followed,   (* the machines whose scenes are followed; of the others only *)
              (* the picks they answer                                      *)
  Regions,    (* ROI viewports                                              *)
  Viewports,  (* image sizes other than the default                         *)
  RdlWindows, (* region and viewport that an RDLMessage may set: records of *)
              (* both, "kept" where it sets none                            *)
  MaxSyncId,  (* bound: RDLMessages and GeometryData sent                   *)
  MaxJson,    (* bound: JSONMessages and ViewportMessages sent              *)
  MaxSent     (* bound: messages sent                                       *)

ASSUME SessionAssumption ==
  /\ Machines # {} /\ Followed \subseteq Machines
  /\ "none" \notin Regions
  /\ RdlWindows \subseteq [roi : Regions \cup {"none", "kept"},
                            viewport : Viewports \cup {"default", "kept"}]
  /\ MaxSyncId \in Nat /\ MaxJson \in Nat /\ MaxSent \in Nat

VARIABLES
  driver,      (* the machines' RenderContextDrivers: module SceneUpdate    *)
  channel,     (* dispatch to machine: messages on their way                *)
  direct,      (* client to machine: ViewportMessages on their way          *)
  answers,     (* machine to merge: PICK_DATA messages on their way         *)
  lastPickDataMessageSyncId,  (* mLastPickDataMessageSyncId of the merge    *)
  clientNumbers,  (* the client gives its picks a syncId                    *)
  nextSyncId,  (* the client's next RDLMessage or GeometryData              *)
  jsonSent,    (* JSONMessages and ViewportMessages sent                    *)
  (* history *)
  sceneOf,     (* what the client had sent when it used each sync id        *)
  setUp,       (* it has sent a RENDER_SETUP                                *)
  asked,       (* picks sent                                                *)
  answered     (* picks whose answers reached the client, in order          *)

driverVars == <<driver, channel, direct, answers>>
clientVars == <<clientNumbers, nextSyncId, jsonSent, sceneOf, setUp, asked>>
mergeVars == <<lastPickDataMessageSyncId, answered>>
vars == <<dispatchVars, driverVars, clientVars, mergeVars>>

Scene == INSTANCE SceneUpdate WITH Machines <- Followed

SyncIds == 0 .. MaxSyncId - 1
ClientScene == [rdl |-> {}, geometry |-> UNDEFINED]

Init ==
  /\ DispatchInit
  /\ Scene!DriverInit
  /\ channel = [m \in Machines |-> <<>>]
  /\ direct = [m \in Followed |-> <<>>]
  /\ answers = [m \in Machines |-> <<>>]
  /\ lastPickDataMessageSyncId = UNDEFINED
  /\ clientNumbers = FALSE
  /\ nextSyncId = 0
  /\ jsonSent = 0
  /\ sceneOf = [s \in {UNDEFINED} |-> ClientScene]
  /\ setUp = FALSE
  /\ asked = 0
  /\ answered = <<>>

(***************************************************************************)
(* The client.                                                             *)
(***************************************************************************)

(* The client's view of its scene after one more message. *)
after(scene, msg) ==
  CASE msg.kind = "RDL" -> [scene EXCEPT !.rdl = @ \cup {msg.arg}]
    [] msg.kind = "RDL_FORCE_RELOAD" -> [ClientScene EXCEPT !.rdl = {msg.arg}]
    [] msg.kind = "GEOMETRY" -> [scene EXCEPT !.geometry = msg.arg]

NextSceneMessages ==
  [kind : RdlKinds, arg : {nextSyncId}, window : RdlWindows]
    \cup [kind : {"GEOMETRY"}, arg : {nextSyncId}]

SendScene(msg) ==
  /\ nextSyncId \in SyncIds
  /\ nextSyncId + jsonSent < MaxSent
  /\ onMessage(msg)
  /\ nextSyncId' = nextSyncId + 1
  /\ sceneOf' = [s \in DOMAIN sceneOf \cup {nextSyncId} |->
                   IF s = nextSyncId THEN after(sceneOf[s - 1], msg) ELSE sceneOf[s]]
  /\ UNCHANGED <<driverVars, mergeVars, clientNumbers, jsonSent, setUp, asked>>

SendJson(msg) ==
  /\ jsonSent < MaxJson
  /\ nextSyncId + jsonSent < MaxSent
  /\ jsonSent' = jsonSent + 1
  /\ onMessage(msg)
  /\ setUp' = (setUp \/ msg.kind = "SETUP")
  /\ UNCHANGED <<driverVars, mergeVars, nextSyncId, sceneOf>>

(* Whether it numbers its picks shows with the first one. *)
SendPick ==
  /\ asked > 0 => UNCHANGED clientNumbers
  /\ clientNumbers' \in BOOLEAN
  /\ SendJson([kind |-> "PICK", arg |-> IF clientNumbers' THEN asked ELSE UNDEFINED,
               key |-> asked])
  /\ asked' = asked + 1

SendOther ==
  \E kind \in {"INVALIDATE", "START", "STOP", "SETUP", "ROI_DISABLE"} :
    /\ SendJson([kind |-> kind, arg |-> UNDEFINED])
    /\ UNCHANGED <<clientNumbers, asked>>

SendRoi ==
  \E region \in Regions :
    /\ SendJson([kind |-> "ROI_SET", arg |-> region])
    /\ UNCHANGED <<clientNumbers, asked>>

SendViewport ==
  /\ jsonSent < MaxJson
  /\ nextSyncId + jsonSent < MaxSent
  /\ jsonSent' = jsonSent + 1
  /\ \E viewport \in Viewports \cup {Scene!DEFAULT} :
       direct' = [m \in Followed |->
                    Append(direct[m], [kind |-> "VIEWPORT", arg |-> viewport])]
  /\ UNCHANGED <<dispatchVars, driver, channel, answers, mergeVars, clientNumbers,
                 nextSyncId, sceneOf, setUp, asked>>

Client ==
  \/ \E msg \in NextSceneMessages : SendScene(msg)
  \/ SendPick
  \/ SendOther
  \/ SendRoi
  \/ SendViewport

IsPick(msg) == msg.kind = "PICK"

(* onIdle() of the dispatch computation *)
Dispatch ==
  /\ onIdle
  /\ channel' = [m \in Machines |-> channel[m] \o
                   (IF m \in Followed THEN Forwarded ELSE SelectSeq(Forwarded, IsPick))]
  /\ UNCHANGED <<driver, direct, answers, clientVars, mergeVars>>

(***************************************************************************)
(* The machines.                                                           *)
(***************************************************************************)

(* evalPickMessage(): answered at once, whatever the machine is doing. *)
evalPickMessage(m, msg) ==
  /\ answers' = [answers EXCEPT ![m] = Append(@, msg)]
  /\ UNCHANGED driver

(* onMessageMain() and onJSONMessage() of ProgMcrtComputation *)
handle(m, msg) ==
  \/ msg.kind = "PICK" /\ evalPickMessage(m, msg)
  \/ /\ \/ msg.kind = "GEOMETRY" /\ Scene!enqGeometryMessage(m, msg)
        \/ msg.kind \in RdlKinds \cup {"START", "VIEWPORT"} \cup Scene!RoiKinds
             /\ Scene!enqUpdateMessage(m, msg)
        \/ msg.kind = "SETUP" /\ Scene!enqRenderSetupMessage(m, msg)
        \/ msg.kind = "STOP" /\ Scene!StopMessage(m)
        \/ msg.kind = "INVALIDATE" /\ Scene!evalInvalidateResources(m)
     /\ UNCHANGED answers

Receive(m) ==
  \/ /\ channel[m] # <<>>
     /\ channel' = [channel EXCEPT ![m] = Tail(@)]
     /\ handle(m, Head(channel[m]))
     /\ UNCHANGED <<dispatchVars, direct, clientVars, mergeVars>>
  \/ /\ m \in Followed
     /\ direct[m] # <<>>
     /\ direct' = [direct EXCEPT ![m] = Tail(@)]
     /\ handle(m, Head(direct[m]))
     /\ UNCHANGED <<dispatchVars, channel, clientVars, mergeVars>>

Machine(m) ==
  /\ m \in Followed
  /\ \/ Scene!applyUpdatesAndRestartRender(m)
     \/ Scene!renderPrepFinished(m)
     \/ Scene!sendDelta(m)
  /\ UNCHANGED <<dispatchVars, channel, direct, answers, clientVars, mergeVars>>

(***************************************************************************)
(* The merge computation.                                                  *)
(***************************************************************************)

(* Faulty variant: the same pick of another machine passes too. *)
isNewPickAgain(answer) == answer.arg >= lastPickDataMessageSyncId

isNewPick(answer) == answer.arg > lastPickDataMessageSyncId

onJSONMessage(m) ==
  /\ answers[m] # <<>>
  /\ answers' = [answers EXCEPT ![m] = Tail(@)]
  /\ IF isNewPick(Head(answers[m]))
     THEN /\ lastPickDataMessageSyncId' = Head(answers[m]).arg
          /\ answered' = Append(answered, Head(answers[m]).key)
     ELSE UNCHANGED mergeVars
  /\ UNCHANGED <<dispatchVars, driver, channel, direct, clientVars>>

Next ==
  \/ Client
  \/ Dispatch
  \/ \E m \in Machines : Receive(m) \/ Machine(m) \/ onJSONMessage(m)

Spec == Init /\ [][Next]_vars

(***************************************************************************)
(* Properties.                                                             *)
(***************************************************************************)

(* As long as RUNTIME-VERIFY is silent and no RENDER_SETUP was sent, a frame
   shows exactly the RDL messages the client had sent when it used the
   frame's sync id, so that the merge may combine the images of machines that
   batched, skipped, canceled and rebuilt differently.  Geometry is as new,
   unless the scene was rebuilt, which loses it, or reloaded, which it may
   outlive. *)
VerifiedMeansExact ==
  "SYNC_ID" \notin unverified /\ ~setUp =>
    \A m \in Followed : Scene!inFrame(driver[m]) =>
      LET sent == sceneOf[driver[m].syncId] IN
      /\ driver[m].scene.rdl = sent.rdl
      /\ \/ driver[m].scene.geometry = sent.geometry
         \/ driver[m].rebuilt
         \/ sent.geometry = UNDEFINED

(* preprocessQueuedMessage() "removes unnecessary messages": the messages it
   leaves lead where all of them would have led.  What the sender has been
   told may differ where it need not know the scene: of the size of a rebuilt
   or a new context (a ViewportMessage that changes nothing does not tell it,
   one that changes something may have been removed), and of a region that
   an RDLMessage set (an ROI message that sets the same does not tell it). *)
withoutDisabled(d) ==
  Scene!processAll(Scene!recover(d), d.queue, Scene!active(d.queue))
withEverything(d) ==
  Scene!processAll(Scene!recover(d), d.queue, DOMAIN d.queue)

RegionOfRdl(d) == d.regionSet /\ d.scene.roi = d.backup.roi
ViewportOfBackup(d) == d.rebuilt /\ d.scene.viewport = d.backup.viewport
NewContext(d) == ~d.initialized /\ d.scene.viewport = Scene!DEFAULT

PreprocessKeepsOutcome ==
  \A m \in Followed :
    LET kept == withoutDisabled(driver[m])
        all == withEverything(driver[m])
    IN /\ kept = [all EXCEPT !.senderViewport = kept.senderViewport, !.senderRoi = kept.senderRoi]
       /\ kept.senderViewport = all.senderViewport \/ ViewportOfBackup(kept) \/ NewContext(kept)
       /\ kept.senderRoi = all.senderRoi \/ RegionOfRdl(kept)

(* A frame is prepared on what a canceled renderPrep left only if a geometry
   update alone had been applied to that; any other update is applied to the
   scene rebuilt from the backup, however long after the cancel it comes. *)
CanceledIsRebuilt ==
  \A m \in Followed :
    Scene!inFrame(driver[m]) /\ driver[m].dirty => driver[m].patched

(* During a frame what is sent has the size and region that is rendered.  A
   scene rebuilt from the backup may have another viewport than the one
   before, and a new context has lost its region; a region the sender does
   not know of is rendered only if RDLMessages set it. *)
SenderAgrees ==
  \A m \in Followed : Scene!inFrame(driver[m]) =>
    LET d == driver[m] IN
    /\ d.senderViewport = d.scene.viewport \/ ViewportOfBackup(d)
    /\ d.scene.roi \in {d.senderRoi, Scene!NONE} \/ RegionOfRdl(d)

(* Every pick is answered to the client once and in order although every
   machine answers it: nothing is missing when nothing is on its way. *)
NothingOnItsWay ==
  /\ ~HasUpdates
  /\ \A m \in Machines : channel[m] = <<>> /\ answers[m] = <<>>

PicksAnswered ==
  /\ \A i \in DOMAIN answered : answered[i] = i - 1
  /\ NothingOnItsWay => Len(answered) = asked

(***************************************************************************)
(* The inductive invariant behind PicksAnswered.                           *)
(***************************************************************************)

PickMessage == [kind : {"PICK"}, arg : Nat \cup {UNDEFINED}, key : Nat]
RdlMessage == [kind : RdlKinds, arg : Nat, window : RdlWindows]
GeometryMessage == [kind : {"GEOMETRY"}, arg : Nat]
SceneMessage == RdlMessage \cup GeometryMessage
OtherMessage == [kind : {"INVALIDATE", "START", "STOP", "SETUP", "ROI_DISABLE"}, arg : Int]
RoiMessage == [kind : {"ROI_SET"}, arg : Regions]
JsonMessage == PickMessage \cup OtherMessage \cup RoiMessage
ViewportMessage == [kind : {"VIEWPORT"}, arg : Viewports \cup {Scene!DEFAULT}]

(* Every pick that was forwarded has a number. *)
TypeOK ==
  /\ geometryUpdate \in Seq(SceneMessage)
  /\ rdlUpdates \in Seq(SceneMessage)
  /\ jsonUpdates \in Seq(JsonMessage)
  /\ jsonSyncId \in Nat \cup {UNDEFINED}
  /\ channel \in [Machines -> Seq(SceneMessage \cup JsonMessage)]
  /\ direct \in [Followed -> Seq(ViewportMessage)]
  /\ answers \in [Machines -> Seq(PickMessage)]
  /\ lastPickDataMessageSyncId \in Nat \cup {UNDEFINED}
  /\ clientNumbers \in BOOLEAN
  /\ asked \in Nat
  /\ answered \in Seq(Nat)

Picks(msgs) == {msgs[i] : i \in {j \in DOMAIN msgs : msgs[j].kind = "PICK"}}
OnTheWay(m) == Picks(channel[m]) \cup Picks(answers[m])

InOrder(msgs) ==
  \A i, j \in DOMAIN msgs :
    i < j /\ msgs[i].kind = "PICK" /\ msgs[j].kind = "PICK" => msgs[i].key < msgs[j].key

(* The picks not yet answered wait, in order, in the dispatch computation... *)
PicksGathered ==
  /\ InOrder(jsonUpdates)
  /\ \A p \in Picks(jsonUpdates) :
       /\ Len(answered) <= p.key /\ p.key < asked
       /\ \A m \in Machines : \A q \in OnTheWay(m) : q.key < p.key

(* ... on the way to each machine, and on the way from it, ... *)
PicksForwarded ==
  \A m \in Machines :
    /\ InOrder(channel[m]) /\ InOrder(answers[m])
    /\ \A p \in OnTheWay(m) : p.key < asked
    /\ \A p \in Picks(answers[m]), q \in Picks(channel[m]) : p.key < q.key

(* ... and none of them is missing anywhere. *)
NoneIsMissing ==
  \A m \in Machines : \A k \in Len(answered) .. asked - 1 :
    \E p \in OnTheWay(m) \cup Picks(jsonUpdates) : p.key = k

(* Their numbers say in which order they were asked for ... *)
NumbersAgree ==
  /\ \A m, n \in Machines : \A p \in OnTheWay(m), q \in OnTheWay(n) :
       p.key < q.key <=> p.arg < q.arg
  /\ \A m \in Machines : \A p \in OnTheWay(m) :
       p.key < Len(answered) <=> p.arg <= lastPickDataMessageSyncId

(* ... and will do so for those that wait to be forwarded. *)
NumbersAhead ==
  IF clientNumbers
  THEN /\ lastPickDataMessageSyncId = Len(answered) - 1
       /\ \A p \in Picks(jsonUpdates) : p.arg = p.key
       /\ \A m \in Machines : \A p \in OnTheWay(m) : p.arg = p.key
  ELSE /\ lastPickDataMessageSyncId <= jsonSyncId
       /\ \A p \in Picks(jsonUpdates) : p.arg = UNDEFINED
       /\ \A m \in Machines : \A p \in OnTheWay(m) : p.arg \in 0 .. jsonSyncId

AnsweredInOrder ==
  /\ Len(answered) <= asked
  /\ Len(answered) = 0 => lastPickDataMessageSyncId = UNDEFINED
  /\ \A i \in DOMAIN answered : answered[i] = i - 1

IInv ==
  /\ TypeOK
  /\ PicksGathered
  /\ PicksForwarded
  /\ NoneIsMissing
  /\ NumbersAgree
  /\ NumbersAhead
  /\ AnsweredInOrder

(***************************************************************************)
(* The inductive invariant behind the properties of scenes.                *)
(***************************************************************************)

SceneKinds == RdlKinds \cup {"GEOMETRY"}
QueuedMessage ==
  RdlMessage \cup RoiMessage \cup ViewportMessage
    \cup [kind : {"START", "SETUP", "ROI_DISABLE"}, arg : Int]
SceneContext ==
  [rdl : SUBSET Nat, geometry : Nat \cup {UNDEFINED},
   roi : Regions \cup {Scene!NONE}, viewport : Viewports \cup {Scene!DEFAULT}]
Driver ==
  [scene : SceneContext, initialized : BOOLEAN, backup : SceneContext,
   senderRoi : Regions \cup {Scene!NONE}, senderViewport : Viewports \cup {Scene!DEFAULT},
   syncId : Nat, queue : Seq(QueuedMessage), geometry : Nat \cup {UNDEFINED},
   lastResult : {"FINISHED", "CANCELED"}, phase : Scene!Phases, ahead : BOOLEAN,
   reset : BOOLEAN, dirty : BOOLEAN, patched : BOOLEAN, rebuilt : BOOLEAN,
   regionSet : BOOLEAN]

ScenesTypeOK ==
  /\ driver \in [Followed -> Driver]
  /\ DOMAIN channel = Machines
  /\ \A m \in Followed : channel[m] \in Seq(SceneMessage \cup JsonMessage)
  /\ direct \in [Followed -> Seq(ViewportMessage)]
  /\ geometryUpdate \in Seq(GeometryMessage)
  /\ rdlUpdates \in Seq(RdlMessage)
  /\ jsonUpdates \in Seq(JsonMessage)
  /\ jsonSyncId \in Nat \cup {UNDEFINED}
  /\ asked \in Nat

(* Whatever was sent: a reload or a RENDER_SETUP is the first in a queue, a
   frame has an initialized context, ... *)
QueueStarts(d) ==
  /\ d.phase # "stopped" => d.initialized
  /\ \A i \in 1 .. Len(d.queue) : d.queue[i].kind \in {"RDL_FORCE_RELOAD", "SETUP"} => i = 1

(* ... what a cancel left is marked until it is replaced, ... *)
CancelIsKnown(d) ==
  d.dirty => d.patched \/ (d.lastResult = "CANCELED" /\ d.phase = "stopped")

(* ... and the sender is told of size and region with the scene, but for what
   came with the backup or by RDL. *)
SenderFollows(d) ==
  /\ d.senderViewport = d.scene.viewport \/ ViewportOfBackup(d) \/ NewContext(d)
  /\ d.scene.roi \in {d.senderRoi, Scene!NONE} \/ RegionOfRdl(d)
  /\ d.backup.roi = Scene!NONE \/ d.regionSet

(* The sync ids of RDLMessages and of GeometryData, by what the client had
   sent when it used each id. *)
RdlIds(sent) == {s \in DOMAIN sent : s \in sent[s].rdl}
GeometryIds(sent) == {s \in DOMAIN sent : s # UNDEFINED /\ sent[s].geometry = s}
NoneBetween(ids, s, t) == \A u \in ids : ~(s < u /\ u <= t)

HistoryAgrees(sent, next) ==
  /\ next \in Nat /\ DOMAIN sent = UNDEFINED .. next - 1
  /\ sent[UNDEFINED] = ClientScene
  /\ \A s \in DOMAIN sent :
       /\ sent[s] \in [rdl : SUBSET Nat, geometry : Int]
       /\ sent[s].geometry >= UNDEFINED /\ sent[s].geometry <= s
       /\ \A r \in sent[s].rdl : r <= s
  /\ \A s, t \in DOMAIN sent : s <= t =>
       /\ NoneBetween(RdlIds(sent), s, t) => sent[t].rdl = sent[s].rdl
       /\ NoneBetween(GeometryIds(sent), s, t) =>
            sent[t].geometry \in {sent[s].geometry, UNDEFINED}

(* The scene messages of a way, in the order of their ids. *)
Ids(msgs, kinds) == {msgs[i].arg : i \in {j \in DOMAIN msgs : msgs[j].kind \in kinds}}
Ascending(msgs) ==
  \A i, j \in DOMAIN msgs :
    i < j /\ msgs[i].kind \in SceneKinds /\ msgs[j].kind \in SceneKinds =>
      msgs[i].arg < msgs[j].arg
Recorded(msgs, sent) ==
  \A i \in DOMAIN msgs : msgs[i].kind \in SceneKinds =>
    /\ msgs[i].arg \in Nat /\ msgs[i].arg \in DOMAIN sent
    /\ sent[msgs[i].arg] = after(sent[msgs[i].arg - 1], msgs[i])

(* What the dispatch computation has not forwarded is gathered in it, but for
   geometry that newer geometry has replaced. *)
GatheredAgrees ==
  /\ lastSyncId \in DOMAIN sceneOf
  /\ Len(geometryUpdate) <= 1
  /\ Recorded(geometryUpdate, sceneOf) /\ Recorded(rdlUpdates, sceneOf)
  /\ \A s \in Ids(geometryUpdate, SceneKinds) \cup Ids(rdlUpdates, SceneKinds) : s > lastSyncId
  /\ \A r \in RdlIds(sceneOf) : r > lastSyncId => r \in Ids(rdlUpdates, RdlKinds)
  /\ \A g \in GeometryIds(sceneOf) : g > lastSyncId =>
       \E h \in Ids(geometryUpdate, SceneKinds) : g <= h

(* The sync id up to which a machine's context has everything. *)
Applied(d) == IF d.initialized THEN d.syncId ELSE UNDEFINED

NoSetUp(msgs) == \A i \in DOMAIN msgs : msgs[i].kind # "SETUP"

(* The ids are in order from the context to the queue and the geometry that
   waits, and on to what is on its way to the machine, ... *)
IdsInOrder(d, way, last, sent) ==
  /\ NoSetUp(way) /\ NoSetUp(d.queue)
  /\ Recorded(way, sent) /\ Recorded(d.queue, sent)
  /\ Ascending(way) /\ Ascending(d.queue)
  /\ Applied(d) <= last
  /\ d.geometry # UNDEFINED => d.geometry \in GeometryIds(sent) /\ Applied(d) < d.geometry
  /\ d.geometry <= last
  /\ \A r \in Ids(d.queue, RdlKinds) : Applied(d) < r /\ r <= last
  /\ \A s \in Ids(way, SceneKinds) :
       /\ Applied(d) < s /\ d.geometry < s /\ s <= last
       /\ \A r \in Ids(d.queue, RdlKinds) : r < s

(* ... none is missing on that way, save for RDLMessages that a reload behind
   them makes unnecessary and geometry that newer geometry has replaced, ... *)
ReloadedAt(queue, r) == \E i \in DOMAIN queue : queue[i].kind = "RDL_FORCE_RELOAD" /\ r < queue[i].arg

NothingMissing(d, way, last, sent) ==
  /\ \A r \in RdlIds(sent) : Applied(d) < r /\ r <= last =>
       r \in Ids(d.queue, RdlKinds) \cup Ids(way, RdlKinds) \/ ReloadedAt(d.queue, r)
  /\ \A g \in GeometryIds(sent) : Applied(d) < g /\ g <= last =>
       \/ g <= d.geometry
       \/ \E h \in Ids(way, {"GEOMETRY"}) : g <= h /\ NoneBetween(RdlIds(sent), g, h)

(* ... and the context, like the backup, is what the client had sent by then. *)
ContentsAgree(d, sent) ==
  /\ d.scene.rdl = sent[Applied(d)].rdl
  /\ d.backup.rdl = d.scene.rdl
  /\ d.scene.geometry = sent[Applied(d)].geometry
       \/ d.rebuilt \/ sent[Applied(d)].geometry = UNDEFINED
  /\ d.lastResult = "CANCELED" => d.initialized

SceneAgrees(d, way, last, sent) ==
  IdsInOrder(d, way, last, sent) /\ NothingMissing(d, way, last, sent) /\ ContentsAgree(d, sent)

ScenesInv ==
  /\ ScenesTypeOK /\ HistoryAgrees(sceneOf, nextSyncId) /\ GatheredAgrees
  /\ \A m \in Followed :
       /\ QueueStarts(driver[m]) /\ CancelIsKnown(driver[m]) /\ SenderFollows(driver[m])
  /\ "SYNC_ID" \notin unverified /\ ~setUp =>
       /\ NoSetUp(jsonUpdates)
       /\ \A m \in Followed : SceneAgrees(driver[m], channel[m], lastSyncId, sceneOf)

(* Both, as the runs check them. *)
SessionInv == IInv /\ ScenesInv

================================================================================
