-------------------------- MODULE SceneContentsProofs --------------------------
(***************************************************************************)
(* Proofs about the scenes of SceneSession, for every number of machines,  *)
(* followed or not, of messages, regions and viewports, and for queues of  *)
(* any length.                                                             *)
(***************************************************************************)
EXTENDS SceneSessionProofs, WellFoundedInduction

(***************************************************************************)
(* Induction over the naturals, for sets.                                  *)
(***************************************************************************)

LEMMA SetInduction ==
  ASSUME NEW S, 0 \in S, \A n \in Nat : n \in S => n + 1 \in S
  PROVE  \A n \in Nat : n \in S
<1> DEFINE R == OpToRel(<, Nat)
           T == {n \in Nat : n \notin S}
<1>1. IsWellFoundedOn(R, Nat) BY NatLessThanWellFounded
<1>2. \A x, y \in Nat : <<x, y>> \in R <=> x < y BY DEF OpToRel
<1>3. SUFFICES ASSUME T # {} PROVE FALSE OBVIOUS
<1> HIDE DEF R
<1>4. PICK x \in T : \A y \in T : ~ (<<y, x>> \in R)
  <2> T \subseteq Nat OBVIOUS
  <2> HIDE DEF T
  <2> QED BY <1>1, <1>3, WFMin
<1>5. x \in Nat /\ x # 0 OBVIOUS
<1>6. x - 1 \in Nat /\ x - 1 < x /\ x - 1 + 1 = x BY <1>5
<1>7. x - 1 \in S BY <1>2, <1>4, <1>5, <1>6
<1> QED BY <1>4, <1>6, <1>7

LEMMA SetInductionUpTo ==
  ASSUME NEW k \in Nat, NEW S, 0 \in S, \A n \in 1 .. k : n - 1 \in S => n \in S
  PROVE  \A n \in 0 .. k : n \in S
<1> DEFINE T == {n \in Nat : n <= k => n \in S}
<1>1. 0 \in T OBVIOUS
<1>2. ASSUME NEW n \in Nat, n \in T PROVE n + 1 \in T
  <2>1. CASE n + 1 <= k
    <3>1. n + 1 \in 1 .. k /\ n + 1 - 1 = n /\ n \in S BY <1>2, <2>1
    <3> QED BY <3>1
  <2> QED BY <2>1
<1>3. \A n \in Nat : n \in T
  <2> HIDE DEF T
  <2> QED BY <1>1, <1>2, SetInduction
<1> QED BY <1>3

(***************************************************************************)
(* Processing the queued messages.                                         *)
(***************************************************************************)

(* processed() is what its recursive definition says. *)
LEMMA ProcessedFacts ==
  ASSUME NEW d, NEW queue, Len(queue) \in Nat, NEW enabled
  PROVE  LET run == Scene!processed(d, queue, enabled) IN
         /\ run[0] = d
         /\ \A n \in 1 .. Len(queue) :
              run[n] = IF n \in enabled THEN Scene!process(run[n - 1], queue[n]) ELSE run[n - 1]
<1> DEFINE Body(g, k) ==
             [n \in 0 .. k |-> IF n = 0 THEN d
                               ELSE IF n \in enabled THEN Scene!process(g[n - 1], queue[n])
                               ELSE g[n - 1]]
           run == Scene!processed(d, queue, enabled)
           S == {k \in Nat : \E g : g = Body(g, k)}
<1>1. run = CHOOSE g : g = Body(g, Len(queue)) BY DEF Scene!processed
<1>2. 0 \in S
  <2> DEFINE g == [n \in 0 .. 0 |-> d]
  <2>1. g = Body(g, 0) BY Z3
  <2> HIDE DEF g
  <2> QED BY <2>1
<1>3. ASSUME NEW k \in Nat, k \in S PROVE k + 1 \in S
  <2>1. PICK g : g = Body(g, k) BY <1>3
  <2> DEFINE h == [n \in 0 .. k + 1 |->
                     IF n = k + 1
                     THEN IF n \in enabled THEN Scene!process(g[k], queue[n]) ELSE g[k]
                     ELSE g[n]]
  <2>2. ASSUME NEW n \in 0 .. k + 1 PROVE h[n] = Body(h, k + 1)[n]
    <3>1. CASE n = k + 1 BY <3>1
    <3>2. CASE n = 0 BY <3>2, <2>1
    <3>3. CASE n \in 1 .. k BY <3>3, <2>1
    <3> QED BY <3>1, <3>2, <3>3
  <2>3. h = Body(h, k + 1)
    <3> HIDE DEF h
    <3>1. h = [n \in 0 .. k + 1 |-> h[n]] BY DEF h
    <3> QED BY <3>1, <2>2
  <2> HIDE DEF h
  <2> QED BY <2>3
<1>4. Len(queue) \in S
  <2> HIDE DEF S
  <2> QED BY <1>2, <1>3, SetInduction
<1>5. run = Body(run, Len(queue)) BY <1>1, <1>4
<1> HIDE DEF run
<1>6. run[0] = d BY <1>5
<1>7. ASSUME NEW n \in 1 .. Len(queue)
      PROVE  run[n] = IF n \in enabled THEN Scene!process(run[n - 1], queue[n]) ELSE run[n - 1]
  BY <1>5
<1> QED BY <1>6, <1>7 DEF run

(* What processing a message never touches, and what only a new context clears. *)
Rest(d) == <<d.queue, d.geometry, d.lastResult, d.phase, d.ahead, d.reset>>
Marks(d) == <<d.dirty, d.patched, d.rebuilt>>

(* A context reset for whatever reason. *)
LEMMA ResetFacts ==
  ASSUME NEW d \in Driver
  PROVE  LET e == Scene!resetRenderContext(d) IN
         /\ e \in Driver /\ Rest(e) = Rest(d)
         /\ e.scene = Scene!EMPTY /\ ~e.initialized /\ ~e.dirty /\ ~e.patched /\ ~e.rebuilt
         /\ e.backup = d.backup /\ e.regionSet = d.regionSet /\ e.syncId = d.syncId
         /\ e.senderRoi = d.senderRoi /\ e.senderViewport = d.senderViewport
<1>1. Scene!EMPTY \in SceneContext
  BY DEF Scene!EMPTY, Scene!UNDEFINED, Scene!NONE, Scene!DEFAULT, SceneContext, UNDEFINED
<1> QED BY <1>1 DEF Scene!resetRenderContext, Driver, Rest

LEMMA EmptyFacts ==
  /\ Scene!EMPTY \in SceneContext /\ Scene!EMPTY.rdl = {} /\ Scene!EMPTY.geometry = UNDEFINED
  /\ Scene!EMPTY.roi = Scene!NONE /\ Scene!EMPTY.viewport = Scene!DEFAULT
  BY DEF Scene!EMPTY, Scene!UNDEFINED, Scene!NONE, Scene!DEFAULT, SceneContext, UNDEFINED

(* A context that becomes initialized, with its buffers. *)
LEMMA BuffersFacts ==
  ASSUME NEW u \in Driver
  PROVE  LET e == Scene!initializeBuffers([u EXCEPT !.initialized = TRUE]) IN
         /\ e \in Driver /\ Rest(e) = Rest(u) /\ Marks(e) = Marks(u)
         /\ e.scene = u.scene /\ e.backup = u.backup /\ e.senderViewport = u.scene.viewport
         /\ e.senderRoi = u.senderRoi /\ e.syncId = u.syncId /\ e.initialized
         /\ e.regionSet = u.regionSet
<1> DEFINE i == [u EXCEPT !.initialized = TRUE]
<1>1. /\ i \in Driver /\ Rest(i) = Rest(u) /\ Marks(i) = Marks(u)
      /\ i.scene = u.scene /\ i.backup = u.backup /\ i.senderRoi = u.senderRoi
      /\ i.syncId = u.syncId /\ i.initialized /\ i.regionSet = u.regionSet
  BY DEF Driver, Rest, Marks
<1> HIDE DEF i
<1>2. i.scene.viewport \in Viewports \cup {Scene!DEFAULT} BY <1>1 DEF Driver, SceneContext
<1> QED BY <1>1, <1>2 DEF Scene!initializeBuffers, Driver, Rest, Marks, i

(* What an RDLMessage sets in a context: the scene and the backup alike. *)
LEMMA SetFacts ==
  ASSUME NEW context \in SceneContext, NEW msg \in RdlMessage
  PROVE  LET e == Scene!setBy(msg, context) IN
         /\ e \in SceneContext
         /\ e.rdl = context.rdl \cup {msg.arg} /\ e.geometry = context.geometry
         /\ e.roi = IF msg.window.roi = Scene!KEPT THEN context.roi ELSE msg.window.roi
         /\ e.viewport = IF msg.window.viewport = Scene!KEPT THEN context.viewport
                         ELSE msg.window.viewport
<1> DEFINE roi == IF msg.window.roi = Scene!KEPT THEN context.roi ELSE msg.window.roi
           viewport == IF msg.window.viewport = Scene!KEPT THEN context.viewport
                       ELSE msg.window.viewport
           rdl == context.rdl \cup {msg.arg}
<1>1. /\ msg.arg \in Nat /\ msg.window \in RdlWindows BY DEF RdlMessage
<1>2. /\ msg.window.roi \in Regions \cup {Scene!NONE, Scene!KEPT}
      /\ msg.window.viewport \in Viewports \cup {Scene!DEFAULT, Scene!KEPT}
  BY <1>1, SessionAssumption DEF Scene!NONE, Scene!KEPT, Scene!DEFAULT
<1>3. /\ context.rdl \in SUBSET Nat /\ context.roi \in Regions \cup {Scene!NONE}
      /\ context.viewport \in Viewports \cup {Scene!DEFAULT}
  BY DEF SceneContext
<1>4. /\ rdl \in SUBSET Nat /\ roi \in Regions \cup {Scene!NONE}
      /\ viewport \in Viewports \cup {Scene!DEFAULT}
  BY <1>1, <1>2, <1>3
<1>5. Scene!setBy(msg, context) =
        [context EXCEPT !.rdl = rdl, !.roi = roi, !.viewport = viewport]
  BY DEF Scene!setBy
<1> HIDE DEF rdl, roi, viewport
<1>6. /\ Scene!setBy(msg, context) \in SceneContext
      /\ Scene!setBy(msg, context).rdl = rdl
      /\ Scene!setBy(msg, context).geometry = context.geometry
      /\ Scene!setBy(msg, context).roi = roi /\ Scene!setBy(msg, context).viewport = viewport
  BY <1>4, <1>5 DEF SceneContext
<1> QED BY <1>6 DEF rdl, roi, viewport

(* A driver whose scene an RDLMessage has updated, and its backup with it. *)
UpdatedBy(d, e, msg) ==
  /\ e.scene = Scene!setBy(msg, d.scene) /\ e.backup = Scene!setBy(msg, d.backup)
  /\ e.regionSet = (d.regionSet \/ msg.window.roi # Scene!KEPT)
  /\ e.senderRoi = d.senderRoi /\ e.syncId = msg.arg

LEMMA UpdateFacts ==
  ASSUME NEW d \in Driver, NEW msg \in RdlMessage
  PROVE  LET e == Scene!updateScene(d, msg) IN
         /\ e \in Driver /\ Rest(e) = Rest(d) /\ Marks(e) = Marks(d)
         /\ UpdatedBy(d, e, msg) /\ e.initialized = d.initialized
<1> DEFINE e == Scene!updateScene(d, msg)
           scene == Scene!setBy(msg, d.scene)
           backup == Scene!setBy(msg, d.backup)
           regionSet == d.regionSet \/ msg.window.roi # Scene!KEPT
<1>1. e = [d EXCEPT !.syncId = msg.arg, !.scene = scene, !.backup = backup, !.regionSet = regionSet]
  BY DEF Scene!updateScene
<1>2. d.scene \in SceneContext /\ d.backup \in SceneContext /\ msg.arg \in Nat
  BY DEF Driver, RdlMessage
<1>3. scene \in SceneContext /\ backup \in SceneContext BY <1>2, SetFacts
<1>4. regionSet \in BOOLEAN BY DEF Driver
<1> HIDE DEF e, scene, backup, regionSet
<1>5. /\ e \in Driver /\ Rest(e) = Rest(d) /\ Marks(e) = Marks(d)
      /\ e.scene = scene /\ e.backup = backup /\ e.regionSet = regionSet
      /\ e.senderRoi = d.senderRoi /\ e.syncId = msg.arg /\ e.initialized = d.initialized
  BY <1>1, <1>2, <1>3, <1>4 DEF Driver, Rest, Marks
<1> QED BY <1>5 DEF UpdatedBy, e, scene, backup, regionSet

LEMMA RdlProcessed ==
  ASSUME NEW d \in Driver, NEW msg \in RdlMessage, msg.kind = "RDL"
  PROVE  LET e == Scene!process(d, msg) IN
         /\ e \in Driver /\ Rest(e) = Rest(d) /\ Marks(e) = Marks(d)
         /\ UpdatedBy(d, e, msg) /\ e.senderViewport = e.scene.viewport /\ e.initialized
<1> DEFINE u == Scene!updateScene(d, msg)
           i == [u EXCEPT !.initialized = TRUE]
           e == Scene!process(d, msg)
<1>1. e = Scene!processRdlMessage(d, msg) /\ Scene!reloads(d, msg) = d
  BY DEF Scene!process, Scene!reloads, Scene!RoiKinds
<1>2. e = IF u.initialized /\ u.senderViewport = u.scene.viewport THEN u
          ELSE Scene!initializeBuffers(i)
  BY <1>1 DEF Scene!processRdlMessage
<1>3. u \in Driver /\ Rest(u) = Rest(d) /\ Marks(u) = Marks(d) /\ UpdatedBy(d, u, msg)
  BY UpdateFacts
<1> HIDE DEF u, e
<1>4. CASE u.initialized /\ u.senderViewport = u.scene.viewport BY <1>2, <1>3, <1>4 DEF e
<1>5. CASE ~(u.initialized /\ u.senderViewport = u.scene.viewport)
  <2>1. e = Scene!initializeBuffers(i) BY <1>2, <1>5
  <2>2. /\ e \in Driver /\ Rest(e) = Rest(u) /\ Marks(e) = Marks(u)
        /\ e.scene = u.scene /\ e.backup = u.backup /\ e.senderViewport = u.scene.viewport
        /\ e.senderRoi = u.senderRoi /\ e.syncId = u.syncId /\ e.initialized
        /\ e.regionSet = u.regionSet
    BY <1>3, <2>1, BuffersFacts
  <2> QED BY <1>3, <2>2 DEF UpdatedBy, e
<1> QED BY <1>4, <1>5

(* A driver with the context and the backup of a reload. *)
LEMMA ReloadProcessed ==
  ASSUME NEW d \in Driver, NEW msg \in RdlMessage, msg.kind = "RDL_FORCE_RELOAD"
  PROVE  LET e == Scene!process(d, msg) IN
         /\ e \in Driver /\ Rest(e) = Rest(d) /\ ~e.dirty /\ ~e.patched /\ ~e.rebuilt
         /\ e.scene = Scene!setBy(msg, Scene!EMPTY) /\ e.backup = e.scene
         /\ e.regionSet = (msg.window.roi # Scene!KEPT)
         /\ e.senderRoi = d.senderRoi /\ e.syncId = msg.arg
         /\ e.senderViewport = e.scene.viewport /\ e.initialized
<1> DEFINE r == Scene!resetRenderContext(d)
           c == [r EXCEPT !.backup = Scene!EMPTY, !.regionSet = FALSE]
           u == Scene!updateScene(c, msg)
           i == [u EXCEPT !.initialized = TRUE]
           e == Scene!process(d, msg)
<1>1. e = Scene!processRdlMessage(d, msg) /\ Scene!reloads(d, msg) = c
  BY DEF Scene!process, Scene!reloads, Scene!RoiKinds
<1>2. e = IF u.initialized /\ u.senderViewport = u.scene.viewport THEN u
          ELSE Scene!initializeBuffers(i)
  BY <1>1 DEF Scene!processRdlMessage
<1>3. /\ c \in Driver /\ Rest(c) = Rest(d) /\ ~c.dirty /\ ~c.patched /\ ~c.rebuilt
      /\ c.scene = Scene!EMPTY /\ c.backup = Scene!EMPTY /\ ~c.initialized
      /\ c.senderRoi = d.senderRoi /\ c.regionSet = FALSE
  <2> HIDE DEF r
  <2>1. r \in Driver /\ Rest(r) = Rest(d) /\ ~r.dirty /\ ~r.patched /\ ~r.rebuilt
        /\ r.scene = Scene!EMPTY /\ ~r.initialized /\ r.senderRoi = d.senderRoi
    BY ResetFacts DEF r
  <2> QED BY <2>1, EmptyFacts DEF Driver, Rest
<1> HIDE DEF c
<1>4. /\ u \in Driver /\ Rest(u) = Rest(c) /\ Marks(u) = Marks(c) /\ UpdatedBy(c, u, msg)
      /\ u.initialized = c.initialized
  BY <1>3, UpdateFacts
<1> HIDE DEF u, e
<1>5. e = Scene!initializeBuffers(i) BY <1>2, <1>3, <1>4
<1>6. /\ e \in Driver /\ Rest(e) = Rest(u) /\ Marks(e) = Marks(u)
      /\ e.scene = u.scene /\ e.backup = u.backup /\ e.senderViewport = u.scene.viewport
      /\ e.senderRoi = u.senderRoi /\ e.syncId = u.syncId /\ e.initialized
      /\ e.regionSet = u.regionSet
  BY <1>4, <1>5, BuffersFacts
<1> HIDE DEF i
<1>7. Marks(e) = Marks(c) /\ Rest(e) = Rest(d) BY <1>3, <1>4, <1>6
<1>8. ~e.dirty /\ ~e.patched /\ ~e.rebuilt BY <1>3, <1>7 DEF Marks
<1> QED BY <1>3, <1>4, <1>6, <1>7, <1>8 DEF UpdatedBy, e

LEMMA SetupProcessed ==
  ASSUME NEW d \in Driver, NEW msg, msg.kind = "SETUP"
  PROVE  Scene!process(d, msg) = Scene!resetRenderContext(d)
  BY DEF Scene!process, Scene!processRenderSetupMessage, Scene!RoiKinds

LEMMA StartProcessed ==
  ASSUME NEW d \in Driver, NEW msg, msg.kind = "START"
  PROVE  Scene!process(d, msg) = d
  BY DEF Scene!process, Scene!RoiKinds

LEMMA RoiProcessed ==
  ASSUME NEW d \in Driver, NEW msg, msg.kind \in Scene!RoiKinds,
         msg.kind = "ROI_SET" => msg.arg \in Regions
  PROVE  LET e == Scene!process(d, msg)
             region == IF msg.kind = "ROI_SET" THEN msg.arg ELSE Scene!NONE IN
         /\ e \in Driver /\ Rest(e) = Rest(d) /\ Marks(e) = Marks(d)
         /\ e.scene.rdl = d.scene.rdl /\ e.backup = d.backup
         /\ e.scene.geometry = d.scene.geometry /\ e.scene.viewport = d.scene.viewport
         /\ e.senderViewport = d.senderViewport /\ e.syncId = d.syncId
         /\ e.initialized = d.initialized /\ e.regionSet = d.regionSet
         /\ e.scene.roi = region
         /\ e.senderRoi = region \/ (region # Scene!NONE /\ d.scene.roi = region /\ e.senderRoi = d.senderRoi)
<1> DEFINE e == Scene!process(d, msg)
           region == IF msg.kind = "ROI_SET" THEN msg.arg ELSE Scene!NONE
           u == [d EXCEPT !.scene.roi = region, !.senderRoi = region]
<1>1. e = Scene!processROIMessage(d, msg) BY DEF Scene!process, Scene!RoiKinds
<1>2. e = u \/ (d.scene.roi = region /\ msg.kind = "ROI_SET" /\ e = d)
  BY <1>1 DEF Scene!processROIMessage, Scene!setRoi, Scene!RoiKinds
<1>3. region \in Regions \cup {Scene!NONE} /\ (msg.kind = "ROI_SET" => region # Scene!NONE)
  BY SessionAssumption DEF Scene!NONE
<1> HIDE DEF region, e
<1>4. /\ u \in Driver /\ Rest(u) = Rest(d) /\ Marks(u) = Marks(d)
      /\ u.scene.rdl = d.scene.rdl /\ u.backup = d.backup
      /\ u.scene.geometry = d.scene.geometry /\ u.scene.viewport = d.scene.viewport
      /\ u.senderViewport = d.senderViewport /\ u.syncId = d.syncId
      /\ u.initialized = d.initialized /\ u.regionSet = d.regionSet
      /\ u.scene.roi = region /\ u.senderRoi = region
  BY <1>3 DEF Driver, SceneContext, Rest, Marks
<1> HIDE DEF u
<1> QED BY <1>2, <1>3, <1>4 DEF e, region

LEMMA ViewportProcessed ==
  ASSUME NEW d \in Driver, NEW msg, msg.kind = "VIEWPORT", msg.arg \in Viewports \cup {Scene!DEFAULT}
  PROVE  LET e == Scene!process(d, msg) IN
         /\ e \in Driver /\ Rest(e) = Rest(d) /\ Marks(e) = Marks(d)
         /\ e.scene.rdl = d.scene.rdl /\ e.backup = d.backup
         /\ e.scene.geometry = d.scene.geometry /\ e.scene.roi = d.scene.roi
         /\ e.senderRoi = d.senderRoi /\ e.syncId = d.syncId /\ e.initialized = d.initialized
         /\ e.regionSet = d.regionSet /\ e.scene.viewport = msg.arg
         /\ e.senderViewport = IF d.scene.viewport = msg.arg THEN d.senderViewport ELSE msg.arg
<1> DEFINE e == Scene!process(d, msg)
           v == [d EXCEPT !.scene.viewport = msg.arg]
<1>1. e = Scene!processViewportMessage(d, msg) BY DEF Scene!process, Scene!RoiKinds
<1>2. e = IF d.scene.viewport = msg.arg THEN d ELSE Scene!initializeBuffers(v)
  BY <1>1 DEF Scene!processViewportMessage
<1> HIDE DEF e
<1>3. /\ v \in Driver /\ Rest(v) = Rest(d) /\ Marks(v) = Marks(d)
      /\ v.scene.rdl = d.scene.rdl /\ v.backup = d.backup
      /\ v.scene.geometry = d.scene.geometry /\ v.scene.viewport = msg.arg
      /\ v.scene.roi = d.scene.roi /\ v.senderRoi = d.senderRoi /\ v.syncId = d.syncId
      /\ v.initialized = d.initialized /\ v.regionSet = d.regionSet
  BY DEF Driver, SceneContext, Rest, Marks
<1> HIDE DEF v
<1> DEFINE u == [v EXCEPT !.senderViewport = v.scene.viewport]
<1>4. /\ u \in Driver /\ Rest(u) = Rest(v) /\ Marks(u) = Marks(v)
      /\ u.scene = v.scene /\ u.backup = v.backup /\ u.senderRoi = v.senderRoi
      /\ u.syncId = v.syncId /\ u.initialized = v.initialized /\ u.senderViewport = msg.arg
      /\ u.regionSet = v.regionSet
  BY <1>3 DEF Driver, Rest, Marks
<1>5. Scene!initializeBuffers(v) = u BY DEF Scene!initializeBuffers
<1> HIDE DEF u
<1> QED BY <1>2, <1>3, <1>4, <1>5 DEF e

(***************************************************************************)
(* What holds of a driver whatever was sent to it.                         *)
(***************************************************************************)

DriverOK(d) == d \in Driver /\ QueueStarts(d) /\ CancelIsKnown(d) /\ SenderFollows(d)

LEMMA QueuedKinds ==
  ASSUME NEW msg \in QueuedMessage
  PROVE  \/ msg.kind = "RDL" /\ msg \in RdlMessage /\ msg.arg \in Nat
         \/ msg.kind = "RDL_FORCE_RELOAD" /\ msg \in RdlMessage /\ msg.arg \in Nat
         \/ msg.kind = "SETUP"
         \/ msg.kind = "START"
         \/ msg.kind \in Scene!RoiKinds /\ (msg.kind = "ROI_SET" => msg.arg \in Regions)
         \/ msg.kind = "VIEWPORT" /\ msg.arg \in Viewports \cup {Scene!DEFAULT}
  BY DEF QueuedMessage, RdlMessage, RoiMessage, ViewportMessage, RdlKinds, Scene!RoiKinds

(* A region that an RDLMessage leaves alone stays what it is to the sender. *)
LEMMA WindowFollows ==
  ASSUME NEW d \in Driver, SenderFollows(d), NEW msg \in RdlMessage, NEW e, UpdatedBy(d, e, msg)
  PROVE  /\ e.scene.roi \in {e.senderRoi, Scene!NONE} \/ RegionOfRdl(e)
         /\ e.backup.roi = Scene!NONE \/ e.regionSet
<1>1. d.scene \in SceneContext /\ d.backup \in SceneContext BY DEF Driver
<1>2. /\ e.scene.roi = IF msg.window.roi = Scene!KEPT THEN d.scene.roi ELSE msg.window.roi
      /\ e.backup.roi = IF msg.window.roi = Scene!KEPT THEN d.backup.roi ELSE msg.window.roi
      /\ e.regionSet = (d.regionSet \/ msg.window.roi # Scene!KEPT) /\ e.senderRoi = d.senderRoi
  BY <1>1, SetFacts DEF UpdatedBy
<1>3. CASE msg.window.roi = Scene!KEPT BY <1>2, <1>3 DEF SenderFollows, RegionOfRdl
<1>4. CASE msg.window.roi # Scene!KEPT BY <1>2, <1>4 DEF RegionOfRdl
<1> QED BY <1>3, <1>4

(* Processing a message keeps the sender told, and the marks of a cancel
   unless the context is a new one. *)
LEMMA ProcessKeeps ==
  ASSUME NEW d \in Driver, SenderFollows(d), NEW msg \in QueuedMessage
  PROVE  LET e == Scene!process(d, msg) IN
         /\ e \in Driver /\ Rest(e) = Rest(d) /\ SenderFollows(e)
         /\ Marks(e) = Marks(d) \/ ~e.dirty
         /\ msg.kind = "RDL_FORCE_RELOAD" => ~e.dirty
<1> DEFINE e == Scene!process(d, msg)
<1>1. CASE msg.kind = "RDL" /\ msg \in RdlMessage
  <2>1. /\ e \in Driver /\ Rest(e) = Rest(d) /\ Marks(e) = Marks(d)
        /\ UpdatedBy(d, e, msg) /\ e.senderViewport = e.scene.viewport
    BY <1>1, RdlProcessed
  <2>2. /\ e.scene.roi \in {e.senderRoi, Scene!NONE} \/ RegionOfRdl(e)
        /\ e.backup.roi = Scene!NONE \/ e.regionSet
    BY <1>1, <2>1, WindowFollows
  <2> QED BY <1>1, <2>1, <2>2 DEF SenderFollows
<1>2. CASE msg.kind = "RDL_FORCE_RELOAD" /\ msg \in RdlMessage
  <2>1. /\ e \in Driver /\ Rest(e) = Rest(d) /\ ~e.dirty
        /\ e.scene = Scene!setBy(msg, Scene!EMPTY) /\ e.backup = e.scene
        /\ e.regionSet = (msg.window.roi # Scene!KEPT) /\ e.senderViewport = e.scene.viewport
    BY <1>2, ReloadProcessed
  <2>2. e.scene.roi = Scene!NONE \/ e.regionSet BY <1>2, <2>1, EmptyFacts, SetFacts
  <2> QED BY <1>2, <2>1, <2>2 DEF SenderFollows, RegionOfRdl
<1>3. CASE msg.kind = "SETUP"
  <2>1. e = Scene!resetRenderContext(d) BY <1>3, SetupProcessed
  <2>2. e \in Driver /\ Rest(e) = Rest(d) /\ e.scene = Scene!EMPTY /\ ~e.initialized /\ ~e.dirty
        /\ e.backup = d.backup /\ e.regionSet = d.regionSet
    BY <2>1, ResetFacts
  <2> QED BY <1>3, <2>2, EmptyFacts DEF SenderFollows, NewContext
<1>4. CASE msg.kind = "START"
  <2>1. e = d BY <1>4, StartProcessed
  <2> QED BY <1>4, <2>1
<1>5. CASE msg.kind \in Scene!RoiKinds /\ (msg.kind = "ROI_SET" => msg.arg \in Regions)
  <2> DEFINE region == IF msg.kind = "ROI_SET" THEN msg.arg ELSE Scene!NONE
  <2>1. d.scene.roi \in {d.senderRoi, Scene!NONE} \/ RegionOfRdl(d) BY DEF SenderFollows
  <2>2. /\ e \in Driver /\ Rest(e) = Rest(d) /\ Marks(e) = Marks(d)
        /\ e.scene.viewport = d.scene.viewport /\ e.senderViewport = d.senderViewport
        /\ e.initialized = d.initialized /\ e.backup = d.backup
        /\ e.scene.roi \in {e.senderRoi, Scene!NONE} \/ RegionOfRdl(e)
        /\ e.regionSet = d.regionSet
    <3> HIDE DEF e
    <3>1. /\ e \in Driver /\ Rest(e) = Rest(d) /\ Marks(e) = Marks(d)
          /\ e.scene.viewport = d.scene.viewport /\ e.senderViewport = d.senderViewport
          /\ e.initialized = d.initialized /\ e.backup = d.backup /\ e.regionSet = d.regionSet
      BY <1>5, RoiProcessed DEF e
    <3>2. /\ e.scene.roi = region
          /\ \/ e.senderRoi = region
             \/ region # Scene!NONE /\ d.scene.roi = region /\ e.senderRoi = d.senderRoi
      BY <1>5, RoiProcessed DEF e
    <3> HIDE DEF region
    <3> QED BY <2>1, <3>1, <3>2 DEF RegionOfRdl
  <2>3. msg.kind # "RDL_FORCE_RELOAD" BY <1>5 DEF Scene!RoiKinds
  <2>4. e.rebuilt = d.rebuilt BY <2>2 DEF Marks
  <2> HIDE DEF e
  <2> QED BY <2>2, <2>3, <2>4 DEF SenderFollows, ViewportOfBackup, NewContext, e
<1>6. CASE msg.kind = "VIEWPORT" /\ msg.arg \in Viewports \cup {Scene!DEFAULT}
  <2>1. /\ e \in Driver /\ Rest(e) = Rest(d) /\ Marks(e) = Marks(d)
        /\ e.scene.roi = d.scene.roi /\ e.senderRoi = d.senderRoi /\ e.initialized = d.initialized
        /\ e.backup = d.backup /\ e.regionSet = d.regionSet /\ e.scene.viewport = msg.arg
        /\ e.senderViewport = IF d.scene.viewport = msg.arg THEN d.senderViewport ELSE msg.arg
    BY <1>6, ViewportProcessed
  <2>2. e.rebuilt = d.rebuilt BY <2>1 DEF Marks
  <2> HIDE DEF e
  <2> QED BY <1>6, <2>1, <2>2 DEF SenderFollows, RegionOfRdl, ViewportOfBackup, NewContext, e
<1> QED BY <1>1, <1>2, <1>3, <1>4, <1>5, <1>6, QueuedKinds

(* So does processing them all; a reload that comes first is never disabled. *)
LEMMA ProcessedKeeps ==
  ASSUME NEW d \in Driver, SenderFollows(d), NEW queue \in Seq(QueuedMessage),
         NEW enabled \in SUBSET (1 .. Len(queue))
  PROVE  LET run == Scene!processed(d, queue, enabled) IN
         \A n \in 0 .. Len(queue) :
           /\ run[n] \in Driver /\ Rest(run[n]) = Rest(d) /\ SenderFollows(run[n])
           /\ Marks(run[n]) = Marks(d) \/ ~run[n].dirty
           /\ n >= 1 /\ 1 \in enabled /\ queue[1].kind = "RDL_FORCE_RELOAD" => ~run[n].dirty
<1> DEFINE run == Scene!processed(d, queue, enabled)
           OK(n) == /\ run[n] \in Driver /\ Rest(run[n]) = Rest(d) /\ SenderFollows(run[n])
                    /\ Marks(run[n]) = Marks(d) \/ ~run[n].dirty
                    /\ n >= 1 /\ 1 \in enabled /\ queue[1].kind = "RDL_FORCE_RELOAD" => ~run[n].dirty
           S == {n \in 0 .. Len(queue) : OK(n)}
<1>1. Len(queue) \in Nat /\ \A n \in 1 .. Len(queue) : queue[n] \in QueuedMessage BY ElementFacts
<1>2. /\ run[0] = d
      /\ \A n \in 1 .. Len(queue) :
           run[n] = IF n \in enabled THEN Scene!process(run[n - 1], queue[n]) ELSE run[n - 1]
  BY <1>1, ProcessedFacts
<1> HIDE DEF run
<1>3. 0 \in S BY <1>1, <1>2
<1>4. ASSUME NEW n \in 1 .. Len(queue), n - 1 \in S PROVE n \in S
  <2> DEFINE c == run[n - 1]
             e == Scene!process(c, queue[n])
  <2>1. /\ c \in Driver /\ Rest(c) = Rest(d) /\ SenderFollows(c)
        /\ Marks(c) = Marks(d) \/ ~c.dirty
        /\ n - 1 >= 1 /\ 1 \in enabled /\ queue[1].kind = "RDL_FORCE_RELOAD" => ~c.dirty
    BY <1>4
  <2>2. /\ e \in Driver /\ Rest(e) = Rest(c) /\ SenderFollows(e)
        /\ Marks(e) = Marks(c) \/ ~e.dirty
        /\ queue[n].kind = "RDL_FORCE_RELOAD" => ~e.dirty
    BY <1>1, <2>1, ProcessKeeps
  <2>3. run[n] = IF n \in enabled THEN e ELSE c BY <1>2
  <2>4. n = 1 \/ n - 1 >= 1 BY <1>1
  <2>5. Marks(e) = Marks(c) => e.dirty = c.dirty BY DEF Marks
  <2> HIDE DEF c, e
  <2>6. CASE n \in enabled
    <3>1. run[n] = e BY <2>3, <2>6
    <3>2. Marks(e) = Marks(d) \/ ~e.dirty BY <2>1, <2>2, <2>5
    <3>3. 1 \in enabled /\ queue[1].kind = "RDL_FORCE_RELOAD" => ~e.dirty BY <2>1, <2>2, <2>4, <2>5
    <3> QED BY <2>1, <2>2, <3>1, <3>2, <3>3
  <2>7. CASE n \notin enabled
    <3>1. run[n] = c BY <2>3, <2>7
    <3>2. 1 \in enabled => n - 1 >= 1 BY <2>4, <2>7
    <3> QED BY <2>1, <3>1, <3>2
  <2> QED BY <2>6, <2>7
<1>5. \A n \in 0 .. Len(queue) : n \in S
  <2> HIDE DEF S
  <2> QED BY <1>1, <1>3, <1>4, SetInductionUpTo
<1> QED BY <1>5 DEF run

(***************************************************************************)
(* applyUpdatesAndRestartRender()                                          *)
(***************************************************************************)

LEMMA RecoverFacts ==
  ASSUME NEW d \in Driver, SenderFollows(d)
  PROVE  LET e == Scene!recover(d) IN
         /\ e \in Driver /\ Rest(e) = Rest(d) /\ SenderFollows(e) /\ e.backup = d.backup
         /\ ~Scene!forceReload(d.queue) /\ d.lastResult = "CANCELED" =>
              /\ ~e.dirty /\ e.rebuilt /\ e.initialized /\ e.scene = d.backup
              /\ e.syncId = d.syncId
         /\ ~(~Scene!forceReload(d.queue) /\ d.lastResult = "CANCELED") => e = d
<1> DEFINE c == Scene!resetRenderContext(d)
           e == [c EXCEPT !.scene = d.backup, !.initialized = TRUE, !.rebuilt = TRUE]
<1>1. /\ c \in Driver /\ Rest(c) = Rest(d) /\ c.scene = Scene!EMPTY /\ ~c.dirty
      /\ c.backup = d.backup /\ c.regionSet = d.regionSet /\ c.syncId = d.syncId
  BY ResetFacts
<1>2. Scene!recover(d) = IF ~Scene!forceReload(d.queue) /\ d.lastResult = "CANCELED" THEN e ELSE d
  BY DEF Scene!recover, Scene!reconstructSceneFromBackup
<1>3. d.backup \in SceneContext BY DEF Driver
<1> HIDE DEF c
<1>4. /\ e \in Driver /\ Rest(e) = Rest(c) /\ ~e.dirty /\ e.rebuilt /\ e.initialized
      /\ e.backup = c.backup /\ e.syncId = c.syncId /\ e.regionSet = c.regionSet
      /\ e.scene = d.backup
  BY <1>1, <1>3 DEF Driver, Rest
<1> HIDE DEF e
<1>5. SenderFollows(e)
  BY <1>1, <1>4 DEF SenderFollows, ViewportOfBackup, RegionOfRdl
<1> QED BY <1>1, <1>2, <1>4, <1>5

LEMMA ActiveFacts ==
  ASSUME NEW queue \in Seq(QueuedMessage)
  PROVE  /\ Scene!active(queue) \in SUBSET (1 .. Len(queue)) /\ Len(queue) \in Nat
         /\ \A i \in 1 .. Len(queue) : queue[i] \in QueuedMessage
         /\ (\A i \in 1 .. Len(queue) : queue[i].kind \in {"RDL_FORCE_RELOAD", "SETUP"} => i = 1) =>
              \A i \in 1 .. Len(queue) :
                queue[i].kind \in {"RDL", "RDL_FORCE_RELOAD", "SETUP"} => i \in Scene!active(queue)
<1>1. DOMAIN queue = 1 .. Len(queue) /\ Len(queue) \in Nat
      /\ \A i \in 1 .. Len(queue) : queue[i] \in QueuedMessage
  BY ElementFacts
<1>2. ASSUME \A i \in 1 .. Len(queue) : queue[i].kind \in {"RDL_FORCE_RELOAD", "SETUP"} => i = 1,
             NEW i \in 1 .. Len(queue), queue[i].kind \in {"RDL", "RDL_FORCE_RELOAD", "SETUP"}
      PROVE  i \in Scene!active(queue)
  <2>1. ASSUME NEW j \in i + 1 .. Len(queue) PROVE ~Scene!Supersedes(queue[j].kind, queue[i].kind)
    <3>1. queue[j].kind # "RDL_FORCE_RELOAD" BY <1>1, <1>2
    <3> QED BY <1>2, <3>1 DEF Scene!Supersedes, Scene!RoiKinds
  <2> QED BY <1>1, <2>1 DEF Scene!active, Scene!isActive
<1>3. Scene!active(queue) \in SUBSET (1 .. Len(queue)) BY <1>1 DEF Scene!active
<1> QED BY <1>1, <1>2, <1>3

LEMMA ApplyQueueFacts ==
  ASSUME NEW d \in Driver, SenderFollows(d), QueueStarts(d)
  PROVE  LET e == Scene!applyQueue(d) IN
         /\ e \in Driver /\ SenderFollows(e)
         /\ e.queue = <<>> /\ e.phase = d.phase /\ e.lastResult = d.lastResult
         /\ e.geometry = d.geometry
         /\ d.queue = <<>> => e = d
         /\ d.queue # <<>> /\ e.dirty => Marks(e) = Marks(d) /\ d.lastResult # "CANCELED"
<1>1. CASE d.queue = <<>> BY <1>1 DEF Scene!applyQueue
<1>2. CASE d.queue # <<>>
  <2> DEFINE q == d.queue
             L == Len(d.queue)
             r == Scene!recover(d)
             run == Scene!processed(r, q, Scene!active(q))
             c == run[L]
             e == [c EXCEPT !.queue = <<>>]
  <2>1. q \in Seq(QueuedMessage) /\ L \in Nat /\ 1 \in 1 .. L /\ L \in 0 .. L /\ L >= 1
    BY <1>2 DEF Driver
  <2>2. /\ r \in Driver /\ Rest(r) = Rest(d) /\ SenderFollows(r)
        /\ ~Scene!forceReload(q) /\ d.lastResult = "CANCELED" => ~r.dirty
        /\ ~(~Scene!forceReload(q) /\ d.lastResult = "CANCELED") => r = d
    BY RecoverFacts
  <2>3. Scene!applyQueue(d) = e BY <1>2 DEF Scene!applyQueue, Scene!processAll
  <2>4. /\ Scene!active(q) \in SUBSET (1 .. L)
        /\ Scene!forceReload(q) => q[1].kind = "RDL_FORCE_RELOAD" /\ 1 \in Scene!active(q)
    <3>1. /\ Scene!active(q) \in SUBSET (1 .. L)
          /\ q[1].kind = "RDL_FORCE_RELOAD" => 1 \in Scene!active(q)
      BY <2>1, ActiveFacts DEF QueueStarts
    <3>2. Scene!forceReload(q) => q[1].kind = "RDL_FORCE_RELOAD"
      BY <2>1, ElementFacts DEF QueueStarts, Scene!forceReload
    <3> QED BY <3>1, <3>2
  <2> HIDE DEF r, q
  <2>5. /\ c \in Driver /\ Rest(c) = Rest(r) /\ SenderFollows(c)
        /\ Marks(c) = Marks(r) \/ ~c.dirty
        /\ 1 \in Scene!active(q) /\ q[1].kind = "RDL_FORCE_RELOAD" => ~c.dirty
    BY <2>1, <2>2, <2>4, ProcessedKeeps DEF q
  <2> HIDE DEF run, c
  <2>6. /\ e \in Driver /\ e.queue = <<>> /\ Marks(e) = Marks(c) /\ e.dirty = c.dirty
        /\ e.phase = c.phase /\ e.lastResult = c.lastResult /\ e.geometry = c.geometry
        /\ e.scene = c.scene /\ e.initialized = c.initialized /\ e.rebuilt = c.rebuilt
        /\ e.senderRoi = c.senderRoi /\ e.senderViewport = c.senderViewport
        /\ e.backup = c.backup /\ e.regionSet = c.regionSet
    <3>1. <<>> \in Seq(QueuedMessage) OBVIOUS
    <3> QED BY <2>5, <3>1 DEF Driver, Marks
  <2> HIDE DEF e
  <2>7. SenderFollows(e) BY <2>5, <2>6 DEF SenderFollows, RegionOfRdl, ViewportOfBackup, NewContext
  <2>8. c.phase = d.phase /\ c.lastResult = d.lastResult /\ c.geometry = d.geometry
    BY <2>2, <2>5 DEF Rest
  <2>9. c.dirty => Marks(c) = Marks(d) /\ d.lastResult # "CANCELED"
    <3> HAVE c.dirty
    <3>1. Marks(c) = Marks(r) /\ ~Scene!forceReload(q) BY <2>4, <2>5
    <3>2. r.dirty BY <3>1 DEF Marks
    <3> QED BY <2>2, <3>1, <3>2
  <2> QED BY <1>2, <2>3, <2>6, <2>7, <2>8, <2>9
<1> QED BY <1>1, <1>2

LEMMA RestartFacts ==
  ASSUME NEW d \in Driver
  PROVE  LET e == Scene!restart(d) IN
         /\ e \in Driver /\ Marks(e) = Marks(d)
         /\ e.initialized = d.initialized /\ e.queue = d.queue /\ e.lastResult = d.lastResult
         /\ e.scene.rdl = d.scene.rdl /\ e.scene.roi = d.scene.roi
         /\ e.scene.viewport = d.scene.viewport /\ e.backup = d.backup
         /\ e.regionSet = d.regionSet
         /\ e.senderRoi = d.senderRoi /\ e.senderViewport = d.senderViewport
         /\ ~d.initialized => e = d
         /\ d.initialized =>
              /\ e.phase = "prep" /\ e.geometry = UNDEFINED
              /\ IF d.geometry = UNDEFINED
                 THEN e.syncId = d.syncId /\ e.scene.geometry = d.scene.geometry
                 ELSE /\ e.syncId = IF d.geometry > d.syncId THEN d.geometry ELSE d.syncId
                      /\ e.scene.geometry = d.geometry
<1> DEFINE g == Scene!applyGeometry(d)
           s == IF d.geometry > d.syncId THEN d.geometry ELSE d.syncId
           e == [g EXCEPT !.phase = "prep"]
<1>1. Scene!restart(d) = IF d.initialized THEN e ELSE d BY DEF Scene!restart
<1>2. /\ g \in Driver /\ Marks(g) = Marks(d)
      /\ g.initialized = d.initialized /\ g.queue = d.queue /\ g.lastResult = d.lastResult
      /\ g.scene.rdl = d.scene.rdl /\ g.scene.roi = d.scene.roi
      /\ g.scene.viewport = d.scene.viewport /\ g.backup = d.backup
      /\ g.regionSet = d.regionSet
      /\ g.senderRoi = d.senderRoi /\ g.senderViewport = d.senderViewport
      /\ g.geometry = UNDEFINED
      /\ IF d.geometry = UNDEFINED
         THEN g.syncId = d.syncId /\ g.scene.geometry = d.scene.geometry
         ELSE g.syncId = s /\ g.scene.geometry = d.geometry
  <2>1. CASE d.geometry = UNDEFINED
    BY <2>1 DEF Scene!applyGeometry, Scene!UNDEFINED, UNDEFINED
  <2>2. CASE d.geometry # UNDEFINED
    <3> DEFINE h == [d EXCEPT !.scene.geometry = d.geometry, !.syncId = s, !.geometry = UNDEFINED]
    <3>1. g = h BY <2>2 DEF Scene!applyGeometry, Scene!UNDEFINED, UNDEFINED
    <3>2. d.geometry \in Nat BY <2>2 DEF Driver
    <3>3. s \in Nat BY <3>2 DEF Driver
    <3> HIDE DEF s, g
    <3> QED BY <2>2, <3>1, <3>2, <3>3 DEF Driver, SceneContext, Marks
  <2> QED BY <2>1, <2>2
<1> HIDE DEF g
<1>3. /\ e \in Driver /\ Marks(e) = Marks(g)
      /\ e.initialized = g.initialized /\ e.queue = g.queue /\ e.lastResult = g.lastResult
      /\ e.scene = g.scene /\ e.backup = g.backup /\ e.phase = "prep" /\ e.geometry = g.geometry
      /\ e.senderRoi = g.senderRoi /\ e.senderViewport = g.senderViewport /\ e.syncId = g.syncId
      /\ e.regionSet = g.regionSet
  BY <1>2 DEF Driver, Marks, Scene!Phases
<1> HIDE DEF e
<1> QED BY <1>1, <1>2, <1>3

(* The driver before and after applyUpdatesAndRestartRender(). *)
Stopped(d) == [d EXCEPT !.phase = "stopped", !.patched = @ \/ (d.dirty /\ d.queue = <<>>)]
Restarted(d) == Scene!restart(Scene!applyQueue(Stopped(d)))

LEMMA StoppedFacts ==
  ASSUME NEW d \in Driver
  PROVE  LET e == Stopped(d) IN
         /\ e \in Driver /\ e.phase = "stopped" /\ e.dirty = d.dirty /\ e.rebuilt = d.rebuilt
         /\ e.patched = (d.patched \/ (d.dirty /\ d.queue = <<>>))
         /\ e.scene = d.scene /\ e.initialized = d.initialized /\ e.backup = d.backup
         /\ e.senderRoi = d.senderRoi /\ e.senderViewport = d.senderViewport
         /\ e.syncId = d.syncId /\ e.queue = d.queue /\ e.geometry = d.geometry
         /\ e.regionSet = d.regionSet /\ e.lastResult = d.lastResult
<1>1. (d.patched \/ (d.dirty /\ d.queue = <<>>)) \in BOOLEAN BY DEF Driver
<1> QED BY <1>1 DEF Stopped, Driver, Scene!Phases

LEMMA RestartedOK ==
  ASSUME NEW d, DriverOK(d)
  PROVE  DriverOK(Restarted(d))
<1> DEFINE s == Stopped(d)
           a == Scene!applyQueue(s)
           e == Scene!restart(a)
<1>1. d \in Driver /\ QueueStarts(d) /\ CancelIsKnown(d) /\ SenderFollows(d) BY DEF DriverOK
<1>2. /\ s \in Driver /\ s.phase = "stopped" /\ s.dirty = d.dirty /\ s.rebuilt = d.rebuilt
      /\ s.patched = (d.patched \/ (d.dirty /\ d.queue = <<>>))
      /\ s.scene = d.scene /\ s.initialized = d.initialized
      /\ s.senderRoi = d.senderRoi /\ s.senderViewport = d.senderViewport
      /\ s.queue = d.queue /\ s.lastResult = d.lastResult
      /\ s.backup = d.backup /\ s.regionSet = d.regionSet
  BY <1>1, StoppedFacts
<1> HIDE DEF s
<1>3. SenderFollows(s) /\ QueueStarts(s) BY <1>1, <1>2 DEF SenderFollows, RegionOfRdl, ViewportOfBackup, NewContext, QueueStarts
<1>4. /\ a \in Driver /\ SenderFollows(a)
      /\ a.queue = <<>> /\ a.phase = s.phase /\ a.lastResult = s.lastResult
      /\ s.queue = <<>> => a = s
      /\ s.queue # <<>> /\ a.dirty => Marks(a) = Marks(s) /\ s.lastResult # "CANCELED"
  BY <1>2, <1>3, ApplyQueueFacts
<1>5. a.dirty => a.patched
  <2> HAVE a.dirty
  <2>1. CASE s.queue = <<>> BY <1>2, <1>4, <2>1
  <2>2. CASE s.queue # <<>>
    <3>1. Marks(a) = Marks(s) /\ s.lastResult # "CANCELED" BY <1>4, <2>2
    <3>2. s.dirty /\ a.patched = s.patched BY <3>1 DEF Marks
    <3> QED BY <1>1, <1>2, <3>1, <3>2 DEF CancelIsKnown
  <2> QED BY <2>1, <2>2
<1> HIDE DEF a
<1>6. /\ e \in Driver /\ Marks(e) = Marks(a)
      /\ e.initialized = a.initialized /\ e.queue = a.queue
      /\ e.scene.roi = a.scene.roi /\ e.scene.viewport = a.scene.viewport
      /\ e.senderRoi = a.senderRoi /\ e.senderViewport = a.senderViewport
      /\ e.backup = a.backup /\ e.regionSet = a.regionSet
      /\ ~a.initialized => e = a
  BY <1>4, RestartFacts
<1> HIDE DEF e
<1>7. e.dirty = a.dirty /\ e.patched = a.patched /\ e.rebuilt = a.rebuilt BY <1>6 DEF Marks
<1>8. QueueStarts(e) BY <1>2, <1>4, <1>6 DEF QueueStarts
<1>9. CancelIsKnown(e) BY <1>5, <1>7 DEF CancelIsKnown
<1>10. SenderFollows(e) BY <1>4, <1>6, <1>7 DEF SenderFollows, RegionOfRdl, ViewportOfBackup, NewContext
<1> QED BY <1>6, <1>8, <1>9, <1>10 DEF DriverOK, Restarted, e, a, s

(***************************************************************************)
(* The other steps of a machine.                                           *)
(***************************************************************************)

Message == SceneMessage \cup JsonMessage \cup ViewportMessage
QueuedKind == RdlKinds \cup {"START", "VIEWPORT"} \cup Scene!RoiKinds

Enqueued(d, msg) ==
  [d EXCEPT !.queue = Append(IF msg.kind = "RDL_FORCE_RELOAD" THEN <<>> ELSE @, msg)]
SetUpQueued(d, msg) == [d EXCEPT !.queue = <<msg>>, !.ahead = FALSE, !.reset = TRUE]
PrepCanceled(d) ==
  [d EXCEPT !.phase = "stopped", !.lastResult = "CANCELED", !.dirty = TRUE, !.patched = FALSE]

(* What handling a message makes of a driver. *)
Handled(d, e, msg) ==
  \/ msg.kind \in {"PICK", "STOP", "INVALIDATE"} /\ e = d
  \/ msg.kind = "GEOMETRY" /\ e = [d EXCEPT !.geometry = msg.arg]
  \/ msg.kind \in QueuedKind /\ e = Enqueued(d, msg)
  \/ msg.kind = "SETUP" /\ e = SetUpQueued(d, msg)
  \/ msg.kind = "STOP" /\ d.phase = "prep" /\ e = PrepCanceled(d)
  \/ msg.kind = "STOP" /\ d.phase # "prep" /\ e = [d EXCEPT !.phase = "stopped"]
  \/ /\ msg.kind = "INVALIDATE" /\ d.phase = "rendering"
     /\ \E phase \in {"prep", "stopped"} : e = [d EXCEPT !.phase = phase]

(* What its own threads make of it. *)
Moved(d, e) ==
  \/ (d.queue # <<>> \/ d.geometry # UNDEFINED) /\ e = Restarted(d)
  \/ /\ d.phase = "prep"
     /\ \E ahead \in BOOLEAN :
          e = [d EXCEPT !.phase = "rendering", !.lastResult = "FINISHED", !.ahead = ahead]
  \/ e = [d EXCEPT !.ahead = FALSE, !.reset = FALSE]

LEMMA HandleMoves ==
  ASSUME driver \in [Followed -> Driver], NEW m, NEW msg, handle(m, msg)
  PROVE  \/ m \in Followed /\ \E e : Handled(driver[m], e, msg) /\ driver' = [driver EXCEPT ![m] = e]
         \/ m \notin Followed /\ driver' = driver
<1> DEFINE d == driver[m]
<1>0. SUFFICES \E e : Handled(d, e, msg) /\ driver' = [driver EXCEPT ![m] = e]
  OBVIOUS
<1>0a. driver = [driver EXCEPT ![m] = d] OBVIOUS
<1>1. CASE msg.kind = "PICK" /\ evalPickMessage(m, msg)
  <2>1. Handled(d, d, msg) BY <1>1 DEF Handled
  <2>2. driver' = [driver EXCEPT ![m] = d] BY <1>0a, <1>1 DEF evalPickMessage
  <2> QED BY <2>1, <2>2
<1>2. CASE msg.kind = "GEOMETRY" /\ Scene!enqGeometryMessage(m, msg)
  <2> DEFINE e == [d EXCEPT !.geometry = msg.arg]
  <2>1. Handled(d, e, msg) BY <1>2 DEF Handled
  <2>2. driver' = [driver EXCEPT ![m] = e] BY <1>2 DEF Scene!enqGeometryMessage, Scene!update
  <2> QED BY <2>1, <2>2
<1>3. CASE msg.kind \in QueuedKind /\ Scene!enqUpdateMessage(m, msg)
  <2> DEFINE e == Enqueued(d, msg)
  <2>1. Handled(d, e, msg) BY <1>3 DEF Handled
  <2>2. driver' = [driver EXCEPT ![m] = e]
    BY <1>3 DEF Scene!enqUpdateMessage, Scene!update, Enqueued
  <2> QED BY <2>1, <2>2
<1>4. CASE msg.kind = "SETUP" /\ Scene!enqRenderSetupMessage(m, msg)
  <2> DEFINE e == SetUpQueued(d, msg)
  <2>1. Handled(d, e, msg) BY <1>4 DEF Handled
  <2>2. driver' = [driver EXCEPT ![m] = e]
    BY <1>4 DEF Scene!enqRenderSetupMessage, Scene!update, SetUpQueued
  <2> QED BY <2>1, <2>2
<1>5. CASE msg.kind = "STOP" /\ Scene!StopMessage(m)
  <2>1. CASE d.phase = "prep" /\ Scene!renderPrepCanceled(m)
    <3> DEFINE e == PrepCanceled(d)
    <3>1. Handled(d, e, msg) BY <1>5, <2>1 DEF Handled
    <3>2. driver' = [driver EXCEPT ![m] = e]
      BY <2>1 DEF Scene!renderPrepCanceled, Scene!update, PrepCanceled
    <3> QED BY <3>1, <3>2
  <2>2. CASE driver' = driver
    <3>1. Handled(d, d, msg) BY <1>5 DEF Handled
    <3> QED BY <1>0a, <2>2, <3>1
  <2>3. CASE d.phase # "prep" /\ Scene!update(m, [d EXCEPT !.phase = "stopped"])
    <3> DEFINE e == [d EXCEPT !.phase = "stopped"]
    <3>1. Handled(d, e, msg) BY <1>5, <2>3 DEF Handled
    <3>2. driver' = [driver EXCEPT ![m] = e] BY <2>3 DEF Scene!update
    <3> QED BY <3>1, <3>2
  <2> QED BY <1>5, <2>1, <2>2, <2>3 DEF Scene!StopMessage
<1>6. CASE msg.kind = "INVALIDATE" /\ Scene!evalInvalidateResources(m)
  <2>1. CASE driver' = driver
    <3>1. Handled(d, d, msg) BY <1>6 DEF Handled
    <3> QED BY <1>0a, <2>1, <3>1
  <2>2. ASSUME d.phase = "rendering", NEW phase \in {"prep", "stopped"},
               Scene!update(m, [d EXCEPT !.phase = phase])
        PROVE  \E e : Handled(d, e, msg) /\ driver' = [driver EXCEPT ![m] = e]
    <3> DEFINE e == [d EXCEPT !.phase = phase]
    <3>1. Handled(d, e, msg) BY <1>6, <2>2 DEF Handled
    <3>2. driver' = [driver EXCEPT ![m] = e] BY <2>2 DEF Scene!update
    <3> QED BY <3>1, <3>2
  <2> QED BY <1>6, <2>1, <2>2 DEF Scene!evalInvalidateResources
<1> QED BY <1>1, <1>2, <1>3, <1>4, <1>5, <1>6 DEF handle, QueuedKind

LEMMA MachineMoves ==
  ASSUME NEW m, Machine(m)
  PROVE  m \in Followed /\ \E e : Moved(driver[m], e) /\ driver' = [driver EXCEPT ![m] = e]
<1>1. CASE Scene!applyUpdatesAndRestartRender(m)
  BY <1>1 DEF Scene!applyUpdatesAndRestartRender, Machine, Moved, Restarted, Stopped,
              Scene!UNDEFINED, UNDEFINED
<1>2. CASE Scene!renderPrepFinished(m)
  BY <1>2 DEF Scene!renderPrepFinished, Scene!update, Machine, Moved
<1>3. CASE Scene!sendDelta(m)
  BY <1>3 DEF Scene!sendDelta, Scene!update, Machine, Moved
<1> QED BY <1>1, <1>2, <1>3 DEF Machine

LEMMA MessageKinds ==
  ASSUME NEW msg \in Message
  PROVE  /\ msg.kind \in QueuedKind \cup {"SETUP"} => msg \in QueuedMessage
         /\ msg.kind = "GEOMETRY" => msg.arg \in Nat
<1>1. /\ msg.kind \in RdlKinds => msg \in RdlMessage
      /\ msg.kind = "GEOMETRY" => msg.arg \in Nat
  BY DEF Message, SceneMessage, RdlMessage, GeometryMessage, JsonMessage, PickMessage,
         OtherMessage, RoiMessage, ViewportMessage, RdlKinds
<1>2. /\ msg.kind \in {"START", "SETUP", "ROI_DISABLE"} =>
           msg \in [kind : {"START", "SETUP", "ROI_DISABLE"}, arg : Int]
      /\ msg.kind = "ROI_SET" => msg \in RoiMessage
      /\ msg.kind = "VIEWPORT" => msg \in ViewportMessage
  BY DEF Message, SceneMessage, RdlMessage, GeometryMessage, JsonMessage, PickMessage,
         OtherMessage, RoiMessage, ViewportMessage, RdlKinds
<1> QED BY <1>1, <1>2 DEF QueuedMessage, QueuedKind, Scene!RoiKinds

LEMMA HandledOK ==
  ASSUME NEW d, DriverOK(d), NEW msg \in Message, NEW e, Handled(d, e, msg)
  PROVE  DriverOK(e)
<1>1. d \in Driver /\ QueueStarts(d) /\ CancelIsKnown(d) /\ SenderFollows(d) BY DEF DriverOK
<1>2. CASE e = d BY <1>2
<1>3. CASE msg.kind = "GEOMETRY" /\ e = [d EXCEPT !.geometry = msg.arg]
  <2>1. msg.arg \in Nat BY <1>3, MessageKinds
  <2>2. e \in Driver BY <1>1, <1>3, <2>1 DEF Driver
  <2>3. QueueStarts(e) /\ CancelIsKnown(e) /\ SenderFollows(e)
    BY <1>1, <1>3 DEF Driver, QueueStarts, CancelIsKnown,
               SenderFollows, RegionOfRdl, ViewportOfBackup, NewContext
  <2> QED BY <2>2, <2>3 DEF DriverOK
<1>4. CASE msg.kind \in QueuedKind /\ e = Enqueued(d, msg)
  <2> DEFINE q == IF msg.kind = "RDL_FORCE_RELOAD" THEN <<>> ELSE d.queue
             p == Append(q, msg)
  <2>1. msg \in QueuedMessage /\ msg.kind # "SETUP"
    BY <1>4, MessageKinds DEF QueuedKind, RdlKinds, Scene!RoiKinds
  <2>2. q \in Seq(QueuedMessage) BY <1>1 DEF Driver
  <2>3. /\ p \in Seq(QueuedMessage) /\ Len(q) \in Nat /\ Len(p) = Len(q) + 1 /\ p[Len(q) + 1] = msg
        /\ \A k \in 1 .. Len(q) : p[k] = q[k]
    BY <2>1, <2>2, AppendFacts
  <2>4. msg.kind = "RDL_FORCE_RELOAD" => Len(q) = 0 OBVIOUS
  <2>5. \A i \in 1 .. Len(q) : q[i].kind \in {"RDL_FORCE_RELOAD", "SETUP"} => i = 1
    BY <1>1, <2>3 DEF QueueStarts
  <2>6. e = [d EXCEPT !.queue = p] BY <1>4 DEF Enqueued
  <2> HIDE DEF p, q
  <2>7. \A i \in 1 .. Len(p) : p[i].kind \in {"RDL_FORCE_RELOAD", "SETUP"} => i = 1
    <3> TAKE i \in 1 .. Len(p)
    <3>1. CASE i \in 1 .. Len(q) BY <2>3, <2>5, <3>1
    <3>2. CASE i = Len(q) + 1 BY <2>1, <2>3, <2>4, <3>2
    <3> QED BY <2>3, <3>1, <3>2
  <2>8. e \in Driver /\ e.queue = p BY <1>1, <2>3, <2>6 DEF Driver
  <2>9. (e.phase # "stopped" => e.initialized) /\ CancelIsKnown(e) /\ SenderFollows(e)
    BY <1>1, <2>6 DEF Driver, QueueStarts, CancelIsKnown,
               SenderFollows, RegionOfRdl, ViewportOfBackup, NewContext
  <2> QED BY <2>7, <2>8, <2>9 DEF DriverOK, QueueStarts
<1>5. CASE msg.kind = "SETUP" /\ e = SetUpQueued(d, msg)
  <2> DEFINE p == <<msg>>
  <2>1. msg \in QueuedMessage BY <1>5, MessageKinds
  <2>2. p \in Seq(QueuedMessage) /\ \A i \in 1 .. Len(p) : i = 1 BY <2>1
  <2>3. e = [d EXCEPT !.queue = p, !.ahead = FALSE, !.reset = TRUE] BY <1>5 DEF SetUpQueued
  <2> HIDE DEF p
  <2>4. e \in Driver /\ e.queue = p BY <1>1, <2>2, <2>3 DEF Driver
  <2>5. (e.phase # "stopped" => e.initialized) /\ CancelIsKnown(e) /\ SenderFollows(e)
    BY <1>1, <2>3 DEF Driver, QueueStarts, CancelIsKnown,
               SenderFollows, RegionOfRdl, ViewportOfBackup, NewContext
  <2> QED BY <2>2, <2>4, <2>5 DEF DriverOK, QueueStarts
<1>6. CASE d.phase = "prep" /\ e = PrepCanceled(d)
  <2>1. e \in Driver BY <1>1, <1>6 DEF Driver, PrepCanceled, Scene!Phases
  <2>2. QueueStarts(e) /\ CancelIsKnown(e) /\ SenderFollows(e)
    BY <1>1, <1>6 DEF Driver, PrepCanceled, QueueStarts, CancelIsKnown,
               SenderFollows, RegionOfRdl, ViewportOfBackup, NewContext
  <2> QED BY <2>1, <2>2 DEF DriverOK
<1>7. CASE e = [d EXCEPT !.phase = "stopped"]
  <2>1. e \in Driver BY <1>1, <1>7 DEF Driver, Scene!Phases
  <2>2. QueueStarts(e) /\ CancelIsKnown(e) /\ SenderFollows(e)
    BY <1>1, <1>7 DEF Driver, QueueStarts, CancelIsKnown,
               SenderFollows, RegionOfRdl, ViewportOfBackup, NewContext
  <2> QED BY <2>1, <2>2 DEF DriverOK
<1>8. ASSUME d.phase = "rendering", NEW phase \in {"prep", "stopped"}, e = [d EXCEPT !.phase = phase]
      PROVE  DriverOK(e)
  <2>1. e \in Driver BY <1>1, <1>8 DEF Driver, Scene!Phases
  <2>2. QueueStarts(e) /\ CancelIsKnown(e) /\ SenderFollows(e)
    BY <1>1, <1>8 DEF Driver, QueueStarts, CancelIsKnown,
               SenderFollows, RegionOfRdl, ViewportOfBackup, NewContext
  <2> QED BY <2>1, <2>2 DEF DriverOK
<1> QED BY <1>2, <1>3, <1>4, <1>5, <1>6, <1>7, <1>8 DEF Handled

LEMMA MovedOK ==
  ASSUME NEW d, DriverOK(d), NEW e, Moved(d, e)
  PROVE  DriverOK(e)
<1>1. d \in Driver /\ QueueStarts(d) /\ CancelIsKnown(d) /\ SenderFollows(d) BY DEF DriverOK
<1>2. CASE e = Restarted(d) BY <1>2, RestartedOK
<1>3. ASSUME d.phase = "prep", NEW ahead \in BOOLEAN,
             e = [d EXCEPT !.phase = "rendering", !.lastResult = "FINISHED", !.ahead = ahead]
      PROVE  DriverOK(e)
  <2>1. e \in Driver BY <1>1, <1>3 DEF Driver, Scene!Phases
  <2>2. QueueStarts(e) /\ CancelIsKnown(e) /\ SenderFollows(e)
    BY <1>1, <1>3 DEF Driver, QueueStarts, CancelIsKnown,
               SenderFollows, RegionOfRdl, ViewportOfBackup, NewContext
  <2> QED BY <2>1, <2>2 DEF DriverOK
<1>4. CASE e = [d EXCEPT !.ahead = FALSE, !.reset = FALSE]
  <2>1. e \in Driver BY <1>1, <1>4 DEF Driver
  <2>2. QueueStarts(e) /\ CancelIsKnown(e) /\ SenderFollows(e)
    BY <1>1, <1>4 DEF Driver, QueueStarts, CancelIsKnown,
               SenderFollows, RegionOfRdl, ViewportOfBackup, NewContext
  <2> QED BY <2>1, <2>2 DEF DriverOK
<1> QED BY <1>2, <1>3, <1>4 DEF Moved

(***************************************************************************)
(* Every step of the session.                                              *)
(***************************************************************************)

DriversInv == ScenesTypeOK /\ \A m \in Followed : DriverOK(driver[m])

LEMMA InitDrivers == Init => DriversInv
<1> SUFFICES ASSUME Init PROVE DriversInv OBVIOUS
<1> USE DEF Init, DispatchInit
<1>1. \A S : <<>> \in Seq(S) OBVIOUS
<1>2. ASSUME NEW m \in Followed PROVE DriverOK(driver[m])
  <2> DEFINE d == driver[m]
  <2>1. d = [scene |-> Scene!EMPTY, initialized |-> FALSE, backup |-> Scene!EMPTY,
             senderRoi |-> Scene!NONE, senderViewport |-> Scene!DEFAULT, syncId |-> 0,
             queue |-> <<>>, geometry |-> UNDEFINED, lastResult |-> "FINISHED",
             phase |-> "stopped", ahead |-> FALSE, reset |-> FALSE, dirty |-> FALSE,
             patched |-> FALSE, rebuilt |-> FALSE, regionSet |-> FALSE]
    BY DEF Scene!DriverInit, Scene!UNDEFINED, UNDEFINED
  <2> HIDE DEF d
  <2>2. d \in Driver
    <3>1. <<>> \in Seq(QueuedMessage) BY <1>1
    <3> QED BY <2>1, <3>1, EmptyFacts DEF Driver, Scene!Phases
  <2>3. QueueStarts(d) BY <2>1 DEF QueueStarts
  <2>4. CancelIsKnown(d) BY <2>1 DEF CancelIsKnown
  <2>5. SenderFollows(d) BY <2>1, EmptyFacts DEF SenderFollows
  <2> QED BY <2>2, <2>3, <2>4, <2>5 DEF DriverOK, d
<1>3. DOMAIN driver = Followed /\ driver = [m \in Followed |-> driver[m]] BY DEF Scene!DriverInit
<1>4. driver \in [Followed -> Driver] BY <1>2, <1>3 DEF DriverOK
<1>5. DOMAIN channel = Machines
      /\ \A m \in Followed : channel[m] \in Seq(SceneMessage \cup JsonMessage)
  BY <1>1, SessionAssumption
<1>6. direct \in [Followed -> Seq(ViewportMessage)] BY <1>1
<1>7. /\ geometryUpdate \in Seq(GeometryMessage)
      /\ rdlUpdates \in Seq(RdlMessage)
      /\ jsonUpdates \in Seq(JsonMessage)
  BY <1>1
<1>8. jsonSyncId \in Nat \cup {UNDEFINED} /\ asked \in Nat OBVIOUS
<1> QED BY <1>2, <1>4, <1>5, <1>6, <1>7, <1>8 DEF DriversInv, ScenesTypeOK

LEMMA SentTypes ==
  ASSUME ScenesTypeOK, NEW msg \in SceneMessage \cup JsonMessage, onMessage(msg)
  PROVE  /\ geometryUpdate' \in Seq(GeometryMessage)
         /\ rdlUpdates' \in Seq(RdlMessage)
         /\ jsonUpdates' \in Seq(JsonMessage)
         /\ UNCHANGED <<lastSyncId, jsonSyncId, unverified>>
<1>1. /\ geometryUpdate \in Seq(GeometryMessage)
      /\ rdlUpdates \in Seq(RdlMessage)
      /\ jsonUpdates \in Seq(JsonMessage)
  BY DEF ScenesTypeOK
<1>2. ASSUME NEW S, NEW s \in Seq(S), NEW e \in S PROVE Append(s, e) \in Seq(S) /\ <<e>> \in Seq(S)
  OBVIOUS
<1>3. /\ msg.kind = "GEOMETRY" => msg \in GeometryMessage
      /\ msg.kind \in RdlKinds => msg \in RdlMessage
      /\ msg.kind \notin RdlKinds \cup {"GEOMETRY"} => msg \in JsonMessage
  BY DEF SceneMessage, RdlMessage, GeometryMessage, JsonMessage, PickMessage, OtherMessage, RoiMessage, RdlKinds
<1>4. geometryUpdate' \in Seq(GeometryMessage)
  <2>1. CASE msg.kind = "GEOMETRY" BY <1>1, <1>2, <1>3, <2>1 DEF onMessage
  <2>2. CASE msg.kind # "GEOMETRY" BY <1>1, <2>2 DEF onMessage
  <2> QED BY <2>1, <2>2
<1>5. rdlUpdates' \in Seq(RdlMessage)
  <2>1. CASE msg.kind \in RdlKinds BY <1>1, <1>2, <1>3, <2>1 DEF onMessage
  <2>2. CASE msg.kind \notin RdlKinds BY <1>1, <2>2 DEF onMessage
  <2> QED BY <2>1, <2>2
<1>6. jsonUpdates' \in Seq(JsonMessage)
  <2>1. CASE msg.kind \in RdlKinds \cup {"GEOMETRY"} BY <1>1, <2>1 DEF onMessage
  <2>2. CASE msg.kind \notin RdlKinds \cup {"GEOMETRY"} BY <1>1, <1>2, <1>3, <2>2 DEF onMessage
  <2> QED BY <2>1, <2>2
<1> QED BY <1>4, <1>5, <1>6 DEF onMessage

(* Which messages the client sends. *)
LEMMA ClientMoves ==
  ASSUME ScenesTypeOK, Client
  PROVE  \/ \E msg \in NextSceneMessages : SendScene(msg)
         \/ /\ \E msg \in JsonMessage : SendJson(msg)
            /\ asked' \in Nat
         \/ SendViewport
<1>1. CASE SendPick
  <2> DEFINE msg == [kind |-> "PICK", arg |-> IF clientNumbers' THEN asked ELSE UNDEFINED, key |-> asked]
  <2>1. SendJson(msg) /\ asked' = asked + 1 /\ asked \in Nat BY <1>1 DEF SendPick, ScenesTypeOK
  <2>2. msg \in JsonMessage BY <2>1 DEF JsonMessage, PickMessage
  <2> QED BY <2>1, <2>2
<1>2. CASE SendOther
  <2>1. PICK kind \in {"INVALIDATE", "START", "STOP", "SETUP", "ROI_DISABLE"} :
          SendJson([kind |-> kind, arg |-> UNDEFINED]) /\ asked' = asked
    BY <1>2 DEF SendOther
  <2>2. [kind |-> kind, arg |-> UNDEFINED] \in JsonMessage BY DEF JsonMessage, OtherMessage, UNDEFINED
  <2> QED BY <2>1, <2>2 DEF ScenesTypeOK
<1>3. CASE SendRoi
  <2>1. PICK region \in Regions : SendJson([kind |-> "ROI_SET", arg |-> region]) /\ asked' = asked
    BY <1>3 DEF SendRoi
  <2>2. [kind |-> "ROI_SET", arg |-> region] \in JsonMessage BY DEF JsonMessage, RoiMessage
  <2> QED BY <2>1, <2>2 DEF ScenesTypeOK
<1> QED BY <1>1, <1>2, <1>3 DEF Client, SceneKinds

LEMMA ClientKeepsDrivers ==
  ASSUME DriversInv, Client
  PROVE  DriversInv'
<1>0. ScenesTypeOK BY DEF DriversInv
<1>1. ASSUME NEW msg \in NextSceneMessages, SendScene(msg) PROVE DriversInv'
  <2>1. /\ onMessage(msg) /\ nextSyncId \in Nat
        /\ UNCHANGED <<driver, channel, direct, asked>>
    BY <1>1, SessionAssumption DEF SendScene, SyncIds, driverVars
  <2>2. msg \in SceneMessage
    BY <1>1, <2>1 DEF NextSceneMessages, SceneMessage, RdlMessage, GeometryMessage
  <2> QED BY <1>0, <2>1, <2>2, SentTypes DEF DriversInv, ScenesTypeOK
<1>2. ASSUME NEW msg \in JsonMessage, SendJson(msg), asked' \in Nat PROVE DriversInv'
  <2>1. onMessage(msg) /\ UNCHANGED <<driver, channel, direct>> BY <1>2 DEF SendJson, driverVars
  <2> QED BY <1>0, <1>2, <2>1, SentTypes DEF DriversInv, ScenesTypeOK
<1>3. CASE SendViewport
  <2>1. /\ UNCHANGED <<geometryUpdate, rdlUpdates, jsonUpdates, jsonSyncId, driver, channel, asked>>
        /\ \E viewport \in Viewports \cup {Scene!DEFAULT} :
             direct' = [m \in Followed |->
                          Append(direct[m], [kind |-> "VIEWPORT", arg |-> viewport])]
    BY <1>3 DEF SendViewport, dispatchVars
  <2>2. PICK viewport \in Viewports \cup {Scene!DEFAULT} :
          direct' = [m \in Followed |-> Append(direct[m], [kind |-> "VIEWPORT", arg |-> viewport])]
    BY <2>1
  <2>3. [kind |-> "VIEWPORT", arg |-> viewport] \in ViewportMessage BY DEF ViewportMessage
  <2>4. \A m \in Followed : direct[m] \in Seq(ViewportMessage) BY <1>0 DEF ScenesTypeOK
  <2>5. \A m \in Followed :
          Append(direct[m], [kind |-> "VIEWPORT", arg |-> viewport]) \in Seq(ViewportMessage)
    BY <2>3, <2>4, AppendFacts
  <2>6. direct' \in [Followed -> Seq(ViewportMessage)] BY <2>2, <2>5
  <2> QED BY <1>0, <2>1, <2>6 DEF DriversInv, ScenesTypeOK
<1> QED BY <1>0, <1>1, <1>2, <1>3, ClientMoves

(* What is forwarded to a machine whose scene is followed. *)
LEMMA ForwardedTypes ==
  ASSUME ScenesTypeOK
  PROVE  /\ geometryThenRdl \in Seq(SceneMessage)
         /\ numberedJson \in Seq(JsonMessage)
         /\ Forwarded \in Seq(SceneMessage \cup JsonMessage)
<1>1. /\ geometryUpdate \in Seq(GeometryMessage)
      /\ rdlUpdates \in Seq(RdlMessage)
      /\ jsonUpdates \in Seq(JsonMessage) /\ jsonSyncId \in Nat \cup {UNDEFINED}
  BY DEF ScenesTypeOK
<1>2. ASSUME NEW S, NEW T, S \subseteq T, NEW s \in Seq(S) PROVE s \in Seq(T) BY <1>2
<1>3. /\ GeometryMessage \subseteq SceneMessage
      /\ RdlMessage \subseteq SceneMessage
  BY DEF SceneMessage, RdlMessage, GeometryMessage
<1>4. geometryUpdate \in Seq(SceneMessage) /\ rdlUpdates \in Seq(SceneMessage)
  BY <1>1, <1>2, <1>3
<1>5. geometryThenRdl \in Seq(SceneMessage) BY <1>4, ConcatFacts DEF geometryThenRdl
<1>6. numberedJson \in Seq(JsonMessage) BY <1>1, NumberedPicks
<1>7. /\ geometryThenRdl \in Seq(SceneMessage \cup JsonMessage)
      /\ numberedJson \in Seq(SceneMessage \cup JsonMessage)
  <2>1. SceneMessage \subseteq SceneMessage \cup JsonMessage OBVIOUS
  <2>2. JsonMessage \subseteq SceneMessage \cup JsonMessage OBVIOUS
  <2> QED BY <1>2, <1>5, <1>6, <2>1, <2>2
<1> QED BY <1>5, <1>6, <1>7, ConcatFacts DEF Forwarded

LEMMA DispatchKeepsDrivers ==
  ASSUME DriversInv, Dispatch
  PROVE  DriversInv'
<1>0. ScenesTypeOK BY DEF DriversInv
<1>1. Forwarded \in Seq(SceneMessage \cup JsonMessage) BY <1>0, ForwardedTypes
<1>2. /\ channel' = [m \in Machines |-> channel[m] \o
                       (IF m \in Followed THEN Forwarded ELSE SelectSeq(Forwarded, IsPick))]
      /\ UNCHANGED <<driver, direct, asked>>
      /\ geometryUpdate' = <<>> /\ rdlUpdates' = <<>> /\ jsonUpdates' = <<>>
      /\ jsonSyncId' = jsonSyncId + Numbered(Len(jsonUpdates))
  BY DEF Dispatch, onIdle, clientVars
<1> HIDE DEF Forwarded
<1>3. DOMAIN channel' = Machines BY <1>2
<1>4. ASSUME NEW m \in Followed PROVE channel'[m] \in Seq(SceneMessage \cup JsonMessage)
  <2>1. channel'[m] = channel[m] \o Forwarded BY <1>2, SessionAssumption
  <2>2. channel[m] \in Seq(SceneMessage \cup JsonMessage) BY <1>0 DEF ScenesTypeOK
  <2> QED BY <1>1, <2>1, <2>2, ConcatFacts
<1>5. jsonSyncId' \in Nat \cup {UNDEFINED} BY <1>0, <1>2, NumberedPicks DEF ScenesTypeOK
<1>6. ScenesTypeOK'
  <2>1. \A S : <<>> \in Seq(S) OBVIOUS
  <2> QED BY <1>0, <1>2, <1>3, <1>4, <1>5, <2>1 DEF ScenesTypeOK
<1> QED BY <1>2, <1>6 DEF DriversInv

(* What is received: the first message of a way, of which the rest is left. *)
LEMMA ReceiveMoves ==
  ASSUME ScenesTypeOK, NEW m \in Machines, Receive(m)
  PROVE  /\ \/ m \in Followed /\ direct' = direct /\ channel[m] # <<>>
              /\ channel' = [channel EXCEPT ![m] = Tail(@)]
              /\ Head(channel[m]) \in Message
              /\ \E e : /\ Handled(driver[m], e, Head(channel[m]))
                        /\ driver' = [driver EXCEPT ![m] = e]
            \/ m \in Followed /\ channel' = channel /\ direct[m] # <<>>
              /\ direct' = [direct EXCEPT ![m] = Tail(@)]
              /\ Head(direct[m]) \in ViewportMessage
              /\ \E e : /\ Handled(driver[m], e, Head(direct[m]))
                        /\ driver' = [driver EXCEPT ![m] = e]
            \/ m \notin Followed /\ direct' = direct /\ driver' = driver
              /\ channel' = [channel EXCEPT ![m] = Tail(@)]
         /\ UNCHANGED <<dispatchVars, clientVars, mergeVars>>
<1>0. driver \in [Followed -> Driver] BY DEF ScenesTypeOK
<1>1. CASE /\ channel[m] # <<>>
           /\ channel' = [channel EXCEPT ![m] = Tail(@)]
           /\ handle(m, Head(channel[m]))
           /\ UNCHANGED <<dispatchVars, direct, clientVars, mergeVars>>
  <2>1. m \in Followed => Head(channel[m]) \in Message
    <3> HAVE m \in Followed
    <3>1. channel[m] \in Seq(SceneMessage \cup JsonMessage) BY DEF ScenesTypeOK
    <3>2. Head(channel[m]) \in SceneMessage \cup JsonMessage BY <1>1, <3>1, TailFacts
    <3> QED BY <3>2 DEF Message
  <2> QED BY <1>0, <1>1, <2>1, HandleMoves
<1>2. CASE /\ m \in Followed
           /\ direct[m] # <<>>
           /\ direct' = [direct EXCEPT ![m] = Tail(@)]
           /\ handle(m, Head(direct[m]))
           /\ UNCHANGED <<dispatchVars, channel, clientVars, mergeVars>>
  <2>1. Head(direct[m]) \in ViewportMessage
    <3>1. direct[m] \in Seq(ViewportMessage) BY <1>2 DEF ScenesTypeOK
    <3> QED BY <1>2, <3>1, TailFacts
  <2> QED BY <1>0, <1>2, <2>1, HandleMoves
<1> QED BY <1>1, <1>2 DEF Receive

LEMMA DriverReplaced ==
  ASSUME DriversInv, NEW m \in Followed, NEW e, DriverOK(e), driver' = [driver EXCEPT ![m] = e]
  PROVE  /\ driver' \in [Followed -> Driver] /\ driver'[m] = e
         /\ \A n \in Followed : n # m => driver'[n] = driver[n]
         /\ \A n \in Followed : DriverOK(driver'[n])
<1>1. driver \in [Followed -> Driver] /\ e \in Driver BY DEF DriversInv, ScenesTypeOK, DriverOK
<1>2. driver' \in [Followed -> Driver] /\ driver'[m] = e
      /\ \A n \in Followed : n # m => driver'[n] = driver[n]
  BY <1>1
<1>3. \A n \in Followed : DriverOK(driver'[n]) BY <1>2 DEF DriversInv
<1> QED BY <1>2, <1>3

LEMMA ReceiveKeepsDrivers ==
  ASSUME DriversInv, NEW m \in Machines, Receive(m)
  PROVE  DriversInv'
<1>0. ScenesTypeOK BY DEF DriversInv
<1>1. UNCHANGED <<geometryUpdate, rdlUpdates, jsonUpdates, jsonSyncId, asked>>
  BY <1>0, ReceiveMoves DEF dispatchVars, clientVars
<1>2. ASSUME m \in Followed, direct' = direct, channel[m] # <<>>,
             channel' = [channel EXCEPT ![m] = Tail(@)], Head(channel[m]) \in Message,
             NEW e, Handled(driver[m], e, Head(channel[m])), driver' = [driver EXCEPT ![m] = e]
      PROVE  DriversInv'
  <2>1. DriverOK(driver[m]) BY <1>2 DEF DriversInv
  <2>2. DriverOK(e) BY <1>2, <2>1, HandledOK
  <2>3. driver' \in [Followed -> Driver] /\ \A n \in Followed : DriverOK(driver'[n])
    BY <1>2, <2>2, DriverReplaced
  <2>4. channel[m] \in Seq(SceneMessage \cup JsonMessage) BY <1>0, <1>2 DEF ScenesTypeOK
  <2>5. Tail(channel[m]) \in Seq(SceneMessage \cup JsonMessage) BY <1>2, <2>4, TailFacts
  <2>6. DOMAIN channel' = Machines
        /\ \A n \in Followed : channel'[n] = IF n = m THEN Tail(channel[m]) ELSE channel[n]
    BY <1>0, <1>2, SessionAssumption DEF ScenesTypeOK
  <2> QED BY <1>0, <1>1, <1>2, <2>3, <2>5, <2>6 DEF DriversInv, ScenesTypeOK
<1>3. ASSUME m \in Followed, channel' = channel, direct[m] # <<>>,
             direct' = [direct EXCEPT ![m] = Tail(@)], Head(direct[m]) \in ViewportMessage,
             NEW e, Handled(driver[m], e, Head(direct[m])), driver' = [driver EXCEPT ![m] = e]
      PROVE  DriversInv'
  <2>1. DriverOK(driver[m]) BY <1>3 DEF DriversInv
  <2>2. DriverOK(e) BY <1>3, <2>1, HandledOK DEF Message
  <2>3. driver' \in [Followed -> Driver] /\ \A n \in Followed : DriverOK(driver'[n])
    BY <1>3, <2>2, DriverReplaced
  <2>4. direct \in [Followed -> Seq(ViewportMessage)] BY <1>0 DEF ScenesTypeOK
  <2>5. Tail(direct[m]) \in Seq(ViewportMessage) BY <1>3, <2>4, TailFacts
  <2>6. direct' \in [Followed -> Seq(ViewportMessage)] BY <1>3, <2>4, <2>5
  <2> QED BY <1>0, <1>1, <1>3, <2>3, <2>6 DEF DriversInv, ScenesTypeOK
<1>4. ASSUME m \notin Followed, direct' = direct, driver' = driver,
             channel' = [channel EXCEPT ![m] = Tail(@)]
      PROVE  DriversInv'
  <2>1. DOMAIN channel' = Machines /\ \A n \in Followed : channel'[n] = channel[n]
    BY <1>0, <1>4, SessionAssumption DEF ScenesTypeOK
  <2> QED BY <1>0, <1>1, <1>4, <2>1 DEF DriversInv, ScenesTypeOK
<1> QED BY <1>0, <1>2, <1>3, <1>4, ReceiveMoves

LEMMA MachineKeepsDrivers ==
  ASSUME DriversInv, NEW m \in Machines, Machine(m)
  PROVE  DriversInv'
<1>1. UNCHANGED <<geometryUpdate, rdlUpdates, jsonUpdates, jsonSyncId, asked, channel, direct>>
  BY DEF Machine, dispatchVars, clientVars
<1>2. m \in Followed BY MachineMoves
<1>3. PICK e : Moved(driver[m], e) /\ driver' = [driver EXCEPT ![m] = e] BY MachineMoves
<1>4. DriverOK(driver[m]) BY <1>2 DEF DriversInv
<1>5. DriverOK(e) BY <1>3, <1>4, MovedOK
<1>6. driver' \in [Followed -> Driver] /\ \A n \in Followed : DriverOK(driver'[n])
  BY <1>2, <1>3, <1>5, DriverReplaced
<1> QED BY <1>1, <1>6 DEF DriversInv, ScenesTypeOK

LEMMA OthersKeepDrivers ==
  ASSUME DriversInv,
         UNCHANGED <<geometryUpdate, rdlUpdates, jsonUpdates, jsonSyncId, asked, channel, direct, driver>>
  PROVE  DriversInv'
  BY DEF DriversInv, ScenesTypeOK

LEMMA NextKeepsDrivers == DriversInv /\ [Next]_vars => DriversInv'
<1> SUFFICES ASSUME DriversInv, [Next]_vars PROVE DriversInv' OBVIOUS
<1>1. CASE Client BY <1>1, ClientKeepsDrivers
<1>2. CASE Dispatch BY <1>2, DispatchKeepsDrivers
<1>3. ASSUME NEW m \in Machines, Receive(m) PROVE DriversInv' BY <1>3, ReceiveKeepsDrivers
<1>4. ASSUME NEW m \in Machines, Machine(m) PROVE DriversInv' BY <1>4, MachineKeepsDrivers
<1>5. ASSUME NEW m \in Machines, onJSONMessage(m) PROVE DriversInv'
  BY <1>5, OthersKeepDrivers DEF onJSONMessage, dispatchVars, clientVars
<1>6. CASE UNCHANGED vars
  BY <1>6, OthersKeepDrivers DEF vars, dispatchVars, driverVars, clientVars
<1> QED BY <1>1, <1>2, <1>3, <1>4, <1>5, <1>6 DEF Next

(* Whatever is sent, in whatever order and however often it is canceled: a
   driver keeps track of what a cancel left and the sender of the scene. *)
THEOREM DriversInvariance == Spec => []DriversInv
<1>1. Init => DriversInv BY InitDrivers
<1>2. DriversInv /\ [Next]_vars => DriversInv' BY NextKeepsDrivers
<1> QED BY <1>1, <1>2, PTL DEF Spec

(* A canceled scene is never rendered again, but for geometry alone. *)
THEOREM CanceledRebuilt == Spec => []CanceledIsRebuilt
<1>1. DriversInv => CanceledIsRebuilt
  BY DEF DriversInv, DriverOK, CancelIsKnown, CanceledIsRebuilt, Scene!inFrame
<1> QED BY <1>1, DriversInvariance, PTL

(* What is sent has the size and the region that is rendered. *)
THEOREM SenderAgreement == Spec => []SenderAgrees
<1>1. DriversInv => SenderAgrees
  BY DEF DriversInv, DriverOK, QueueStarts, SenderFollows, RegionOfRdl, ViewportOfBackup, NewContext,
         SenderAgrees, Scene!inFrame
<1> QED BY <1>1, DriversInvariance, PTL

(***************************************************************************)
(* preprocessQueuedMessage()                                               *)
(***************************************************************************)

(* Two drivers that differ in nothing but the size that the sender was told,
   the region if RDLMessages set it and, as long as messages of kinds that set
   them are to come, region and viewport. *)
SameBut(a, k, later) ==
  /\ Rest(a) = Rest(k) /\ Marks(a) = Marks(k) /\ a.backup = k.backup /\ a.syncId = k.syncId
  /\ a.initialized = k.initialized /\ a.regionSet = k.regionSet
  /\ a.scene.rdl = k.scene.rdl /\ a.scene.geometry = k.scene.geometry
  /\ later \cap Scene!RoiKinds = {} =>
       a.scene.roi = k.scene.roi /\ (a.senderRoi = k.senderRoi \/ RegionOfRdl(a))
  /\ "VIEWPORT" \notin later => a.scene.viewport = k.scene.viewport

(* After an ROI message the sender knows the region or RDLMessages had set it. *)
LEMMA RoiToldOrRdl ==
  ASSUME NEW d \in Driver, SenderFollows(d), NEW msg, msg.kind \in Scene!RoiKinds,
         msg.kind = "ROI_SET" => msg.arg \in Regions
  PROVE  LET e == Scene!process(d, msg)
             region == IF msg.kind = "ROI_SET" THEN msg.arg ELSE Scene!NONE IN
         /\ Rest(e) = Rest(d) /\ Marks(e) = Marks(d)
         /\ e.scene.rdl = d.scene.rdl /\ e.backup = d.backup
         /\ e.scene.geometry = d.scene.geometry /\ e.scene.viewport = d.scene.viewport
         /\ e.syncId = d.syncId /\ e.initialized = d.initialized /\ e.regionSet = d.regionSet
         /\ e.scene.roi = region /\ (e.senderRoi = region \/ RegionOfRdl(e))
<1> DEFINE e == Scene!process(d, msg)
           region == IF msg.kind = "ROI_SET" THEN msg.arg ELSE Scene!NONE
<1>1. /\ Rest(e) = Rest(d) /\ Marks(e) = Marks(d)
      /\ e.scene.rdl = d.scene.rdl /\ e.backup = d.backup
      /\ e.scene.geometry = d.scene.geometry /\ e.scene.viewport = d.scene.viewport
      /\ e.syncId = d.syncId /\ e.initialized = d.initialized /\ e.regionSet = d.regionSet
      /\ e.scene.roi = region
      /\ \/ e.senderRoi = region
         \/ region # Scene!NONE /\ d.scene.roi = region /\ e.senderRoi = d.senderRoi
  BY RoiProcessed
<1> HIDE DEF e, region
<1>2. e.senderRoi = region \/ RegionOfRdl(e) BY <1>1 DEF SenderFollows, RegionOfRdl
<1> QED BY <1>1, <1>2 DEF e, region

LEMMA BothProcessed ==
  ASSUME NEW a \in Driver, SenderFollows(a), NEW k \in Driver, SenderFollows(k),
         NEW msg \in QueuedMessage, NEW later, SameBut(a, k, later \cup {msg.kind}),
         msg.kind \in {"RDL_FORCE_RELOAD", "SETUP"} => a = k
  PROVE  SameBut(Scene!process(a, msg), Scene!process(k, msg), later)
<1> DEFINE b == Scene!process(a, msg)
           l == Scene!process(k, msg)
<1>1. CASE msg.kind = "RDL" /\ msg \in RdlMessage
  <2>1. /\ b \in Driver /\ Rest(b) = Rest(a) /\ Marks(b) = Marks(a)
        /\ UpdatedBy(a, b, msg) /\ b.initialized
    BY <1>1, RdlProcessed
  <2>2. /\ l \in Driver /\ Rest(l) = Rest(k) /\ Marks(l) = Marks(k)
        /\ UpdatedBy(k, l, msg) /\ l.initialized
    BY <1>1, RdlProcessed
  <2>3. b.initialized = l.initialized BY <2>1, <2>2 DEF Driver
  <2>4. msg.kind \notin Scene!RoiKinds /\ msg.kind # "VIEWPORT" BY <1>1 DEF Scene!RoiKinds
  <2> HIDE DEF b, l
  <2>5. /\ a.scene \in SceneContext /\ k.scene \in SceneContext
        /\ a.backup \in SceneContext /\ a.backup = k.backup
    BY DEF SameBut, Driver
  <2>5a. /\ b.scene.rdl = a.scene.rdl \cup {msg.arg} /\ b.scene.geometry = a.scene.geometry
         /\ l.scene.rdl = k.scene.rdl \cup {msg.arg} /\ l.scene.geometry = k.scene.geometry
    BY <1>1, <2>1, <2>2, <2>5, SetFacts DEF UpdatedBy
  <2>5b. /\ b.scene.roi = IF msg.window.roi = Scene!KEPT THEN a.scene.roi ELSE msg.window.roi
         /\ b.backup.roi = IF msg.window.roi = Scene!KEPT THEN a.backup.roi ELSE msg.window.roi
    BY <1>1, <2>1, <2>5, SetFacts DEF UpdatedBy
  <2>6. /\ b.scene.rdl = l.scene.rdl /\ b.scene.geometry = l.scene.geometry
        /\ b.backup = l.backup /\ b.syncId = l.syncId /\ b.regionSet = l.regionSet
    BY <2>1, <2>2, <2>5, <2>5a DEF SameBut, UpdatedBy
  <2>7. "VIEWPORT" \notin later => b.scene.viewport = l.scene.viewport
    <3> HAVE "VIEWPORT" \notin later
    <3>1. a.scene.viewport = k.scene.viewport BY <2>4 DEF SameBut
    <3> QED BY <1>1, <2>1, <2>2, <2>5, <3>1, SetFacts DEF UpdatedBy
  <2>8. ASSUME later \cap Scene!RoiKinds = {}
        PROVE  b.scene.roi = l.scene.roi /\ (b.senderRoi = l.senderRoi \/ RegionOfRdl(b))
    <3>1. a.scene.roi = k.scene.roi /\ (a.senderRoi = k.senderRoi \/ RegionOfRdl(a))
      BY <2>4, <2>8 DEF SameBut
    <3>2. b.scene.roi = l.scene.roi BY <1>1, <2>1, <2>2, <2>5, <3>1, SetFacts DEF UpdatedBy
    <3>3. CASE msg.window.roi = Scene!KEPT
      <4>1. /\ b.scene.roi = a.scene.roi /\ b.backup.roi = a.backup.roi
            /\ b.regionSet = a.regionSet /\ b.senderRoi = a.senderRoi /\ l.senderRoi = k.senderRoi
        BY <1>1, <2>1, <2>2, <2>5, <3>3, SetFacts DEF UpdatedBy, Driver
      <4> QED BY <3>1, <3>2, <4>1 DEF RegionOfRdl
    <3>4. CASE msg.window.roi # Scene!KEPT
      <4>1. b.scene.roi = b.backup.roi /\ b.regionSet
        BY <2>1, <2>5b, <3>4 DEF UpdatedBy
      <4> QED BY <3>2, <4>1 DEF RegionOfRdl
    <3> QED BY <3>3, <3>4
  <2>9. Rest(b) = Rest(l) /\ Marks(b) = Marks(l) BY <2>1, <2>2 DEF SameBut
  <2> QED BY <2>3, <2>6, <2>7, <2>8, <2>9 DEF SameBut, b, l
<1>2. CASE msg.kind \in {"RDL_FORCE_RELOAD", "SETUP"}
  <2>1. b = l BY <1>2
  <2> HIDE DEF b, l
  <2> QED BY <2>1 DEF SameBut, b, l
<1>3. CASE msg.kind = "START"
  <2>1. b = a /\ l = k BY <1>3, StartProcessed
  <2>2. msg.kind \notin Scene!RoiKinds BY <1>3 DEF Scene!RoiKinds
  <2> HIDE DEF b, l
  <2> QED BY <1>3, <2>1, <2>2 DEF SameBut, b, l
<1>4. CASE msg.kind \in Scene!RoiKinds /\ (msg.kind = "ROI_SET" => msg.arg \in Regions)
  <2> DEFINE region == IF msg.kind = "ROI_SET" THEN msg.arg ELSE Scene!NONE
  <2>1. /\ Rest(b) = Rest(a) /\ Marks(b) = Marks(a)
        /\ b.scene.rdl = a.scene.rdl /\ b.backup = a.backup
        /\ b.scene.geometry = a.scene.geometry /\ b.scene.viewport = a.scene.viewport
        /\ b.syncId = a.syncId /\ b.initialized = a.initialized /\ b.regionSet = a.regionSet
        /\ b.scene.roi = region /\ (b.senderRoi = region \/ RegionOfRdl(b))
    BY <1>4, RoiToldOrRdl
  <2>2. /\ Rest(l) = Rest(k) /\ Marks(l) = Marks(k)
        /\ l.scene.rdl = k.scene.rdl /\ l.backup = k.backup
        /\ l.scene.geometry = k.scene.geometry /\ l.scene.viewport = k.scene.viewport
        /\ l.syncId = k.syncId /\ l.initialized = k.initialized /\ l.regionSet = k.regionSet
        /\ l.scene.roi = region /\ (l.senderRoi = region \/ RegionOfRdl(l))
    BY <1>4, RoiToldOrRdl
  <2>3. msg.kind # "VIEWPORT" BY <1>4 DEF Scene!RoiKinds
  <2> HIDE DEF b, l, region
  <2> QED BY <1>4, <2>1, <2>2, <2>3 DEF SameBut, RegionOfRdl, b, l
<1>5. CASE msg.kind = "VIEWPORT" /\ msg.arg \in Viewports \cup {Scene!DEFAULT}
  <2>1. /\ Rest(b) = Rest(a) /\ Marks(b) = Marks(a)
        /\ b.scene.rdl = a.scene.rdl /\ b.backup = a.backup
        /\ b.scene.geometry = a.scene.geometry /\ b.scene.roi = a.scene.roi
        /\ b.senderRoi = a.senderRoi /\ b.syncId = a.syncId /\ b.initialized = a.initialized
        /\ b.regionSet = a.regionSet /\ b.scene.viewport = msg.arg
    BY <1>5, ViewportProcessed
  <2>2. /\ Rest(l) = Rest(k) /\ Marks(l) = Marks(k)
        /\ l.scene.rdl = k.scene.rdl /\ l.backup = k.backup
        /\ l.scene.geometry = k.scene.geometry /\ l.scene.roi = k.scene.roi
        /\ l.senderRoi = k.senderRoi /\ l.syncId = k.syncId /\ l.initialized = k.initialized
        /\ l.regionSet = k.regionSet /\ l.scene.viewport = msg.arg
    BY <1>5, ViewportProcessed
  <2>3. msg.kind \notin Scene!RoiKinds BY <1>5 DEF Scene!RoiKinds
  <2> HIDE DEF b, l
  <2> QED BY <1>5, <2>1, <2>2, <2>3 DEF SameBut, RegionOfRdl, b, l
<1> QED BY <1>1, <1>2, <1>3, <1>4, <1>5, QueuedKinds

LEMMA OneProcessed ==
  ASSUME NEW a \in Driver, SenderFollows(a), NEW k \in Driver,
         NEW msg \in QueuedMessage, NEW later, SameBut(a, k, later \cup {msg.kind}),
         \/ msg.kind \in Scene!RoiKinds /\ later \cap Scene!RoiKinds # {}
         \/ msg.kind = "VIEWPORT" /\ "VIEWPORT" \in later
         \/ msg.kind = "START"
  PROVE  SameBut(Scene!process(a, msg), k, later)
<1> DEFINE b == Scene!process(a, msg)
<1>1. CASE msg.kind = "START"
  <2>1. b = a BY <1>1, StartProcessed
  <2>2. msg.kind \notin Scene!RoiKinds BY <1>1 DEF Scene!RoiKinds
  <2> HIDE DEF b
  <2> QED BY <1>1, <2>1, <2>2 DEF SameBut, b
<1>2. CASE msg.kind \in Scene!RoiKinds /\ later \cap Scene!RoiKinds # {}
  <2>0. msg.kind = "ROI_SET" => msg.arg \in Regions BY QueuedKinds DEF Scene!RoiKinds
  <2>1. /\ Rest(b) = Rest(a) /\ Marks(b) = Marks(a)
        /\ b.scene.rdl = a.scene.rdl /\ b.backup = a.backup
        /\ b.scene.geometry = a.scene.geometry /\ b.scene.viewport = a.scene.viewport
        /\ b.syncId = a.syncId /\ b.initialized = a.initialized /\ b.regionSet = a.regionSet
    BY <1>2, <2>0, RoiProcessed
  <2>2. msg.kind # "VIEWPORT" BY <1>2 DEF Scene!RoiKinds
  <2> HIDE DEF b
  <2> QED BY <1>2, <2>1, <2>2 DEF SameBut, b
<1>3. CASE msg.kind = "VIEWPORT" /\ "VIEWPORT" \in later
  <2>0. msg.arg \in Viewports \cup {Scene!DEFAULT} BY <1>3, QueuedKinds DEF Scene!RoiKinds
  <2>1. /\ Rest(b) = Rest(a) /\ Marks(b) = Marks(a)
        /\ b.scene.rdl = a.scene.rdl /\ b.backup = a.backup
        /\ b.scene.geometry = a.scene.geometry /\ b.scene.roi = a.scene.roi
        /\ b.senderRoi = a.senderRoi /\ b.syncId = a.syncId /\ b.initialized = a.initialized
        /\ b.regionSet = a.regionSet
    BY <1>3, <2>0, ViewportProcessed
  <2>2. msg.kind \notin Scene!RoiKinds BY <1>3 DEF Scene!RoiKinds
  <2> HIDE DEF b
  <2> QED BY <1>3, <2>1, <2>2 DEF SameBut, RegionOfRdl, b
<1> QED BY <1>1, <1>2, <1>3

(* Which messages are disabled, and by what. *)
LEMMA DisabledFacts ==
  ASSUME NEW queue \in Seq(QueuedMessage),
         \A i \in 1 .. Len(queue) : queue[i].kind \in {"RDL_FORCE_RELOAD", "SETUP"} => i = 1,
         NEW i \in 1 .. Len(queue)
  PROVE  LET later == {queue[j].kind : j \in i + 1 .. Len(queue)} IN
         i \notin Scene!active(queue) =>
           \/ queue[i].kind \in Scene!RoiKinds /\ later \cap Scene!RoiKinds # {}
           \/ queue[i].kind = "VIEWPORT" /\ "VIEWPORT" \in later
           \/ queue[i].kind = "START"
<1>1. DOMAIN queue = 1 .. Len(queue) /\ Len(queue) \in Nat BY ElementFacts
<1>2. i \in Scene!active(queue) <=>
        \A j \in i + 1 .. Len(queue) : ~Scene!Supersedes(queue[j].kind, queue[i].kind)
  BY <1>1 DEF Scene!active, Scene!isActive
<1>3. \A j \in i + 1 .. Len(queue) : queue[j].kind # "RDL_FORCE_RELOAD" BY <1>1
<1>4. ASSUME i \notin Scene!active(queue)
      PROVE  \E j \in i + 1 .. Len(queue) :
               \/ queue[i].kind \in Scene!RoiKinds /\ queue[j].kind \in Scene!RoiKinds
               \/ queue[i].kind = "VIEWPORT" /\ queue[j].kind = "VIEWPORT"
               \/ queue[i].kind = "START"
  <2>1. PICK j \in i + 1 .. Len(queue) : Scene!Supersedes(queue[j].kind, queue[i].kind) BY <1>2, <1>4
  <2> QED BY <1>3, <2>1 DEF Scene!Supersedes
<1> QED BY <1>4

LEMMA PreprocessKeeps ==
  ASSUME NEW d, DriverOK(d)
  PROVE  LET kept == withoutDisabled(d)
             all == withEverything(d)
         IN /\ kept = [all EXCEPT !.senderViewport = kept.senderViewport,
                                   !.senderRoi = kept.senderRoi]
            /\ \/ kept.senderViewport = all.senderViewport
               \/ ViewportOfBackup(kept) \/ NewContext(kept)
            /\ kept.senderRoi = all.senderRoi \/ RegionOfRdl(kept)
<1> DEFINE q == d.queue
           L == Len(q)
           r == Scene!recover(d)
           K == Scene!processed(r, q, Scene!active(q))
           A == Scene!processed(r, q, DOMAIN q)
           later(n) == {q[j].kind : j \in n + 1 .. L}
           S == {n \in 0 .. L : SameBut(A[n], K[n], later(n))}
<1>1. d \in Driver /\ QueueStarts(d) /\ SenderFollows(d) BY DEF DriverOK
<1>2. /\ q \in Seq(QueuedMessage) /\ L \in Nat /\ DOMAIN q = 1 .. L
      /\ \A n \in 1 .. L : q[n] \in QueuedMessage
      /\ Scene!active(q) \in SUBSET (1 .. L)
      /\ \A i \in 1 .. L : q[i].kind \in {"RDL_FORCE_RELOAD", "SETUP"} => i = 1
  <2>1. q \in Seq(QueuedMessage) BY <1>1 DEF Driver
  <2> QED BY <1>1, <2>1, ActiveFacts, ElementFacts DEF QueueStarts
<1>3. r \in Driver /\ SenderFollows(r) BY <1>1, RecoverFacts
<1> HIDE DEF r, q
<1>4. /\ \A n \in 0 .. L : K[n] \in Driver /\ SenderFollows(K[n])
      /\ \A n \in 0 .. L : A[n] \in Driver /\ SenderFollows(A[n])
  BY <1>2, <1>3, ProcessedKeeps
<1>5. /\ K[0] = r /\ A[0] = r
      /\ \A n \in 1 .. L :
           /\ K[n] = IF n \in Scene!active(q) THEN Scene!process(K[n - 1], q[n]) ELSE K[n - 1]
           /\ A[n] = Scene!process(A[n - 1], q[n])
  <2>0. L \in Nat BY <1>2
  <2> DEFINE enabled == Scene!active(q)
             run == Scene!processed(r, q, enabled)
  <2> HIDE DEF enabled
  <2>1. /\ run[0] = r
        /\ \A n \in 1 .. L :
             run[n] = IF n \in enabled THEN Scene!process(run[n - 1], q[n]) ELSE run[n - 1]
    BY <2>0, ProcessedFacts
  <2>2. /\ A[0] = r
        /\ \A n \in 1 .. L :
             A[n] = IF n \in DOMAIN q THEN Scene!process(A[n - 1], q[n]) ELSE A[n - 1]
    BY <1>2, ProcessedFacts
  <2>3. run = K BY DEF enabled
  <2> HIDE DEF K, A, run
  <2> QED BY <1>2, <2>1, <2>2, <2>3 DEF enabled
<1> HIDE DEF K, A
<1>6. 0 \in S BY <1>2, <1>5 DEF SameBut
<1>7. ASSUME NEW n \in 1 .. L, n - 1 \in S PROVE n \in S
  <2> DEFINE a == A[n - 1]
             k == K[n - 1]
  <2>1. /\ a \in Driver /\ SenderFollows(a) /\ k \in Driver /\ SenderFollows(k)
        /\ SameBut(a, k, later(n - 1)) /\ q[n] \in QueuedMessage
    BY <1>2, <1>4, <1>7
  <2>2. later(n - 1) = later(n) \cup {q[n].kind}
    <3>1. \A j \in n - 1 + 1 .. L : j = n \/ j \in n + 1 .. L BY <1>2
    <3>2. \A j \in n + 1 .. L : j \in n - 1 + 1 .. L BY <1>2
    <3>3. n \in n - 1 + 1 .. L BY <1>2
    <3> QED BY <3>1, <3>2, <3>3
  <2>3. n \notin Scene!active(q) =>
          \/ q[n].kind \in Scene!RoiKinds /\ later(n) \cap Scene!RoiKinds # {}
          \/ q[n].kind = "VIEWPORT" /\ "VIEWPORT" \in later(n)
          \/ q[n].kind = "START"
    BY <1>2, DisabledFacts
  <2>4. n \in 0 .. L BY <1>2
  <2>4a. q[n].kind \in {"RDL_FORCE_RELOAD", "SETUP"} => a = k
    <3> HAVE q[n].kind \in {"RDL_FORCE_RELOAD", "SETUP"}
    <3>1. n = 1 BY <1>2
    <3>2. n - 1 = 0 BY <3>1
    <3> QED BY <1>5, <3>2
  <2> HIDE DEF a, k, later
  <2>5. SameBut(a, k, later(n) \cup {q[n].kind}) BY <2>1, <2>2
  <2>6. CASE n \in Scene!active(q)
    <3>1. SameBut(Scene!process(a, q[n]), Scene!process(k, q[n]), later(n))
      BY <2>1, <2>4a, <2>5, BothProcessed
    <3>2. A[n] = Scene!process(a, q[n]) /\ K[n] = Scene!process(k, q[n]) BY <1>5, <2>6 DEF a, k
    <3> QED BY <2>4, <3>1, <3>2
  <2>7. CASE n \notin Scene!active(q)
    <3>1. SameBut(Scene!process(a, q[n]), k, later(n)) BY <2>1, <2>3, <2>5, <2>7, OneProcessed
    <3>2. A[n] = Scene!process(a, q[n]) /\ K[n] = k BY <1>5, <2>7 DEF a, k
    <3> QED BY <2>4, <3>1, <3>2
  <2> QED BY <2>6, <2>7
<1>8. \A n \in 0 .. L : n \in S
  <2> HIDE DEF S
  <2> QED BY <1>2, <1>6, <1>7, SetInductionUpTo
<1> DEFINE kept == K[L]
           all == A[L]
<1>9. withoutDisabled(d) = kept /\ withEverything(d) = all
  BY DEF withoutDisabled, withEverything, Scene!processAll, K, A, r, q
<1>10. kept \in Driver /\ all \in Driver /\ SenderFollows(kept) /\ SenderFollows(all)
  BY <1>2, <1>4
<1>11. SameBut(all, kept, {})
  <2>1. L \in S
    <3>1. L \in 0 .. L BY <1>2
    <3> HIDE DEF S
    <3> QED BY <1>8, <3>1
  <2>2. later(L) = {} BY <1>2
  <2>3. SameBut(all, kept, later(L)) BY <2>1
  <2> QED BY <2>2, <2>3
<1> HIDE DEF kept, all
<1>12. all.scene = kept.scene
  <2>1. all.scene \in SceneContext /\ kept.scene \in SceneContext BY <1>10 DEF Driver
  <2>2. /\ all.scene.rdl = kept.scene.rdl /\ all.scene.geometry = kept.scene.geometry
        /\ all.scene.roi = kept.scene.roi /\ all.scene.viewport = kept.scene.viewport
    BY <1>11 DEF SameBut
  <2> QED BY <2>1, <2>2 DEF SceneContext
<1>13. /\ all.initialized = kept.initialized /\ all.backup = kept.backup
       /\ all.regionSet = kept.regionSet /\ all.syncId = kept.syncId /\ all.queue = kept.queue
       /\ all.geometry = kept.geometry /\ all.lastResult = kept.lastResult
       /\ all.phase = kept.phase /\ all.ahead = kept.ahead /\ all.reset = kept.reset
       /\ all.dirty = kept.dirty /\ all.patched = kept.patched /\ all.rebuilt = kept.rebuilt
  BY <1>11 DEF SameBut, Rest, Marks
<1>14. kept = [all EXCEPT !.senderViewport = kept.senderViewport, !.senderRoi = kept.senderRoi]
  BY <1>10, <1>12, <1>13 DEF Driver
<1>15. \/ kept.senderViewport = all.senderViewport
       \/ ViewportOfBackup(kept) \/ NewContext(kept)
  BY <1>10, <1>12, <1>13 DEF SenderFollows, ViewportOfBackup, NewContext
<1>16. kept.senderRoi = all.senderRoi \/ RegionOfRdl(kept)
  BY <1>11, <1>12, <1>13 DEF SameBut, RegionOfRdl
<1> QED BY <1>9, <1>14, <1>15, <1>16

(* What preprocessQueuedMessage() removes from a queue makes no difference to
   the scene, to the backup or to what the sender is told, but for the size
   of a rebuilt or a new context and a region that RDLMessages set. *)
THEOREM PreprocessKept == Spec => []PreprocessKeepsOutcome
<1>1. DriversInv => PreprocessKeepsOutcome
  BY PreprocessKeeps DEF DriversInv, PreprocessKeepsOutcome
<1> QED BY <1>1, DriversInvariance, PTL

(***************************************************************************)
(* The scene messages of a way.                                            *)
(***************************************************************************)

LEMMA WayMembers ==
  ASSUME NEW S, NEW s \in Seq(S), NEW sent
  PROVE  /\ \A kinds, x : x \in Ids(s, kinds) <=> \E k \in 1 .. Len(s) : x = s[k].arg /\ s[k].kind \in kinds
         /\ NoSetUp(s) <=> \A k \in 1 .. Len(s) : s[k].kind # "SETUP"
         /\ Recorded(s, sent) <=> \A k \in 1 .. Len(s) : s[k].kind \in SceneKinds =>
              /\ s[k].arg \in Nat /\ s[k].arg \in DOMAIN sent
              /\ sent[s[k].arg] = after(sent[s[k].arg - 1], s[k])
         /\ Ascending(s) <=> \A i, j \in 1 .. Len(s) :
              i < j /\ s[i].kind \in SceneKinds /\ s[j].kind \in SceneKinds => s[i].arg < s[j].arg
<1>1. DOMAIN s = 1 .. Len(s) BY ElementFacts
<1> QED BY <1>1 DEF Ids, NoSetUp, Recorded, Ascending

LEMMA WayTail ==
  ASSUME NEW S, NEW s \in Seq(S), s # <<>>, NEW sent
  PROVE  /\ \A kinds, x : x \in Ids(s, kinds) <=>
              x \in Ids(Tail(s), kinds) \/ (x = Head(s).arg /\ Head(s).kind \in kinds)
         /\ NoSetUp(s) => NoSetUp(Tail(s)) /\ Head(s).kind # "SETUP"
         /\ Recorded(s, sent) =>
              /\ Recorded(Tail(s), sent)
              /\ Head(s).kind \in SceneKinds =>
                   /\ Head(s).arg \in Nat /\ Head(s).arg \in DOMAIN sent
                   /\ sent[Head(s).arg] = after(sent[Head(s).arg - 1], Head(s))
         /\ Ascending(s) =>
              /\ Ascending(Tail(s))
              /\ Head(s).kind \in SceneKinds => \A x \in Ids(Tail(s), SceneKinds) : Head(s).arg < x
<1> DEFINE t == Tail(s)
           L == Len(s)
<1>1. /\ t \in Seq(S) /\ Len(t) = L - 1 /\ Head(s) = s[1] /\ L \in Nat /\ 1 \in 1 .. L
      /\ \A k \in 1 .. Len(t) : t[k] = s[k + 1] /\ k + 1 \in 1 .. L
      /\ \A k \in 1 .. L : k # 1 => k - 1 \in 1 .. Len(t) /\ s[k] = t[k - 1]
  BY TailFacts
<1>2. /\ \A kinds, x : x \in Ids(s, kinds) <=> \E k \in 1 .. L : x = s[k].arg /\ s[k].kind \in kinds
      /\ NoSetUp(s) <=> \A k \in 1 .. L : s[k].kind # "SETUP"
      /\ Recorded(s, sent) <=> \A k \in 1 .. L : s[k].kind \in SceneKinds =>
           /\ s[k].arg \in Nat /\ s[k].arg \in DOMAIN sent
           /\ sent[s[k].arg] = after(sent[s[k].arg - 1], s[k])
      /\ Ascending(s) <=> \A i, j \in 1 .. L :
           i < j /\ s[i].kind \in SceneKinds /\ s[j].kind \in SceneKinds => s[i].arg < s[j].arg
  BY WayMembers
<1>3. /\ \A kinds, x : x \in Ids(t, kinds) <=> \E k \in 1 .. Len(t) : x = t[k].arg /\ t[k].kind \in kinds
      /\ NoSetUp(t) <=> \A k \in 1 .. Len(t) : t[k].kind # "SETUP"
      /\ Recorded(t, sent) <=> \A k \in 1 .. Len(t) : t[k].kind \in SceneKinds =>
           /\ t[k].arg \in Nat /\ t[k].arg \in DOMAIN sent
           /\ sent[t[k].arg] = after(sent[t[k].arg - 1], t[k])
      /\ Ascending(t) <=> \A i, j \in 1 .. Len(t) :
           i < j /\ t[i].kind \in SceneKinds /\ t[j].kind \in SceneKinds => t[i].arg < t[j].arg
  BY <1>1, WayMembers
<1> HIDE DEF t, L
<1>4. ASSUME NEW kinds, NEW x
      PROVE  x \in Ids(s, kinds) <=> x \in Ids(t, kinds) \/ (x = Head(s).arg /\ Head(s).kind \in kinds)
  <2>1. ASSUME x \in Ids(s, kinds) PROVE x \in Ids(t, kinds) \/ (x = Head(s).arg /\ Head(s).kind \in kinds)
    <3>1. PICK k \in 1 .. L : x = s[k].arg /\ s[k].kind \in kinds BY <1>2, <2>1
    <3>2. CASE k = 1 BY <1>1, <3>1, <3>2
    <3>3. CASE k # 1
      <4>1. k - 1 \in 1 .. Len(t) /\ s[k] = t[k - 1] BY <1>1, <3>3
      <4> QED BY <1>3, <3>1, <4>1
    <3> QED BY <3>2, <3>3
  <2>2. ASSUME x \in Ids(t, kinds) PROVE x \in Ids(s, kinds)
    <3>1. PICK k \in 1 .. Len(t) : x = t[k].arg /\ t[k].kind \in kinds BY <1>3, <2>2
    <3>2. t[k] = s[k + 1] /\ k + 1 \in 1 .. L BY <1>1
    <3> QED BY <1>2, <3>1, <3>2
  <2>3. x = Head(s).arg /\ Head(s).kind \in kinds => x \in Ids(s, kinds) BY <1>1, <1>2
  <2> QED BY <2>1, <2>2, <2>3
<1>5. NoSetUp(s) => NoSetUp(t) /\ Head(s).kind # "SETUP" BY <1>1, <1>2, <1>3
<1>6. ASSUME Recorded(s, sent)
      PROVE  /\ Recorded(t, sent)
             /\ Head(s).kind \in SceneKinds =>
                  /\ Head(s).arg \in Nat /\ Head(s).arg \in DOMAIN sent
                  /\ sent[Head(s).arg] = after(sent[Head(s).arg - 1], Head(s))
  <2>1. \A k \in 1 .. L : s[k].kind \in SceneKinds =>
          /\ s[k].arg \in Nat /\ s[k].arg \in DOMAIN sent
          /\ sent[s[k].arg] = after(sent[s[k].arg - 1], s[k])
    BY <1>2, <1>6
  <2>2. Recorded(t, sent)
    <3> SUFFICES ASSUME NEW k \in 1 .. Len(t), t[k].kind \in SceneKinds
                 PROVE  /\ t[k].arg \in Nat /\ t[k].arg \in DOMAIN sent
                        /\ sent[t[k].arg] = after(sent[t[k].arg - 1], t[k])
      BY <1>3
    <3>1. t[k] = s[k + 1] /\ k + 1 \in 1 .. L BY <1>1
    <3> QED BY <2>1, <3>1
  <2> QED BY <1>1, <2>1, <2>2
<1>7. ASSUME Ascending(s)
      PROVE  /\ Ascending(t)
             /\ Head(s).kind \in SceneKinds => \A x \in Ids(t, SceneKinds) : Head(s).arg < x
  <2>1. \A i, j \in 1 .. L : i < j /\ s[i].kind \in SceneKinds /\ s[j].kind \in SceneKinds => s[i].arg < s[j].arg
    BY <1>2, <1>7
  <2>2. Ascending(t)
    <3> SUFFICES ASSUME NEW i \in 1 .. Len(t), NEW j \in 1 .. Len(t), i < j,
                        t[i].kind \in SceneKinds, t[j].kind \in SceneKinds
                 PROVE  t[i].arg < t[j].arg
      BY <1>3
    <3>1. t[i] = s[i + 1] /\ i + 1 \in 1 .. L /\ t[j] = s[j + 1] /\ j + 1 \in 1 .. L BY <1>1
    <3>2. i + 1 < j + 1 BY <1>1
    <3> QED BY <2>1, <3>1, <3>2
  <2>3. ASSUME Head(s).kind \in SceneKinds, NEW x \in Ids(t, SceneKinds) PROVE Head(s).arg < x
    <3>1. PICK k \in 1 .. Len(t) : x = t[k].arg /\ t[k].kind \in SceneKinds BY <1>3
    <3>2. t[k] = s[k + 1] /\ k + 1 \in 1 .. L /\ 1 < k + 1 BY <1>1
    <3> QED BY <1>1, <2>1, <2>3, <3>1, <3>2
  <2> QED BY <2>2, <2>3
<1> QED BY <1>4, <1>5, <1>6, <1>7 DEF t

LEMMA WayConcat ==
  ASSUME NEW S, NEW s \in Seq(S), NEW t \in Seq(S), NEW sent
  PROVE  /\ \A kinds, x : x \in Ids(s \o t, kinds) <=> x \in Ids(s, kinds) \/ x \in Ids(t, kinds)
         /\ NoSetUp(s) /\ NoSetUp(t) => NoSetUp(s \o t)
         /\ Recorded(s, sent) /\ Recorded(t, sent) => Recorded(s \o t, sent)
         /\ Ascending(s) /\ Ascending(t)
              /\ (\A x \in Ids(s, SceneKinds), y \in Ids(t, SceneKinds) : x < y) => Ascending(s \o t)
<1> DEFINE u == s \o t
<1>1. /\ u \in Seq(S) /\ Len(s) \in Nat /\ Len(t) \in Nat
      /\ \A k \in 1 .. Len(s) : u[k] = s[k] /\ k \in 1 .. Len(u)
      /\ \A k \in 1 .. Len(t) : u[Len(s) + k] = t[k] /\ Len(s) + k \in 1 .. Len(u)
      /\ \A k \in 1 .. Len(u) :
           \/ k \in 1 .. Len(s)
           \/ k > Len(s) /\ k - Len(s) \in 1 .. Len(t) /\ u[k] = t[k - Len(s)]
  BY ConcatFacts, ElementFacts
<1>2. /\ \A kinds, x : x \in Ids(s, kinds) <=> \E k \in 1 .. Len(s) : x = s[k].arg /\ s[k].kind \in kinds
      /\ NoSetUp(s) <=> \A k \in 1 .. Len(s) : s[k].kind # "SETUP"
      /\ Recorded(s, sent) <=> \A k \in 1 .. Len(s) : s[k].kind \in SceneKinds =>
           /\ s[k].arg \in Nat /\ s[k].arg \in DOMAIN sent
           /\ sent[s[k].arg] = after(sent[s[k].arg - 1], s[k])
      /\ Ascending(s) <=> \A i, j \in 1 .. Len(s) :
           i < j /\ s[i].kind \in SceneKinds /\ s[j].kind \in SceneKinds => s[i].arg < s[j].arg
  BY WayMembers
<1>3. /\ \A kinds, x : x \in Ids(t, kinds) <=> \E k \in 1 .. Len(t) : x = t[k].arg /\ t[k].kind \in kinds
      /\ NoSetUp(t) <=> \A k \in 1 .. Len(t) : t[k].kind # "SETUP"
      /\ Recorded(t, sent) <=> \A k \in 1 .. Len(t) : t[k].kind \in SceneKinds =>
           /\ t[k].arg \in Nat /\ t[k].arg \in DOMAIN sent
           /\ sent[t[k].arg] = after(sent[t[k].arg - 1], t[k])
      /\ Ascending(t) <=> \A i, j \in 1 .. Len(t) :
           i < j /\ t[i].kind \in SceneKinds /\ t[j].kind \in SceneKinds => t[i].arg < t[j].arg
  BY WayMembers
<1> HIDE DEF u
<1>4. /\ \A kinds, x : x \in Ids(u, kinds) <=> \E k \in 1 .. Len(u) : x = u[k].arg /\ u[k].kind \in kinds
      /\ NoSetUp(u) <=> \A k \in 1 .. Len(u) : u[k].kind # "SETUP"
      /\ Recorded(u, sent) <=> \A k \in 1 .. Len(u) : u[k].kind \in SceneKinds =>
           /\ u[k].arg \in Nat /\ u[k].arg \in DOMAIN sent
           /\ sent[u[k].arg] = after(sent[u[k].arg - 1], u[k])
      /\ Ascending(u) <=> \A i, j \in 1 .. Len(u) :
           i < j /\ u[i].kind \in SceneKinds /\ u[j].kind \in SceneKinds => u[i].arg < u[j].arg
  BY <1>1, WayMembers
<1>5. ASSUME NEW kinds, NEW x PROVE x \in Ids(u, kinds) <=> x \in Ids(s, kinds) \/ x \in Ids(t, kinds)
  <2>1. ASSUME x \in Ids(u, kinds) PROVE x \in Ids(s, kinds) \/ x \in Ids(t, kinds)
    <3>1. PICK k \in 1 .. Len(u) : x = u[k].arg /\ u[k].kind \in kinds BY <1>4, <2>1
    <3>2. CASE k \in 1 .. Len(s) BY <1>1, <1>2, <3>1, <3>2
    <3>3. CASE k - Len(s) \in 1 .. Len(t) /\ u[k] = t[k - Len(s)] BY <1>3, <3>1, <3>3
    <3> QED BY <1>1, <3>2, <3>3
  <2>2. ASSUME x \in Ids(s, kinds) PROVE x \in Ids(u, kinds)
    <3>1. PICK k \in 1 .. Len(s) : x = s[k].arg /\ s[k].kind \in kinds BY <1>2, <2>2
    <3> QED BY <1>1, <1>4, <3>1
  <2>3. ASSUME x \in Ids(t, kinds) PROVE x \in Ids(u, kinds)
    <3>1. PICK k \in 1 .. Len(t) : x = t[k].arg /\ t[k].kind \in kinds BY <1>3, <2>3
    <3> QED BY <1>1, <1>4, <3>1
  <2> QED BY <2>1, <2>2, <2>3
<1>6. ASSUME NoSetUp(s), NoSetUp(t) PROVE NoSetUp(u)
  <2> SUFFICES ASSUME NEW k \in 1 .. Len(u) PROVE u[k].kind # "SETUP" BY <1>4
  <2> QED BY <1>1, <1>2, <1>3, <1>6
<1>7. ASSUME Recorded(s, sent), Recorded(t, sent) PROVE Recorded(u, sent)
  <2> SUFFICES ASSUME NEW k \in 1 .. Len(u), u[k].kind \in SceneKinds
               PROVE  /\ u[k].arg \in Nat /\ u[k].arg \in DOMAIN sent
                      /\ sent[u[k].arg] = after(sent[u[k].arg - 1], u[k])
    BY <1>4
  <2>1. CASE k \in 1 .. Len(s) BY <1>1, <1>2, <1>7, <2>1
  <2>2. CASE k - Len(s) \in 1 .. Len(t) /\ u[k] = t[k - Len(s)] BY <1>3, <1>7, <2>2
  <2> QED BY <1>1, <2>1, <2>2
<1>8. ASSUME Ascending(s), Ascending(t), \A x \in Ids(s, SceneKinds), y \in Ids(t, SceneKinds) : x < y
      PROVE  Ascending(u)
  <2> SUFFICES ASSUME NEW i \in 1 .. Len(u), NEW j \in 1 .. Len(u), i < j,
                      u[i].kind \in SceneKinds, u[j].kind \in SceneKinds
               PROVE  u[i].arg < u[j].arg
    BY <1>4
  <2>1. CASE i \in 1 .. Len(s) /\ j \in 1 .. Len(s) BY <1>1, <1>2, <1>8, <2>1
  <2>2. CASE i \in 1 .. Len(s) /\ j - Len(s) \in 1 .. Len(t) /\ u[j] = t[j - Len(s)]
    <3>1. u[i].arg \in Ids(s, SceneKinds) BY <1>1, <1>2, <2>2
    <3>2. u[j].arg \in Ids(t, SceneKinds) BY <1>3, <2>2
    <3> QED BY <1>8, <3>1, <3>2
  <2>3. CASE /\ i - Len(s) \in 1 .. Len(t) /\ u[i] = t[i - Len(s)]
             /\ j - Len(s) \in 1 .. Len(t) /\ u[j] = t[j - Len(s)]
    <3>1. i - Len(s) < j - Len(s) BY <1>1
    <3> QED BY <1>3, <1>8, <2>3, <3>1
  <2> QED BY <1>1, <2>1, <2>2, <2>3
<1> QED BY <1>5, <1>6, <1>7, <1>8 DEF u

(* One message is a way, too. *)
LEMMA WayOne ==
  ASSUME NEW S, NEW msg \in S, NEW sent
  PROVE  /\ <<msg>> \in Seq(S)
         /\ \A kinds, x : x \in Ids(<<msg>>, kinds) <=> x = msg.arg /\ msg.kind \in kinds
         /\ NoSetUp(<<msg>>) <=> msg.kind # "SETUP"
         /\ Recorded(<<msg>>, sent) <=> (msg.kind \in SceneKinds =>
              /\ msg.arg \in Nat /\ msg.arg \in DOMAIN sent
              /\ sent[msg.arg] = after(sent[msg.arg - 1], msg))
         /\ Ascending(<<msg>>)
         /\ \A s \in Seq(S) : Append(s, msg) = s \o <<msg>>
<1> DEFINE s == <<msg>>
<1>1. s \in Seq(S) /\ Len(s) = 1 /\ s[1] = msg OBVIOUS
<1>2. \A k : k \in 1 .. Len(s) <=> k = 1 BY <1>1
<1>3. \A r \in Seq(S) : Append(r, msg) = r \o <<msg>> OBVIOUS
<1> HIDE DEF s
<1>4. /\ \A kinds, x : x \in Ids(s, kinds) <=> x = msg.arg /\ msg.kind \in kinds
      /\ NoSetUp(s) <=> msg.kind # "SETUP"
      /\ Recorded(s, sent) <=> (msg.kind \in SceneKinds =>
           /\ msg.arg \in Nat /\ msg.arg \in DOMAIN sent
           /\ sent[msg.arg] = after(sent[msg.arg - 1], msg))
      /\ Ascending(s)
  <2>1. /\ \A kinds, x : x \in Ids(s, kinds) <=> \E k \in 1 .. Len(s) : x = s[k].arg /\ s[k].kind \in kinds
        /\ NoSetUp(s) <=> \A k \in 1 .. Len(s) : s[k].kind # "SETUP"
        /\ Recorded(s, sent) <=> \A k \in 1 .. Len(s) : s[k].kind \in SceneKinds =>
             /\ s[k].arg \in Nat /\ s[k].arg \in DOMAIN sent
             /\ sent[s[k].arg] = after(sent[s[k].arg - 1], s[k])
        /\ Ascending(s) <=> \A i, j \in 1 .. Len(s) :
             i < j /\ s[i].kind \in SceneKinds /\ s[j].kind \in SceneKinds => s[i].arg < s[j].arg
    BY <1>1, WayMembers
  <2>2. \A kinds, x : x \in Ids(s, kinds) <=> x = msg.arg /\ msg.kind \in kinds BY <1>1, <1>2, <2>1
  <2>3. NoSetUp(s) <=> msg.kind # "SETUP" BY <1>1, <1>2, <2>1
  <2>4. Recorded(s, sent) <=> (msg.kind \in SceneKinds =>
          /\ msg.arg \in Nat /\ msg.arg \in DOMAIN sent
          /\ sent[msg.arg] = after(sent[msg.arg - 1], msg))
    BY <1>1, <1>2, <2>1
  <2>5. \A i, j \in 1 .. Len(s) : ~(i < j) BY <1>1
  <2>6. Ascending(s) BY <2>1, <2>5
  <2> QED BY <2>2, <2>3, <2>4, <2>6
<1> QED BY <1>1, <1>3, <1>4 DEF s

(***************************************************************************)
(* The history of what the client has sent.                                *)
(***************************************************************************)

LEMMA HistoryFacts ==
  ASSUME NEW sent, NEW next, HistoryAgrees(sent, next)
  PROVE  /\ next \in Nat /\ DOMAIN sent = -1 .. next - 1 /\ sent[-1] = ClientScene
         /\ \A s \in -1 .. next - 1 :
              /\ sent[s] \in [rdl : SUBSET Nat, geometry : Int]
              /\ sent[s].geometry >= -1 /\ sent[s].geometry <= s
              /\ \A r \in sent[s].rdl : r <= s
         /\ RdlIds(sent) \in SUBSET Nat /\ GeometryIds(sent) \in SUBSET Nat
         /\ \A s \in RdlIds(sent) \cup GeometryIds(sent) : s < next
         /\ \A s : s \in RdlIds(sent) <=> s \in -1 .. next - 1 /\ s \in sent[s].rdl
         /\ \A s : s \in GeometryIds(sent) <=> s \in -1 .. next - 1 /\ s # -1 /\ sent[s].geometry = s
<1>1. /\ next \in Nat /\ DOMAIN sent = -1 .. next - 1 /\ sent[-1] = ClientScene
      /\ \A s \in -1 .. next - 1 :
           /\ sent[s] \in [rdl : SUBSET Nat, geometry : Int]
           /\ sent[s].geometry >= -1 /\ sent[s].geometry <= s
           /\ \A r \in sent[s].rdl : r <= s
  BY DEF HistoryAgrees, UNDEFINED
<1>2. \A s : s \in RdlIds(sent) <=> s \in -1 .. next - 1 /\ s \in sent[s].rdl BY <1>1 DEF RdlIds
<1>3. \A s : s \in GeometryIds(sent) <=> s \in -1 .. next - 1 /\ s # -1 /\ sent[s].geometry = s
  BY <1>1 DEF GeometryIds, UNDEFINED
<1>4. \A s \in RdlIds(sent) : s \in Nat /\ s < next
  <2> TAKE s \in RdlIds(sent)
  <2>1. s \in -1 .. next - 1 /\ s \in sent[s].rdl BY <1>2
  <2>2. sent[s].rdl \in SUBSET Nat BY <1>1, <2>1
  <2> QED BY <1>1, <2>1, <2>2
<1>5. \A s \in GeometryIds(sent) : s \in Nat /\ s < next BY <1>1, <1>3
<1> QED BY <1>1, <1>2, <1>3, <1>4, <1>5

(* What a recorded message did to the client's scene. *)
LEMMA RecordFacts ==
  ASSUME NEW sent, NEW next, HistoryAgrees(sent, next),
         NEW msg, msg.arg \in Nat, msg.arg \in DOMAIN sent,
         sent[msg.arg] = after(sent[msg.arg - 1], msg)
  PROVE  /\ msg.arg - 1 \in -1 .. next - 1 /\ msg.arg \in -1 .. next - 1
         /\ msg.kind \in RdlKinds => msg.arg \in RdlIds(sent) /\ msg.arg \notin GeometryIds(sent)
         /\ msg.kind = "GEOMETRY" => msg.arg \in GeometryIds(sent)
         /\ msg.kind = "RDL" => sent[msg.arg].rdl = sent[msg.arg - 1].rdl \cup {msg.arg}
         /\ msg.kind = "RDL_FORCE_RELOAD" =>
              sent[msg.arg].rdl = {msg.arg} /\ sent[msg.arg].geometry = UNDEFINED
<1> DEFINE a == msg.arg
           p == sent[a - 1]
<1>1. /\ next \in Nat /\ DOMAIN sent = -1 .. next - 1
      /\ \A s \in -1 .. next - 1 :
           /\ sent[s] \in [rdl : SUBSET Nat, geometry : Int]
           /\ sent[s].geometry >= -1 /\ sent[s].geometry <= s
      /\ \A s : s \in RdlIds(sent) <=> s \in -1 .. next - 1 /\ s \in sent[s].rdl
      /\ \A s : s \in GeometryIds(sent) <=> s \in -1 .. next - 1 /\ s # -1 /\ sent[s].geometry = s
  BY HistoryFacts
<1>2. a - 1 \in -1 .. next - 1 /\ a \in -1 .. next - 1 /\ a # -1 BY <1>1
<1>3. p \in [rdl : SUBSET Nat, geometry : Int] /\ p.geometry <= a - 1 BY <1>1, <1>2
<1> HIDE DEF p
<1>4. CASE msg.kind = "RDL"
  <2>1. sent[a] = [p EXCEPT !.rdl = @ \cup {a}] BY <1>4 DEF after, p
  <2>2. sent[a].rdl = p.rdl \cup {a} /\ sent[a].geometry = p.geometry BY <1>3, <2>1
  <2>3. sent[a].geometry # a BY <1>2, <1>3, <2>2
  <2>4. a \in RdlIds(sent) /\ a \notin GeometryIds(sent) BY <1>1, <1>2, <2>2, <2>3
  <2> QED BY <1>2, <1>4, <2>2, <2>4 DEF p
<1>5. CASE msg.kind = "RDL_FORCE_RELOAD"
  <2>1. sent[a] = [ClientScene EXCEPT !.rdl = {a}] BY <1>5 DEF after
  <2>2. sent[a].rdl = {a} /\ sent[a].geometry = UNDEFINED BY <2>1 DEF ClientScene
  <2>3. a \in RdlIds(sent) /\ a \notin GeometryIds(sent) BY <1>1, <1>2, <2>2 DEF UNDEFINED
  <2> QED BY <1>2, <1>5, <2>2, <2>3
<1>6. CASE msg.kind = "GEOMETRY"
  <2>1. sent[a] = [p EXCEPT !.geometry = a] BY <1>6 DEF after, p
  <2>2. sent[a].geometry = a BY <1>3, <2>1
  <2> QED BY <1>1, <1>2, <1>6, <2>2 DEF RdlKinds
<1>7. CASE msg.kind \notin {"RDL", "RDL_FORCE_RELOAD", "GEOMETRY"} BY <1>2, <1>7 DEF RdlKinds
<1> QED BY <1>4, <1>5, <1>6, <1>7

LEMMA HistoryGrows ==
  ASSUME NEW sent, NEW next, HistoryAgrees(sent, next), NEW kind \in SceneKinds,
         NEW msg, msg.kind = kind, msg.arg = next,
         NEW then, then = [s \in DOMAIN sent \cup {next} |->
                             IF s = next THEN after(sent[s - 1], msg) ELSE sent[s]]
  PROVE  /\ HistoryAgrees(then, next + 1)
         /\ \A s \in DOMAIN sent : s \in DOMAIN then /\ then[s] = sent[s]
         /\ RdlIds(then) = IF kind \in RdlKinds THEN RdlIds(sent) \cup {next} ELSE RdlIds(sent)
         /\ GeometryIds(then) = IF kind = "GEOMETRY" THEN GeometryIds(sent) \cup {next}
                                ELSE GeometryIds(sent)
         /\ next \in DOMAIN then /\ then[next] = after(then[next - 1], msg)
<1> DEFINE p == sent[next - 1]
<1>1. /\ next \in Nat /\ DOMAIN sent = -1 .. next - 1 /\ sent[-1] = ClientScene
      /\ \A s \in -1 .. next - 1 :
           /\ sent[s] \in [rdl : SUBSET Nat, geometry : Int]
           /\ sent[s].geometry >= -1 /\ sent[s].geometry <= s
           /\ \A r \in sent[s].rdl : r <= s
      /\ \A s : s \in RdlIds(sent) <=> s \in -1 .. next - 1 /\ s \in sent[s].rdl
      /\ \A s : s \in GeometryIds(sent) <=> s \in -1 .. next - 1 /\ s # -1 /\ sent[s].geometry = s
  BY HistoryFacts
<1>2. /\ DOMAIN then = -1 .. next /\ next \in -1 .. next /\ next - 1 \in -1 .. next - 1
      /\ \A s \in -1 .. next - 1 : s \in -1 .. next /\ s # next
      /\ \A s \in -1 .. next : s = next \/ s \in -1 .. next - 1
  BY <1>1
<1>3. then[next] = after(p, msg) /\ \A s \in -1 .. next - 1 : then[s] = sent[s] BY <1>1, <1>2
<1>4. p \in [rdl : SUBSET Nat, geometry : Int] /\ p.geometry >= -1 /\ p.geometry <= next - 1
      /\ \A r \in p.rdl : r <= next - 1
  BY <1>1, <1>2
<1> HIDE DEF p
<1>5. /\ then[next] \in [rdl : SUBSET Nat, geometry : Int]
      /\ then[next].geometry >= -1 /\ then[next].geometry <= next
      /\ \A r \in then[next].rdl : r <= next
      /\ next \in then[next].rdl <=> kind \in RdlKinds
      /\ then[next].geometry = next <=> kind = "GEOMETRY"
      /\ kind = "GEOMETRY" => then[next].rdl = p.rdl
      /\ kind \in RdlKinds => then[next].geometry \in {p.geometry, -1}
  <2>0. next \notin p.rdl BY <1>1, <1>4
  <2>1. CASE kind = "RDL"
    <3>1. then[next] = [p EXCEPT !.rdl = @ \cup {next}] BY <1>3, <2>1 DEF after
    <3> QED BY <1>1, <1>4, <2>1, <3>1 DEF RdlKinds
  <2>2. CASE kind = "RDL_FORCE_RELOAD"
    <3>1. then[next] = [ClientScene EXCEPT !.rdl = {next}] BY <1>3, <2>2 DEF after
    <3> QED BY <1>1, <1>4, <2>2, <3>1 DEF RdlKinds, ClientScene, UNDEFINED
  <2>3. CASE kind = "GEOMETRY"
    <3>1. then[next] = [p EXCEPT !.geometry = next] BY <1>3, <2>3 DEF after
    <3> QED BY <1>1, <1>4, <2>0, <2>3, <3>1 DEF RdlKinds
  <2> QED BY <2>1, <2>2, <2>3 DEF SceneKinds, RdlKinds
<1> HIDE DEF p
<1>6. \A s : s \in RdlIds(then) <=> s \in RdlIds(sent) \/ (s = next /\ kind \in RdlKinds)
  <2>1. \A s : s \in RdlIds(then) <=> s \in -1 .. next /\ s \in then[s].rdl BY <1>2 DEF RdlIds
  <2>2. next \in RdlIds(then) <=> kind \in RdlKinds BY <1>2, <1>5, <2>1
  <2>3. next \notin RdlIds(sent) BY <1>1
  <2>4. \A s : s # next => (s \in RdlIds(then) <=> s \in RdlIds(sent)) BY <1>1, <1>2, <1>3, <2>1
  <2> QED BY <2>2, <2>3, <2>4
<1>7. \A s : s \in GeometryIds(then) <=> s \in GeometryIds(sent) \/ (s = next /\ kind = "GEOMETRY")
  <2>1. \A s : s \in GeometryIds(then) <=> s \in -1 .. next /\ s # -1 /\ then[s].geometry = s
    BY <1>2 DEF GeometryIds, UNDEFINED
  <2>2. next # -1 BY <1>1
  <2> QED BY <1>1, <1>2, <1>3, <1>5, <2>1, <2>2
<1>8. ASSUME NEW s \in -1 .. next, NEW t \in -1 .. next, s <= t
      PROVE  /\ NoneBetween(RdlIds(then), s, t) => then[t].rdl = then[s].rdl
             /\ NoneBetween(GeometryIds(then), s, t) => then[t].geometry \in {then[s].geometry, -1}
  <2>1. CASE t = s BY <2>1
  <2>2. CASE t \in -1 .. next - 1
    <3>1. s \in -1 .. next - 1 BY <1>1, <1>8, <2>2
    <3>2. /\ NoneBetween(RdlIds(sent), s, t) => sent[t].rdl = sent[s].rdl
          /\ NoneBetween(GeometryIds(sent), s, t) => sent[t].geometry \in {sent[s].geometry, -1}
      BY <1>1, <1>8, <2>2, <3>1 DEF HistoryAgrees, UNDEFINED
    <3> QED BY <1>3, <1>6, <1>7, <2>2, <3>1, <3>2 DEF NoneBetween
  <2>3. CASE t = next /\ s # next
    <3>1. s \in -1 .. next - 1 /\ s <= next - 1 /\ s < next BY <1>1, <1>2, <1>8, <2>3
    <3>2. /\ NoneBetween(RdlIds(sent), s, next - 1) => p.rdl = sent[s].rdl
          /\ NoneBetween(GeometryIds(sent), s, next - 1) => p.geometry \in {sent[s].geometry, -1}
      BY <1>1, <1>2, <3>1 DEF HistoryAgrees, UNDEFINED, p
    <3>3. ASSUME NoneBetween(RdlIds(then), s, t) PROVE then[t].rdl = then[s].rdl
      <4>0. \A u \in RdlIds(then) : ~(s < u /\ u <= next) BY <2>3, <3>3 DEF NoneBetween
      <4>n. next \in Int /\ s \in Int /\ next <= next BY <1>1
      <4>1. kind \notin RdlKinds
        <5>1. next \notin RdlIds(then) BY <3>1, <4>0, <4>n
        <5> QED BY <1>6, <5>1
      <4>2. NoneBetween(RdlIds(sent), s, next - 1)
        <5>1. \A u \in RdlIds(sent) : u \in -1 .. next - 1 /\ u \in RdlIds(then) BY <1>1, <1>6
        <5>2. \A u \in RdlIds(sent) : ~(s < u /\ u <= next - 1)
          <6> TAKE u \in RdlIds(sent)
          <6>1. u \in Int
            <7>1. RdlIds(sent) \in SUBSET Nat BY HistoryFacts
            <7> QED BY <7>1
          <6>2. ~(s < u /\ u <= next) BY <4>0, <5>1
          <6> QED BY <4>n, <6>1, <6>2
        <5> QED BY <5>2 DEF NoneBetween
      <4>3. kind = "GEOMETRY" BY <4>1 DEF SceneKinds
      <4> QED BY <1>3, <1>5, <2>3, <3>1, <3>2, <4>2, <4>3
    <3>4. ASSUME NoneBetween(GeometryIds(then), s, t)
          PROVE  then[t].geometry \in {then[s].geometry, -1}
      <4>0. \A u \in GeometryIds(then) : ~(s < u /\ u <= next) BY <2>3, <3>4 DEF NoneBetween
      <4>n. next \in Int /\ s \in Int /\ next <= next BY <1>1
      <4>1. kind # "GEOMETRY"
        <5>1. next \notin GeometryIds(then) BY <3>1, <4>0, <4>n
        <5> QED BY <1>7, <5>1
      <4>2. NoneBetween(GeometryIds(sent), s, next - 1)
        <5>1. \A u \in GeometryIds(sent) : u \in -1 .. next - 1 /\ u \in GeometryIds(then) BY <1>1, <1>7
        <5>2. \A u \in GeometryIds(sent) : ~(s < u /\ u <= next - 1)
          <6> TAKE u \in GeometryIds(sent)
          <6>1. u \in Int
            <7>1. GeometryIds(sent) \in SUBSET Nat BY HistoryFacts
            <7> QED BY <7>1
          <6>2. ~(s < u /\ u <= next) BY <4>0, <5>1
          <6> QED BY <4>n, <6>1, <6>2
        <5> QED BY <5>2 DEF NoneBetween
      <4>3. kind \in RdlKinds BY <4>1 DEF SceneKinds
      <4> QED BY <1>3, <1>5, <2>3, <3>1, <3>2, <4>2, <4>3
    <3> QED BY <3>3, <3>4
  <2> QED BY <1>2, <2>1, <2>2, <2>3
<1>9. HistoryAgrees(then, next + 1)
  <2>1. next + 1 \in Nat /\ DOMAIN then = -1 .. (next + 1) - 1 BY <1>1, <1>2
  <2>2. then[-1] = ClientScene BY <1>1, <1>3
  <2>3. \A s \in -1 .. next :
          /\ then[s] \in [rdl : SUBSET Nat, geometry : Int]
          /\ then[s].geometry >= -1 /\ then[s].geometry <= s
          /\ \A r \in then[s].rdl : r <= s
    BY <1>1, <1>2, <1>3, <1>5
  <2> QED BY <1>2, <1>8, <2>1, <2>2, <2>3 DEF HistoryAgrees, UNDEFINED
<1>10. next \in DOMAIN then /\ then[next] = after(then[next - 1], msg) BY <1>2, <1>3 DEF p
<1>11. \A s \in DOMAIN sent : s \in DOMAIN then /\ then[s] = sent[s] BY <1>1, <1>2, <1>3
<1>12. /\ RdlIds(then) = IF kind \in RdlKinds THEN RdlIds(sent) \cup {next} ELSE RdlIds(sent)
       /\ GeometryIds(then) = IF kind = "GEOMETRY" THEN GeometryIds(sent) \cup {next}
                              ELSE GeometryIds(sent)
  BY <1>6, <1>7
<1> QED BY <1>9, <1>10, <1>11, <1>12

(***************************************************************************)
(* A machine and the way to it while other things happen.                  *)
(***************************************************************************)

LEMMA IdsFacts ==
  ASSUME NEW sent, NEW next, HistoryAgrees(sent, next),
         NEW S, NEW s \in Seq(S), Recorded(s, sent)
  PROVE  /\ \A x \in Ids(s, SceneKinds) : x \in Nat /\ x \in DOMAIN sent
         /\ \A x \in Ids(s, RdlKinds) : /\ x \in Nat /\ x \in Ids(s, SceneKinds)
                                        /\ x \in RdlIds(sent) /\ x \notin GeometryIds(sent)
         /\ \A x \in Ids(s, {"GEOMETRY"}) : /\ x \in Nat /\ x \in Ids(s, SceneKinds)
                                            /\ x \in GeometryIds(sent)
<1>1. /\ \A kinds, x : x \in Ids(s, kinds) <=> \E k \in 1 .. Len(s) : x = s[k].arg /\ s[k].kind \in kinds
      /\ Recorded(s, sent) <=> \A k \in 1 .. Len(s) : s[k].kind \in SceneKinds =>
           /\ s[k].arg \in Nat /\ s[k].arg \in DOMAIN sent
           /\ sent[s[k].arg] = after(sent[s[k].arg - 1], s[k])
  BY WayMembers
<1>2. \A k \in 1 .. Len(s) : s[k].kind \in SceneKinds =>
        /\ s[k].arg \in Nat /\ s[k].arg \in DOMAIN sent
        /\ s[k].kind \in RdlKinds => s[k].arg \in RdlIds(sent) /\ s[k].arg \notin GeometryIds(sent)
        /\ s[k].kind = "GEOMETRY" => s[k].arg \in GeometryIds(sent)
  <2> SUFFICES ASSUME NEW k \in 1 .. Len(s), s[k].kind \in SceneKinds
               PROVE  /\ s[k].arg \in Nat /\ s[k].arg \in DOMAIN sent
                      /\ s[k].kind \in RdlKinds => s[k].arg \in RdlIds(sent) /\ s[k].arg \notin GeometryIds(sent)
                      /\ s[k].kind = "GEOMETRY" => s[k].arg \in GeometryIds(sent)
    OBVIOUS
  <2> DEFINE msg == s[k]
  <2>1. /\ msg.arg \in Nat /\ msg.arg \in DOMAIN sent
        /\ sent[msg.arg] = after(sent[msg.arg - 1], msg)
    BY <1>1
  <2> HIDE DEF msg
  <2>2. /\ msg.kind \in RdlKinds => msg.arg \in RdlIds(sent) /\ msg.arg \notin GeometryIds(sent)
        /\ msg.kind = "GEOMETRY" => msg.arg \in GeometryIds(sent)
    BY <2>1, RecordFacts
  <2> QED BY <2>1, <2>2 DEF msg
<1>3. \A kind : /\ kind \in RdlKinds => kind \in SceneKinds
                /\ kind \in {"GEOMETRY"} => kind = "GEOMETRY" /\ kind \in SceneKinds
  BY DEF SceneKinds
<1>4. \A x \in Ids(s, SceneKinds) : x \in Nat /\ x \in DOMAIN sent BY <1>1, <1>2
<1>5. \A x \in Ids(s, RdlKinds) : /\ x \in Nat /\ x \in Ids(s, SceneKinds)
                                  /\ x \in RdlIds(sent) /\ x \notin GeometryIds(sent)
  BY <1>1, <1>2, <1>3
<1>6. \A x \in Ids(s, {"GEOMETRY"}) : /\ x \in Nat /\ x \in Ids(s, SceneKinds)
                                      /\ x \in GeometryIds(sent)
  BY <1>1, <1>2, <1>3
<1> QED BY <1>4, <1>5, <1>6

(* What is the same for every step. *)
LEMMA AgreesFacts ==
  ASSUME NEW sent, NEW next, HistoryAgrees(sent, next), NEW last \in DOMAIN sent,
         NEW d \in Driver, NEW S, NEW way \in Seq(S), SceneAgrees(d, way, last, sent)
  PROVE  /\ Applied(d) \in Int /\ Applied(d) >= -1 /\ Applied(d) <= last /\ Applied(d) \in DOMAIN sent
         /\ last \in Int /\ d.geometry \in Int /\ d.geometry >= -1 /\ d.syncId \in Nat
         /\ d.queue \in Seq(QueuedMessage)
         /\ next \in Nat /\ DOMAIN sent = -1 .. next - 1
         /\ \A r \in RdlIds(sent) \cup GeometryIds(sent) : r \in Nat
<1>1. /\ next \in Nat /\ DOMAIN sent = -1 .. next - 1
      /\ \A r \in RdlIds(sent) \cup GeometryIds(sent) : r \in Nat
  BY HistoryFacts
<1>2. d.geometry \in Int /\ d.geometry >= -1 /\ d.syncId \in Nat /\ d.queue \in Seq(QueuedMessage)
      /\ d.initialized \in BOOLEAN
  BY DEF Driver, UNDEFINED
<1>3. Applied(d) \in Int /\ Applied(d) >= -1 BY <1>2 DEF Applied, UNDEFINED
<1>4. Applied(d) <= last BY DEF SceneAgrees, IdsInOrder
<1> QED BY <1>1, <1>2, <1>3, <1>4

(* The client sends more. *)
LEMMA AgreesAsSent ==
  ASSUME NEW sent, NEW next, HistoryAgrees(sent, next), NEW last \in DOMAIN sent,
         NEW d \in Driver, NEW S, NEW way \in Seq(S), SceneAgrees(d, way, last, sent),
         NEW then, \A s \in DOMAIN sent : s \in DOMAIN then /\ then[s] = sent[s],
         RdlIds(then) \in SUBSET (RdlIds(sent) \cup {next}), RdlIds(sent) \in SUBSET RdlIds(then),
         GeometryIds(then) \in SUBSET (GeometryIds(sent) \cup {next}),
         GeometryIds(sent) \in SUBSET GeometryIds(then)
  PROVE  SceneAgrees(d, way, last, then)
<1>1. /\ Applied(d) \in Int /\ Applied(d) >= -1 /\ Applied(d) <= last /\ Applied(d) \in DOMAIN sent
      /\ last \in Int /\ d.geometry \in Int
      /\ d.queue \in Seq(QueuedMessage)
      /\ next \in Nat /\ DOMAIN sent = -1 .. next - 1
  BY AgreesFacts
<1>2. IdsInOrder(d, way, last, sent) /\ NothingMissing(d, way, last, sent) /\ ContentsAgree(d, sent)
  BY DEF SceneAgrees
<1>3. ASSUME NEW T, NEW s \in Seq(T), Recorded(s, sent) PROVE Recorded(s, then)
  <2> SUFFICES ASSUME NEW i \in DOMAIN s, s[i].kind \in SceneKinds
               PROVE  /\ s[i].arg \in Nat /\ s[i].arg \in DOMAIN then
                      /\ then[s[i].arg] = after(then[s[i].arg - 1], s[i])
    BY DEF Recorded
  <2>1. /\ s[i].arg \in Nat /\ s[i].arg \in DOMAIN sent
        /\ sent[s[i].arg] = after(sent[s[i].arg - 1], s[i])
    BY <1>3 DEF Recorded
  <2>2. s[i].arg - 1 \in DOMAIN sent BY <1>1, <2>1
  <2> QED BY <2>1, <2>2
<1>4. IdsInOrder(d, way, last, then)
  <2>1. Recorded(way, then) /\ Recorded(d.queue, then)
    <3>1. Recorded(way, sent) /\ Recorded(d.queue, sent) BY <1>2 DEF IdsInOrder
    <3> QED BY <1>1, <1>3, <3>1
  <2> QED BY <1>2, <2>1 DEF IdsInOrder
<1>5. last < next BY <1>1
<1>6. NothingMissing(d, way, last, then)
  <2>1. ASSUME NEW r \in RdlIds(then), Applied(d) < r, r <= last
        PROVE  r \in Ids(d.queue, RdlKinds) \cup Ids(way, RdlKinds) \/ ReloadedAt(d.queue, r)
    <3>1. r \in RdlIds(sent) BY <1>1, <1>5, <2>1
    <3> QED BY <1>2, <2>1, <3>1 DEF NothingMissing
  <2>2. ASSUME NEW g \in GeometryIds(then), Applied(d) < g, g <= last
        PROVE  \/ g <= d.geometry
               \/ \E h \in Ids(way, {"GEOMETRY"}) : g <= h /\ NoneBetween(RdlIds(then), g, h)
    <3>1. g \in GeometryIds(sent) BY <1>1, <1>5, <2>2
    <3>2. CASE g <= d.geometry BY <3>2
    <3>3. ASSUME NEW h \in Ids(way, {"GEOMETRY"}), g <= h, NoneBetween(RdlIds(sent), g, h)
          PROVE  NoneBetween(RdlIds(then), g, h)
      <4>1. Recorded(way, sent) BY <1>2 DEF IdsInOrder
      <4>2. h \in Nat /\ h \in DOMAIN sent BY <4>1, IdsFacts
      <4>3. h < next BY <1>1, <4>2
      <4>4. ~(g < next /\ next <= h) BY <1>1, <4>2, <4>3
      <4>5. \A u \in RdlIds(then) : u \in RdlIds(sent) \/ u = next OBVIOUS
      <4> QED BY <3>3, <4>4, <4>5 DEF NoneBetween
    <3> QED BY <1>2, <2>2, <3>1, <3>2, <3>3 DEF NothingMissing
  <2> QED BY <2>1, <2>2 DEF NothingMissing
<1>7. then[Applied(d)] = sent[Applied(d)] BY <1>1
<1>8. ContentsAgree(d, then) BY <1>2, <1>7 DEF ContentsAgree
<1> QED BY <1>4, <1>6, <1>8 DEF SceneAgrees

(* More is on its way. *)
LEMMA AgreesAsForwarded ==
  ASSUME NEW sent, NEW next, HistoryAgrees(sent, next), NEW last \in DOMAIN sent,
         NEW d \in Driver, NEW S, NEW way \in Seq(S), SceneAgrees(d, way, last, sent),
         NEW more \in Seq(S), NEW now \in DOMAIN sent, last <= now,
         NoSetUp(more), Recorded(more, sent), Ascending(more),
         \A x \in Ids(more, SceneKinds) : last < x /\ x <= now,
         \A r \in RdlIds(sent) : last < r /\ r <= now => r \in Ids(more, RdlKinds),
         \A g \in GeometryIds(sent) : last < g /\ g <= now =>
           \E h \in Ids(more, {"GEOMETRY"}) : g <= h /\ NoneBetween(RdlIds(sent), g, h)
  PROVE  SceneAgrees(d, way \o more, now, sent)
<1> DEFINE c == way \o more
<1>1. /\ Applied(d) \in Int /\ Applied(d) >= -1 /\ Applied(d) <= last
      /\ last \in Int /\ d.geometry \in Int
      /\ d.queue \in Seq(QueuedMessage)
      /\ next \in Nat /\ DOMAIN sent = -1 .. next - 1
      /\ \A r \in RdlIds(sent) \cup GeometryIds(sent) : r \in Nat
  BY AgreesFacts
<1>2. IdsInOrder(d, way, last, sent) /\ NothingMissing(d, way, last, sent) /\ ContentsAgree(d, sent)
  BY DEF SceneAgrees
<1>3. /\ \A kinds, x : x \in Ids(c, kinds) <=> x \in Ids(way, kinds) \/ x \in Ids(more, kinds)
      /\ NoSetUp(way) /\ NoSetUp(more) => NoSetUp(c)
      /\ Recorded(way, sent) /\ Recorded(more, sent) => Recorded(c, sent)
      /\ Ascending(way) /\ Ascending(more)
           /\ (\A x \in Ids(way, SceneKinds), y \in Ids(more, SceneKinds) : x < y) => Ascending(c)
  BY WayConcat
<1> HIDE DEF c
<1>4. /\ NoSetUp(way) /\ NoSetUp(d.queue) /\ Recorded(way, sent) /\ Recorded(d.queue, sent)
      /\ Ascending(way) /\ Ascending(d.queue)
      /\ d.geometry # UNDEFINED => d.geometry \in GeometryIds(sent) /\ Applied(d) < d.geometry
      /\ d.geometry <= last
      /\ \A r \in Ids(d.queue, RdlKinds) : Applied(d) < r /\ r <= last
      /\ \A s \in Ids(way, SceneKinds) :
           /\ Applied(d) < s /\ d.geometry < s /\ s <= last
           /\ \A r \in Ids(d.queue, RdlKinds) : r < s
  BY <1>2 DEF IdsInOrder
<1>5. /\ \A x \in Ids(way, SceneKinds) : x \in Nat
      /\ \A x \in Ids(more, SceneKinds) : x \in Nat
      /\ \A x \in Ids(d.queue, RdlKinds) : x \in Nat
  BY <1>1, <1>4, IdsFacts
<1>6. now \in Int BY <1>1
<1>7. \A x \in Ids(way, SceneKinds), y \in Ids(more, SceneKinds) : x < y
  <2> TAKE x \in Ids(way, SceneKinds), y \in Ids(more, SceneKinds)
  <2>1. x \in Nat /\ y \in Nat /\ x <= last /\ last < y BY <1>4, <1>5
  <2> QED BY <1>1, <2>1
<1>8. IdsInOrder(d, c, now, sent)
  <2>1. NoSetUp(c) /\ Recorded(c, sent) /\ Ascending(c) BY <1>3, <1>4, <1>7
  <2>2. Applied(d) <= now /\ d.geometry <= now BY <1>1, <1>4, <1>6
  <2>3. \A r \in Ids(d.queue, RdlKinds) : Applied(d) < r /\ r <= now
    <3> TAKE r \in Ids(d.queue, RdlKinds)
    <3>1. r \in Nat /\ Applied(d) < r /\ r <= last BY <1>4, <1>5
    <3> QED BY <1>1, <1>6, <3>1
  <2>4. ASSUME NEW s \in Ids(c, SceneKinds)
        PROVE  /\ Applied(d) < s /\ d.geometry < s /\ s <= now
               /\ \A r \in Ids(d.queue, RdlKinds) : r < s
    <3>1. CASE s \in Ids(way, SceneKinds)
      <4>1. s \in Nat /\ s <= last BY <1>4, <1>5, <3>1
      <4>2. s <= now BY <1>1, <1>6, <4>1
      <4> QED BY <1>4, <3>1, <4>2
    <3>2. CASE s \in Ids(more, SceneKinds)
      <4>1. s \in Nat /\ last < s /\ s <= now BY <1>5, <3>2
      <4>2. Applied(d) < s /\ d.geometry < s BY <1>1, <1>4, <4>1
      <4>3. ASSUME NEW r \in Ids(d.queue, RdlKinds) PROVE r < s
        <5>1. r \in Nat /\ r <= last BY <1>4, <1>5
        <5> QED BY <1>1, <4>1, <5>1
      <4> QED BY <4>1, <4>2, <4>3
    <3> QED BY <1>3, <3>1, <3>2
  <2> QED BY <1>4, <2>1, <2>2, <2>3, <2>4 DEF IdsInOrder
<1>9. NothingMissing(d, c, now, sent)
  <2>1. ASSUME NEW r \in RdlIds(sent), Applied(d) < r, r <= now
        PROVE  r \in Ids(d.queue, RdlKinds) \cup Ids(c, RdlKinds) \/ ReloadedAt(d.queue, r)
    <3>1. CASE r <= last BY <1>2, <1>3, <2>1, <3>1 DEF NothingMissing
    <3>2. CASE last < r BY <1>3, <2>1, <3>2
    <3> QED BY <1>1, <3>1, <3>2
  <2>2. ASSUME NEW g \in GeometryIds(sent), Applied(d) < g, g <= now
        PROVE  \/ g <= d.geometry
               \/ \E h \in Ids(c, {"GEOMETRY"}) : g <= h /\ NoneBetween(RdlIds(sent), g, h)
    <3>1. CASE g <= last BY <1>2, <1>3, <2>2, <3>1 DEF NothingMissing
    <3>2. CASE last < g BY <1>3, <2>2, <3>2
    <3> QED BY <1>1, <3>1, <3>2
  <2> QED BY <2>1, <2>2 DEF NothingMissing
<1> QED BY <1>2, <1>8, <1>9 DEF SceneAgrees, c


(* Reloads of a queue. *)
LEMMA ReloadFacts ==
  ASSUME NEW S, NEW q \in Seq(S), NEW r
  PROVE  ReloadedAt(q, r) <=> \E x \in Ids(q, {"RDL_FORCE_RELOAD"}) : r < x
<1>1. \A kinds, x : x \in Ids(q, kinds) <=> \E k \in 1 .. Len(q) : x = q[k].arg /\ q[k].kind \in kinds
  BY WayMembers
<1>2. DOMAIN q = 1 .. Len(q) OBVIOUS
<1> QED BY <1>1, <1>2 DEF ReloadedAt

(* Steps that move no scene message. *)
LEMMA AgreesAsBefore ==
  ASSUME NEW sent, NEW d, NEW way, NEW last, SceneAgrees(d, way, last, sent),
         NEW rest, NoSetUp(rest), Recorded(rest, sent), Ascending(rest),
         \A x : /\ x \in Ids(rest, SceneKinds) <=> x \in Ids(way, SceneKinds)
                /\ x \in Ids(rest, RdlKinds) <=> x \in Ids(way, RdlKinds)
                /\ x \in Ids(rest, {"GEOMETRY"}) <=> x \in Ids(way, {"GEOMETRY"}),
         NEW e, e.initialized = d.initialized, e.syncId = d.syncId, e.scene = d.scene,
         e.backup = d.backup, e.rebuilt = d.rebuilt, e.geometry = d.geometry,
         e.lastResult = "CANCELED" => e.initialized,
         NoSetUp(e.queue), Recorded(e.queue, sent), Ascending(e.queue),
         \A x : x \in Ids(e.queue, RdlKinds) <=> x \in Ids(d.queue, RdlKinds),
         \A r : ReloadedAt(d.queue, r) => ReloadedAt(e.queue, r)
  PROVE  SceneAgrees(e, rest, last, sent)
<1>1. Applied(e) = Applied(d) BY DEF Applied
<1>2. IdsInOrder(d, way, last, sent) /\ NothingMissing(d, way, last, sent) /\ ContentsAgree(d, sent)
  BY DEF SceneAgrees
<1>3. IdsInOrder(e, rest, last, sent) BY <1>1, <1>2 DEF IdsInOrder
<1>4. NothingMissing(e, rest, last, sent)
  <2>1. ASSUME NEW r \in RdlIds(sent), Applied(e) < r, r <= last
        PROVE  r \in Ids(e.queue, RdlKinds) \cup Ids(rest, RdlKinds) \/ ReloadedAt(e.queue, r)
    BY <1>1, <1>2, <2>1 DEF NothingMissing
  <2>2. ASSUME NEW g \in GeometryIds(sent), Applied(e) < g, g <= last
        PROVE  \/ g <= e.geometry
               \/ \E h \in Ids(rest, {"GEOMETRY"}) : g <= h /\ NoneBetween(RdlIds(sent), g, h)
    BY <1>1, <1>2, <2>2 DEF NothingMissing
  <2> QED BY <2>1, <2>2 DEF NothingMissing
<1>5. ContentsAgree(e, sent) BY <1>1, <1>2 DEF ContentsAgree
<1> QED BY <1>3, <1>4, <1>5 DEF SceneAgrees

(* A message that joins the queue. *)
LEMMA QueueJoined ==
  ASSUME NEW d \in Driver, NEW msg \in QueuedMessage, NEW sent,
         NEW q, q = IF msg.kind = "RDL_FORCE_RELOAD" THEN <<>> ELSE d.queue
  PROVE  LET e == Enqueued(d, msg) IN
         /\ e.queue \in Seq(QueuedMessage)
         /\ \A kinds, x : x \in Ids(e.queue, kinds) <=>
              x \in Ids(q, kinds) \/ (x = msg.arg /\ msg.kind \in kinds)
         /\ NoSetUp(q) /\ msg.kind # "SETUP" => NoSetUp(e.queue)
         /\ Recorded(q, sent) /\ (msg.kind \in SceneKinds =>
              /\ msg.arg \in Nat /\ msg.arg \in DOMAIN sent
              /\ sent[msg.arg] = after(sent[msg.arg - 1], msg)) => Recorded(e.queue, sent)
         /\ Ascending(q) /\ (msg.kind \in SceneKinds => \A x \in Ids(q, SceneKinds) : x < msg.arg) =>
              Ascending(e.queue)
<1> DEFINE e == Enqueued(d, msg)
           one == <<msg>>
<1>1. q \in Seq(QueuedMessage) BY DEF Driver
<1>2. e.queue = Append(q, msg) BY DEF Enqueued, Driver
<1>3. /\ one \in Seq(QueuedMessage)
      /\ \A kinds, x : x \in Ids(one, kinds) <=> x = msg.arg /\ msg.kind \in kinds
      /\ NoSetUp(one) <=> msg.kind # "SETUP"
      /\ Recorded(one, sent) <=> (msg.kind \in SceneKinds =>
           /\ msg.arg \in Nat /\ msg.arg \in DOMAIN sent
           /\ sent[msg.arg] = after(sent[msg.arg - 1], msg))
      /\ Ascending(one)
      /\ \A s \in Seq(QueuedMessage) : Append(s, msg) = s \o one
  BY WayOne
<1> HIDE DEF one, e
<1>4. e.queue = q \o one BY <1>1, <1>2, <1>3
<1>5. /\ \A kinds, x : x \in Ids(q \o one, kinds) <=> x \in Ids(q, kinds) \/ x \in Ids(one, kinds)
      /\ NoSetUp(q) /\ NoSetUp(one) => NoSetUp(q \o one)
      /\ Recorded(q, sent) /\ Recorded(one, sent) => Recorded(q \o one, sent)
      /\ Ascending(q) /\ Ascending(one)
           /\ (\A x \in Ids(q, SceneKinds), y \in Ids(one, SceneKinds) : x < y) => Ascending(q \o one)
  BY <1>1, <1>3, WayConcat
<1>6. e.queue \in Seq(QueuedMessage) BY <1>1, <1>3, <1>4
<1>7. \A kinds, x : x \in Ids(e.queue, kinds) <=>
        x \in Ids(q, kinds) \/ (x = msg.arg /\ msg.kind \in kinds)
  BY <1>3, <1>4, <1>5
<1>8. Ascending(q) /\ (msg.kind \in SceneKinds => \A x \in Ids(q, SceneKinds) : x < msg.arg) =>
        Ascending(e.queue)
  BY <1>3, <1>4, <1>5
<1> QED BY <1>3, <1>4, <1>5, <1>6, <1>7, <1>8 DEF e


(* Geometry is not queued. *)
LEMMA QueuedIds ==
  ASSUME NEW q \in Seq(QueuedMessage)
  PROVE  \A x : x \in Ids(q, SceneKinds) <=> x \in Ids(q, RdlKinds)
<1>1. \A k \in 1 .. Len(q) : q[k] \in QueuedMessage BY ElementFacts
<1>2. \A k \in 1 .. Len(q) : q[k].kind \in SceneKinds <=> q[k].kind \in RdlKinds
  <2> TAKE k \in 1 .. Len(q)
  <2>1. q[k].kind # "GEOMETRY" BY <1>1, QueuedKinds DEF Scene!RoiKinds
  <2> QED BY <2>1 DEF SceneKinds
<1>3. \A kinds, x : x \in Ids(q, kinds) <=> \E k \in 1 .. Len(q) : x = q[k].arg /\ q[k].kind \in kinds
  BY WayMembers
<1> QED BY <1>2, <1>3

(* A message without an id is queued, whatever way it came. *)
LEMMA OtherQueued ==
  ASSUME NEW sent, NEW d \in Driver, NEW way, NEW last, SceneAgrees(d, way, last, sent),
         NEW rest, NoSetUp(rest), Recorded(rest, sent), Ascending(rest),
         \A x : /\ x \in Ids(rest, SceneKinds) <=> x \in Ids(way, SceneKinds)
                /\ x \in Ids(rest, RdlKinds) <=> x \in Ids(way, RdlKinds)
                /\ x \in Ids(rest, {"GEOMETRY"}) <=> x \in Ids(way, {"GEOMETRY"}),
         NEW msg \in QueuedMessage, msg.kind \in QueuedKind \ SceneKinds
  PROVE  SceneAgrees(Enqueued(d, msg), rest, last, sent)
<1> DEFINE e == Enqueued(d, msg)
<1>1. NoSetUp(d.queue) /\ Recorded(d.queue, sent) /\ Ascending(d.queue)
  BY DEF SceneAgrees, IdsInOrder
<1>2. msg.kind \notin SceneKinds /\ msg.kind \notin RdlKinds /\ msg.kind # "SETUP"
      /\ msg.kind # "RDL_FORCE_RELOAD" /\ msg.kind \notin {"RDL_FORCE_RELOAD"}
  BY DEF SceneKinds, QueuedKind, RdlKinds, Scene!RoiKinds
<1>3. /\ e.queue \in Seq(QueuedMessage)
      /\ \A kinds, x : x \in Ids(e.queue, kinds) <=>
           x \in Ids(d.queue, kinds) \/ (x = msg.arg /\ msg.kind \in kinds)
      /\ NoSetUp(e.queue) /\ Recorded(e.queue, sent) /\ Ascending(e.queue)
  BY <1>1, <1>2, QueueJoined
<1>4. /\ e.initialized = d.initialized /\ e.syncId = d.syncId /\ e.scene = d.scene
      /\ e.backup = d.backup /\ e.rebuilt = d.rebuilt /\ e.geometry = d.geometry
      /\ e.lastResult = d.lastResult
  BY DEF Enqueued, Driver
<1>5. e.lastResult = "CANCELED" => e.initialized BY <1>4 DEF SceneAgrees, ContentsAgree
<1>6. d.queue \in Seq(QueuedMessage) BY DEF Driver
<1> HIDE DEF e
<1>7. \A x : x \in Ids(e.queue, RdlKinds) <=> x \in Ids(d.queue, RdlKinds) BY <1>2, <1>3
<1>8. \A r : ReloadedAt(d.queue, r) => ReloadedAt(e.queue, r)
  <2> SUFFICES ASSUME NEW r, ReloadedAt(d.queue, r) PROVE ReloadedAt(e.queue, r) OBVIOUS
  <2>1. PICK x \in Ids(d.queue, {"RDL_FORCE_RELOAD"}) : r < x BY <1>6, ReloadFacts
  <2>2. x \in Ids(e.queue, {"RDL_FORCE_RELOAD"}) BY <1>3
  <2> QED BY <1>3, <2>1, <2>2, ReloadFacts
<1>9. SceneAgrees(e, rest, last, sent) BY <1>3, <1>4, <1>5, <1>7, <1>8, AgreesAsBefore
<1> QED BY <1>9 DEF e

(* What is left of a way that has no scene message at its head. *)
LEMMA RestIsSame ==
  ASSUME NEW sent, NEW S, NEW way \in Seq(S), way # <<>>, Head(way).kind \notin SceneKinds,
         NoSetUp(way), Recorded(way, sent), Ascending(way)
  PROVE  /\ NoSetUp(Tail(way)) /\ Recorded(Tail(way), sent) /\ Ascending(Tail(way))
         /\ \A x : /\ x \in Ids(Tail(way), SceneKinds) <=> x \in Ids(way, SceneKinds)
                   /\ x \in Ids(Tail(way), RdlKinds) <=> x \in Ids(way, RdlKinds)
                   /\ x \in Ids(Tail(way), {"GEOMETRY"}) <=> x \in Ids(way, {"GEOMETRY"})
<1>1. Head(way).kind \notin RdlKinds /\ Head(way).kind \notin {"GEOMETRY"} BY DEF SceneKinds
<1>2. \A kinds, x : x \in Ids(way, kinds) <=>
        x \in Ids(Tail(way), kinds) \/ (x = Head(way).arg /\ Head(way).kind \in kinds)
  BY WayTail
<1>3. NoSetUp(Tail(way)) /\ Recorded(Tail(way), sent) /\ Ascending(Tail(way)) BY WayTail
<1> QED BY <1>1, <1>2, <1>3

(* Geometry is received and waits. *)
LEMMA GeometryReceived ==
  ASSUME NEW sent, NEW next, HistoryAgrees(sent, next), NEW last \in DOMAIN sent,
         NEW d \in Driver, NEW S, NEW way \in Seq(S), way # <<>>, SceneAgrees(d, way, last, sent),
         Head(way).kind = "GEOMETRY",
         NEW e, e = [d EXCEPT !.geometry = Head(way).arg]
  PROVE  SceneAgrees(e, Tail(way), last, sent)
<1> DEFINE msg == Head(way)
           rest == Tail(way)
<1>1. /\ Applied(d) \in Int /\ Applied(d) <= last /\ last \in Int /\ d.geometry \in Int
      /\ \A r \in RdlIds(sent) \cup GeometryIds(sent) : r \in Nat
  BY AgreesFacts
<1>2. IdsInOrder(d, way, last, sent) /\ NothingMissing(d, way, last, sent) /\ ContentsAgree(d, sent)
  BY DEF SceneAgrees
<1>3. /\ NoSetUp(way) /\ NoSetUp(d.queue) /\ Recorded(way, sent) /\ Recorded(d.queue, sent)
      /\ Ascending(way) /\ Ascending(d.queue)
      /\ \A r \in Ids(d.queue, RdlKinds) : Applied(d) < r /\ r <= last
      /\ \A s \in Ids(way, SceneKinds) :
           /\ Applied(d) < s /\ d.geometry < s /\ s <= last
           /\ \A r \in Ids(d.queue, RdlKinds) : r < s
  BY <1>2 DEF IdsInOrder
<1>4. /\ \A kinds, x : x \in Ids(way, kinds) <=>
           x \in Ids(rest, kinds) \/ (x = msg.arg /\ msg.kind \in kinds)
      /\ NoSetUp(rest) /\ Recorded(rest, sent) /\ Ascending(rest)
      /\ msg.kind \in SceneKinds =>
           /\ msg.arg \in Nat /\ msg.arg \in DOMAIN sent
           /\ sent[msg.arg] = after(sent[msg.arg - 1], msg)
           /\ \A x \in Ids(rest, SceneKinds) : msg.arg < x
  BY <1>3, WayTail
<1>5. msg.kind = "GEOMETRY" /\ msg.kind \in SceneKinds /\ msg.kind \notin RdlKinds
  BY DEF SceneKinds, RdlKinds
<1>6. /\ e.initialized = d.initialized /\ e.syncId = d.syncId /\ e.scene = d.scene
      /\ e.backup = d.backup /\ e.rebuilt = d.rebuilt /\ e.geometry = msg.arg
      /\ e.lastResult = d.lastResult /\ e.queue = d.queue
  BY DEF Driver
<1> HIDE DEF msg, rest
<1>7. Applied(e) = Applied(d) BY <1>6 DEF Applied
<1>8. msg.arg \in GeometryIds(sent) BY <1>4, <1>5, RecordFacts
<1>9. msg.arg \in Ids(way, SceneKinds) /\ msg.arg \in Nat BY <1>4, <1>5
<1>10. Applied(d) < msg.arg /\ msg.arg <= last /\ d.geometry < msg.arg BY <1>3, <1>9
<1>11. IdsInOrder(e, rest, last, sent)
  <2>1. \A s \in Ids(rest, SceneKinds) :
          /\ Applied(d) < s /\ s <= last /\ msg.arg < s
          /\ \A r \in Ids(d.queue, RdlKinds) : r < s
    BY <1>3, <1>4, <1>5
  <2> QED BY <1>1, <1>3, <1>4, <1>6, <1>7, <1>8, <1>10, <2>1 DEF IdsInOrder
<1>12. NothingMissing(e, rest, last, sent)
  <2>1. ASSUME NEW r \in RdlIds(sent), Applied(e) < r, r <= last
        PROVE  r \in Ids(e.queue, RdlKinds) \cup Ids(rest, RdlKinds) \/ ReloadedAt(e.queue, r)
    BY <1>2, <1>4, <1>5, <1>6, <1>7, <2>1 DEF NothingMissing
  <2>2. ASSUME NEW g \in GeometryIds(sent), Applied(e) < g, g <= last
        PROVE  \/ g <= e.geometry
               \/ \E h \in Ids(rest, {"GEOMETRY"}) : g <= h /\ NoneBetween(RdlIds(sent), g, h)
    <3>1. CASE g <= d.geometry
      <4>1. g \in Nat BY <1>1, <2>2
      <4>2. g <= msg.arg BY <1>1, <1>9, <1>10, <3>1, <4>1
      <4> QED BY <1>6, <4>2
    <3>2. ASSUME NEW h \in Ids(way, {"GEOMETRY"}), g <= h, NoneBetween(RdlIds(sent), g, h)
          PROVE  g <= e.geometry \/ h \in Ids(rest, {"GEOMETRY"})
      BY <1>4, <1>6, <3>2
    <3> QED BY <1>2, <1>7, <2>2, <3>1, <3>2 DEF NothingMissing
  <2> QED BY <2>1, <2>2 DEF NothingMissing
<1>13. ContentsAgree(e, sent) BY <1>2, <1>6, <1>7 DEF ContentsAgree
<1> QED BY <1>11, <1>12, <1>13 DEF SceneAgrees, rest


(* An RDLMessage is received and joins the queue, or empties it first. *)
LEMMA RdlReceived ==
  ASSUME NEW sent, NEW next, HistoryAgrees(sent, next), NEW last \in DOMAIN sent,
         NEW d \in Driver, NEW S, NEW way \in Seq(S), way # <<>>, SceneAgrees(d, way, last, sent),
         Head(way).kind \in RdlKinds, Head(way) \in QueuedMessage
  PROVE  SceneAgrees(Enqueued(d, Head(way)), Tail(way), last, sent)
<1> DEFINE msg == Head(way)
           rest == Tail(way)
           reload == msg.kind = "RDL_FORCE_RELOAD"
           q == IF reload THEN <<>> ELSE d.queue
           e == Enqueued(d, msg)
<1>1. /\ Applied(d) \in Int /\ Applied(d) <= last /\ last \in Int /\ d.geometry \in Int
      /\ \A r \in RdlIds(sent) \cup GeometryIds(sent) : r \in Nat
      /\ d.queue \in Seq(QueuedMessage)
  BY AgreesFacts
<1>2. IdsInOrder(d, way, last, sent) /\ NothingMissing(d, way, last, sent) /\ ContentsAgree(d, sent)
  BY DEF SceneAgrees
<1>3. /\ NoSetUp(way) /\ NoSetUp(d.queue) /\ Recorded(way, sent) /\ Recorded(d.queue, sent)
      /\ Ascending(way) /\ Ascending(d.queue)
      /\ Applied(d) <= last
      /\ d.geometry # UNDEFINED => d.geometry \in GeometryIds(sent) /\ Applied(d) < d.geometry
      /\ d.geometry <= last
      /\ \A r \in Ids(d.queue, RdlKinds) : Applied(d) < r /\ r <= last
      /\ \A s \in Ids(way, SceneKinds) :
           /\ Applied(d) < s /\ d.geometry < s /\ s <= last
           /\ \A r \in Ids(d.queue, RdlKinds) : r < s
  BY <1>2 DEF IdsInOrder
<1>4. /\ \A kinds, x : x \in Ids(way, kinds) <=>
           x \in Ids(rest, kinds) \/ (x = msg.arg /\ msg.kind \in kinds)
      /\ NoSetUp(rest) /\ Recorded(rest, sent) /\ Ascending(rest)
      /\ msg.kind \in SceneKinds =>
           /\ msg.arg \in Nat /\ msg.arg \in DOMAIN sent
           /\ sent[msg.arg] = after(sent[msg.arg - 1], msg)
           /\ \A x \in Ids(rest, SceneKinds) : msg.arg < x
  BY <1>3, WayTail
<1>5. msg.kind \in SceneKinds /\ msg.kind \in RdlKinds /\ msg.kind \notin {"GEOMETRY"}
      /\ msg.kind # "SETUP" /\ (reload <=> msg.kind \in {"RDL_FORCE_RELOAD"})
  BY DEF SceneKinds, RdlKinds
<1>6. /\ e.initialized = d.initialized /\ e.syncId = d.syncId /\ e.scene = d.scene
      /\ e.backup = d.backup /\ e.rebuilt = d.rebuilt /\ e.geometry = d.geometry
      /\ e.lastResult = d.lastResult
  BY DEF Driver, Enqueued
<1>7. /\ q \in Seq(QueuedMessage) /\ NoSetUp(q) /\ Recorded(q, sent) /\ Ascending(q)
      /\ reload => \A kinds, x : x \notin Ids(q, kinds)
      /\ ~reload => q = d.queue
  <2>1. CASE reload
    <3>1. q = <<>> /\ DOMAIN q = {} BY <2>1
    <3>2. \A kinds, x : x \notin Ids(q, kinds) BY <3>1 DEF Ids
    <3> QED BY <2>1, <3>1, <3>2 DEF NoSetUp, Recorded, Ascending
  <2>2. CASE ~reload BY <1>1, <1>3, <2>2
  <2> QED BY <2>1, <2>2
<1>8. msg.arg \in Ids(way, SceneKinds) /\ msg.arg \in Nat BY <1>4, <1>5
<1>9. Applied(d) < msg.arg /\ msg.arg <= last /\ \A r \in Ids(d.queue, RdlKinds) : r < msg.arg
  BY <1>3, <1>8
<1>10. \A x \in Ids(q, SceneKinds) : x < msg.arg
  <2>1. CASE reload BY <1>7, <2>1
  <2>2. CASE ~reload BY <1>1, <1>7, <1>9, <2>2, QueuedIds
  <2> QED BY <2>1, <2>2
<1>11. msg.kind \in SceneKinds =>
         /\ msg.arg \in Nat /\ msg.arg \in DOMAIN sent
         /\ sent[msg.arg] = after(sent[msg.arg - 1], msg)
  BY <1>4
<1>12. /\ e.queue \in Seq(QueuedMessage)
       /\ \A kinds, x : x \in Ids(e.queue, kinds) <=>
            x \in Ids(q, kinds) \/ (x = msg.arg /\ msg.kind \in kinds)
       /\ NoSetUp(e.queue) /\ Recorded(e.queue, sent) /\ Ascending(e.queue)
  <2>1. msg \in QueuedMessage OBVIOUS
  <2>2. q = IF msg.kind = "RDL_FORCE_RELOAD" THEN <<>> ELSE d.queue OBVIOUS
  <2> HIDE DEF msg, q
  <2> QED BY <1>5, <1>7, <1>10, <1>11, <2>1, <2>2, QueueJoined
<1> HIDE DEF msg, rest, q, e, reload
<1>13. Applied(e) = Applied(d) BY <1>6 DEF Applied
<1>14. \A x : x \in Ids(e.queue, RdlKinds) <=> x \in Ids(q, RdlKinds) \/ x = msg.arg
  BY <1>5, <1>12
<1>15. \A x \in Ids(q, RdlKinds) : x \in Ids(d.queue, RdlKinds) BY <1>7
<1>16. IdsInOrder(e, rest, last, sent)
  <2>1. \A r \in Ids(e.queue, RdlKinds) : Applied(d) < r /\ r <= last
    BY <1>3, <1>9, <1>14, <1>15
  <2>2. \A s \in Ids(rest, SceneKinds) :
          /\ Applied(d) < s /\ d.geometry < s /\ s <= last
          /\ \A r \in Ids(e.queue, RdlKinds) : r < s
    BY <1>3, <1>4, <1>5, <1>14, <1>15
  <2> QED BY <1>3, <1>4, <1>6, <1>12, <1>13, <2>1, <2>2 DEF IdsInOrder
<1>17. \A r : ReloadedAt(e.queue, r) <=> \E x \in Ids(e.queue, {"RDL_FORCE_RELOAD"}) : r < x
  BY <1>12, ReloadFacts
<1>18. ASSUME reload, NEW r, r < msg.arg PROVE ReloadedAt(e.queue, r)
  <2>1. msg.arg \in Ids(e.queue, {"RDL_FORCE_RELOAD"}) BY <1>5, <1>12, <1>18
  <2> QED BY <1>17, <1>18, <2>1
<1>19. NothingMissing(e, rest, last, sent)
  <2>1. ASSUME NEW r \in RdlIds(sent), Applied(e) < r, r <= last
        PROVE  r \in Ids(e.queue, RdlKinds) \cup Ids(rest, RdlKinds) \/ ReloadedAt(e.queue, r)
    <3>1. CASE r \in Ids(d.queue, RdlKinds)
      <4>1. CASE reload BY <1>9, <1>18, <3>1, <4>1
      <4>2. CASE ~reload BY <1>7, <1>14, <3>1, <4>2
      <4> QED BY <4>1, <4>2
    <3>2. CASE r \in Ids(way, RdlKinds) BY <1>4, <1>14, <3>2
    <3>3. CASE ReloadedAt(d.queue, r)
      <4>1. PICK x \in Ids(d.queue, {"RDL_FORCE_RELOAD"}) : r < x BY <1>1, <3>3, ReloadFacts
      <4>2. CASE reload
        <5>1. x \in Ids(d.queue, RdlKinds)
          <6>1. \A kinds, y : y \in Ids(d.queue, kinds) <=>
                  \E k \in 1 .. Len(d.queue) : y = d.queue[k].arg /\ d.queue[k].kind \in kinds
            BY <1>1, WayMembers
          <6> QED BY <6>1 DEF RdlKinds
        <5>2. x \in Nat BY <1>1, <1>3, <5>1, IdsFacts
        <5>3. r < msg.arg BY <1>1, <1>8, <1>9, <4>1, <5>1, <5>2
        <5> QED BY <1>18, <4>2, <5>3
      <4>3. CASE ~reload
        <5>1. x \in Ids(e.queue, {"RDL_FORCE_RELOAD"}) BY <1>7, <1>12, <4>3
        <5> QED BY <1>17, <4>1, <5>1
      <4> QED BY <4>2, <4>3
    <3> QED BY <1>2, <1>13, <2>1, <3>1, <3>2, <3>3 DEF NothingMissing
  <2>2. ASSUME NEW g \in GeometryIds(sent), Applied(e) < g, g <= last
        PROVE  \/ g <= e.geometry
               \/ \E h \in Ids(rest, {"GEOMETRY"}) : g <= h /\ NoneBetween(RdlIds(sent), g, h)
    <3>1. \A h \in Ids(way, {"GEOMETRY"}) : h \in Ids(rest, {"GEOMETRY"}) BY <1>4, <1>5
    <3> QED BY <1>2, <1>6, <1>13, <2>2, <3>1 DEF NothingMissing
  <2> QED BY <2>1, <2>2 DEF NothingMissing
<1>20. ContentsAgree(e, sent) BY <1>2, <1>6, <1>13 DEF ContentsAgree
<1> QED BY <1>16, <1>19, <1>20 DEF SceneAgrees, e, rest, msg

(* Whatever is received, the machine and the rest of the way agree. *)
LEMMA HandledAgrees ==
  ASSUME NEW sent, NEW next, HistoryAgrees(sent, next), NEW last \in DOMAIN sent,
         NEW d, DriverOK(d), NEW S, NEW way \in Seq(S), way # <<>>, SceneAgrees(d, way, last, sent),
         Head(way) \in Message, NEW e, Handled(d, e, Head(way))
  PROVE  SceneAgrees(e, Tail(way), last, sent)
<1> DEFINE msg == Head(way)
<1>1. d \in Driver /\ (d.phase # "stopped" => d.initialized) BY DEF DriverOK, QueueStarts
<1>2. /\ NoSetUp(way) /\ NoSetUp(d.queue) /\ Recorded(way, sent) /\ Recorded(d.queue, sent)
      /\ Ascending(way) /\ Ascending(d.queue)
      /\ d.lastResult = "CANCELED" => d.initialized
  BY DEF SceneAgrees, IdsInOrder, ContentsAgree
<1>3. ASSUME msg.kind \in {"PICK", "STOP", "INVALIDATE"},
             e.initialized = d.initialized, e.syncId = d.syncId, e.scene = d.scene,
             e.backup = d.backup, e.rebuilt = d.rebuilt, e.geometry = d.geometry,
             e.queue = d.queue, e.lastResult = "CANCELED" => e.initialized
      PROVE  SceneAgrees(e, Tail(way), last, sent)
  <2>1. Head(way).kind \notin SceneKinds BY <1>3 DEF SceneKinds, RdlKinds
  <2>2. /\ NoSetUp(Tail(way)) /\ Recorded(Tail(way), sent) /\ Ascending(Tail(way))
        /\ \A x : /\ x \in Ids(Tail(way), SceneKinds) <=> x \in Ids(way, SceneKinds)
                  /\ x \in Ids(Tail(way), RdlKinds) <=> x \in Ids(way, RdlKinds)
                  /\ x \in Ids(Tail(way), {"GEOMETRY"}) <=> x \in Ids(way, {"GEOMETRY"})
    BY <1>2, <2>1, RestIsSame
  <2> QED BY <1>2, <1>3, <2>2, AgreesAsBefore
<1>4. CASE msg.kind \in {"PICK", "STOP", "INVALIDATE"} /\ e = d BY <1>2, <1>3, <1>4
<1>5. CASE msg.kind = "GEOMETRY" /\ e = [d EXCEPT !.geometry = msg.arg]
  BY <1>1, <1>5, GeometryReceived
<1>6. CASE msg.kind \in QueuedKind /\ e = Enqueued(d, msg)
  <2>1. msg \in QueuedMessage BY <1>6, MessageKinds
  <2>2. CASE msg.kind \in RdlKinds BY <1>1, <1>6, <2>1, <2>2, RdlReceived
  <2>3. CASE msg.kind \notin RdlKinds
    <3>1. msg.kind \in QueuedKind \ SceneKinds
      BY <1>6, <2>3 DEF QueuedKind, SceneKinds, RdlKinds, Scene!RoiKinds
    <3>2. /\ NoSetUp(Tail(way)) /\ Recorded(Tail(way), sent) /\ Ascending(Tail(way))
          /\ \A x : /\ x \in Ids(Tail(way), SceneKinds) <=> x \in Ids(way, SceneKinds)
                    /\ x \in Ids(Tail(way), RdlKinds) <=> x \in Ids(way, RdlKinds)
                    /\ x \in Ids(Tail(way), {"GEOMETRY"}) <=> x \in Ids(way, {"GEOMETRY"})
      BY <1>2, <3>1, RestIsSame
    <3> HIDE DEF msg
    <3>3. SceneAgrees(Enqueued(d, msg), Tail(way), last, sent)
      BY <1>1, <2>1, <3>1, <3>2, OtherQueued
    <3> QED BY <1>6, <3>3
  <2> QED BY <2>2, <2>3
<1>7. CASE msg.kind = "SETUP"
  BY <1>2, <1>7, WayTail
<1>8. CASE msg.kind = "STOP" /\ d.phase = "prep" /\ e = PrepCanceled(d)
  <2>1. /\ e.initialized = d.initialized /\ e.syncId = d.syncId /\ e.scene = d.scene
        /\ e.backup = d.backup /\ e.rebuilt = d.rebuilt /\ e.geometry = d.geometry
        /\ e.queue = d.queue
    BY <1>1, <1>8 DEF PrepCanceled, Driver
  <2> QED BY <1>1, <1>3, <1>8, <2>1
<1>9. ASSUME msg.kind \in {"STOP", "INVALIDATE"}, NEW phase, e = [d EXCEPT !.phase = phase]
      PROVE  SceneAgrees(e, Tail(way), last, sent)
  <2>1. /\ e.initialized = d.initialized /\ e.syncId = d.syncId /\ e.scene = d.scene
        /\ e.backup = d.backup /\ e.rebuilt = d.rebuilt /\ e.geometry = d.geometry
        /\ e.queue = d.queue /\ e.lastResult = d.lastResult
    BY <1>1, <1>9 DEF Driver
  <2> QED BY <1>2, <1>3, <1>9, <2>1
<1> HIDE DEF msg
<1>10. Handled(d, e, msg) BY DEF msg
<1> QED BY <1>4, <1>5, <1>6, <1>7, <1>8, <1>9, <1>10 DEF Handled


(***************************************************************************)
(* The queue is applied.                                                   *)
(***************************************************************************)

(* The scene after the first n messages of a queue whose ids start behind
   "from": it has the RDLMessages of the last of them, and geometry that was
   right at some time since. *)
UpTo(c, queue, n, from, sent) ==
  /\ Applied(c) \in DOMAIN sent /\ from <= Applied(c)
  /\ \/ Applied(c) = from
     \/ \E i \in 1 .. n : queue[i].kind \in RdlKinds /\ Applied(c) = queue[i].arg
  /\ \A i \in 1 .. n : queue[i].kind \in RdlKinds => queue[i].arg <= Applied(c)
  /\ c.scene.rdl = sent[Applied(c)].rdl /\ c.backup.rdl = c.scene.rdl
  /\ \/ c.rebuilt
     \/ \E w \in DOMAIN sent :
          /\ from <= w /\ w <= Applied(c)
          /\ c.scene.geometry = sent[w].geometry \/ sent[w].geometry = UNDEFINED

(* A queue of which nothing is missing but what a reload makes unnecessary. *)
Gapless(queue, from, sent) ==
  /\ NoSetUp(queue) /\ Recorded(queue, sent) /\ Ascending(queue)
  /\ \A i \in 1 .. Len(queue) : queue[i].kind \in {"RDL_FORCE_RELOAD", "SETUP"} => i = 1
  /\ \A i \in 1 .. Len(queue) : queue[i].kind \in RdlKinds =>
       /\ from < queue[i].arg
       /\ \A r \in RdlIds(sent) : from < r /\ r < queue[i].arg =>
            r \in Ids(queue, RdlKinds) \/ ReloadedAt(queue, r)

(* A message that is neither for the scene nor a RENDER_SETUP. *)
LEMMA UpToOther ==
  ASSUME NEW c, NEW queue, NEW n \in Nat, n >= 1, NEW from, NEW sent, UpTo(c, queue, n - 1, from, sent),
         queue[n].kind \notin RdlKinds,
         NEW e, e.initialized = c.initialized, e.syncId = c.syncId, e.backup = c.backup,
         e.scene.rdl = c.scene.rdl, e.scene.geometry = c.scene.geometry, e.rebuilt = c.rebuilt
  PROVE  UpTo(e, queue, n, from, sent)
<1>1. Applied(e) = Applied(c) BY DEF Applied
<1>2. \A i \in 1 .. n : i \in 1 .. n - 1 \/ i = n OBVIOUS
<1>3. \A i \in 1 .. n - 1 : i \in 1 .. n OBVIOUS
<1> QED BY <1>1, <1>2, <1>3 DEF UpTo

(* The id of the next scene message is newer than all that are applied. *)
LEMMA NextIsNewer ==
  ASSUME NEW queue \in Seq(QueuedMessage), NEW sent, NEW from \in Int, Gapless(queue, from, sent),
         NEW n \in 1 .. Len(queue), queue[n].kind \in RdlKinds,
         NEW c, UpTo(c, queue, n - 1, from, sent)
  PROVE  Applied(c) < queue[n].arg
<1>1. CASE Applied(c) = from BY <1>1 DEF Gapless
<1>2. ASSUME NEW i \in 1 .. n - 1, queue[i].kind \in RdlKinds, Applied(c) = queue[i].arg
      PROVE  Applied(c) < queue[n].arg
  <2>1. Len(queue) \in Nat OBVIOUS
  <2>2. i \in 1 .. Len(queue) /\ i < n BY <2>1
  <2>3. Ascending(queue) <=> \A j, k \in 1 .. Len(queue) :
          j < k /\ queue[j].kind \in SceneKinds /\ queue[k].kind \in SceneKinds => queue[j].arg < queue[k].arg
    BY WayMembers
  <2>4. Ascending(queue) BY DEF Gapless
  <2> QED BY <1>2, <2>2, <2>3, <2>4 DEF SceneKinds
<1> QED BY <1>1, <1>2 DEF UpTo

(* An RDLMessage follows on the one before it, or on the reload. *)
LEMMA UpToRdl ==
  ASSUME NEW sent, NEW next, HistoryAgrees(sent, next),
         NEW queue \in Seq(QueuedMessage), NEW from \in Int, Gapless(queue, from, sent),
         NEW n \in 1 .. Len(queue), queue[n].kind = "RDL",
         NEW c, UpTo(c, queue, n - 1, from, sent),
         NEW e, e.initialized, e.syncId = queue[n].arg, e.rebuilt = c.rebuilt,
         e.scene.rdl = c.scene.rdl \cup {queue[n].arg},
         e.backup.rdl = c.backup.rdl \cup {queue[n].arg},
         e.scene.geometry = c.scene.geometry
  PROVE  UpTo(e, queue, n, from, sent)
<1> DEFINE msg == queue[n]
           u == msg.arg
           t == Applied(c)
<1>1. msg.kind \in RdlKinds /\ msg.kind \in SceneKinds BY DEF RdlKinds, SceneKinds
<1>2. Len(queue) \in Nat /\ n \in Int OBVIOUS
<1>3. t < u BY <1>1, NextIsNewer
<1>4. /\ u \in Nat /\ u \in DOMAIN sent /\ sent[u] = after(sent[u - 1], msg)
  <2>1. Recorded(queue, sent) BY DEF Gapless
  <2> QED BY <1>1, <2>1, WayMembers
<1>5. /\ u - 1 \in -1 .. next - 1
      /\ sent[u].rdl = sent[u - 1].rdl \cup {u}
  <2> HIDE DEF msg
  <2> QED BY <1>4, RecordFacts DEF msg
<1>6. DOMAIN sent = -1 .. next - 1 /\ next \in Nat BY HistoryFacts
<1>7. Applied(e) = u BY DEF Applied
<1>8. t \in Int /\ t \in DOMAIN sent /\ from <= t BY <1>6 DEF UpTo
<1>9. \A j \in 1 .. Len(queue) : queue[j].kind \in RdlKinds => queue[j].arg \in Nat
  <2>1. Recorded(queue, sent) BY DEF Gapless
  <2> QED BY <2>1, WayMembers DEF SceneKinds
<1>10. \A j \in 1 .. n - 1 : queue[j].kind \in RdlKinds => queue[j].arg <= t BY DEF UpTo
<1>11. NoneBetween(RdlIds(sent), t, u - 1)
  <2> SUFFICES ASSUME NEW r \in RdlIds(sent), t < r, r <= u - 1 PROVE FALSE BY DEF NoneBetween
  <2>1. r \in Nat BY HistoryFacts
  <2>2. from < r /\ r < u BY <1>4, <1>8, <2>1
  <2>3. r \in Ids(queue, RdlKinds) \/ ReloadedAt(queue, r) BY <1>1, <2>2 DEF Gapless
  <2>4. CASE r \in Ids(queue, RdlKinds)
    <3>1. PICK j \in 1 .. Len(queue) : r = queue[j].arg /\ queue[j].kind \in RdlKinds
      BY <2>4, WayMembers
    <3>2. ~(j < n) BY <1>2, <1>8, <1>10, <2>1, <3>1
    <3>3. j # n BY <2>1, <2>2, <3>1
    <3>4. n < j BY <1>2, <3>2, <3>3
    <3>5. Ascending(queue) BY DEF Gapless
    <3>6. u < r BY <1>1, <3>1, <3>4, <3>5, WayMembers DEF SceneKinds
    <3> QED BY <1>4, <2>1, <2>2, <3>6
  <2>5. CASE ReloadedAt(queue, r)
    <3>1. PICK j \in 1 .. Len(queue) : queue[j].kind = "RDL_FORCE_RELOAD" /\ r < queue[j].arg
      BY <2>5 DEF ReloadedAt
    <3>2. j = 1 /\ n # 1 BY <3>1 DEF Gapless
    <3>3. j \in 1 .. n - 1 BY <1>2, <3>2
    <3>4. queue[j].kind \in RdlKinds BY <3>1 DEF RdlKinds
    <3>5. queue[j].arg <= t /\ queue[j].arg \in Nat BY <1>9, <1>10, <3>3, <3>4
    <3> QED BY <1>8, <2>1, <3>1, <3>5
  <2> QED BY <2>3, <2>4, <2>5
<1>12. sent[u - 1].rdl = sent[t].rdl
  <2>1. u - 1 \in DOMAIN sent /\ t <= u - 1 BY <1>3, <1>4, <1>5, <1>6, <1>8
  <2> HIDE DEF t, u
  <2> QED BY <1>8, <1>11, <2>1 DEF HistoryAgrees
<1>13. e.scene.rdl = sent[u].rdl /\ e.backup.rdl = e.scene.rdl BY <1>5, <1>12 DEF UpTo
<1>14. from <= u BY <1>3, <1>4, <1>8
<1>15. \A i \in 1 .. n : queue[i].kind \in RdlKinds => queue[i].arg <= u
  <2> SUFFICES ASSUME NEW i \in 1 .. n, queue[i].kind \in RdlKinds PROVE queue[i].arg <= u OBVIOUS
  <2>1. CASE i = n BY <1>4, <2>1
  <2>2. CASE i # n
    <3>1. i \in 1 .. n - 1 /\ i \in 1 .. Len(queue) BY <1>2, <2>2
    <3>2. queue[i].arg <= t /\ queue[i].arg \in Nat BY <1>9, <1>10, <3>1
    <3> QED BY <1>3, <1>4, <1>8, <3>2
  <2> QED BY <2>1, <2>2
<1>16. \/ e.rebuilt
       \/ \E w \in DOMAIN sent :
            /\ from <= w /\ w <= u
            /\ e.scene.geometry = sent[w].geometry \/ sent[w].geometry = UNDEFINED
  <2>1. CASE c.rebuilt BY <2>1
  <2>2. ASSUME NEW w \in DOMAIN sent, from <= w, w <= t,
               c.scene.geometry = sent[w].geometry \/ sent[w].geometry = UNDEFINED
        PROVE  w <= u /\ (e.scene.geometry = sent[w].geometry \/ sent[w].geometry = UNDEFINED)
    <3>1. w \in Int BY <1>6
    <3>2. w <= u BY <1>3, <1>4, <1>8, <2>2, <3>1
    <3> QED BY <2>2, <3>2
  <2> QED BY <2>1, <2>2 DEF UpTo
<1>17. n \in 1 .. n /\ queue[n].kind \in RdlKinds /\ Applied(e) = queue[n].arg BY <1>1, <1>2, <1>7
<1> HIDE DEF u, t, msg
<1>18. u = queue[n].arg BY DEF u, msg
<1> QED BY <1>4, <1>7, <1>13, <1>14, <1>15, <1>16, <1>17, <1>18 DEF UpTo

(* A reload comes first and starts anew. *)
LEMMA UpToReload ==
  ASSUME NEW sent, NEW next, HistoryAgrees(sent, next),
         NEW queue \in Seq(QueuedMessage), NEW from \in Int, Gapless(queue, from, sent),
         NEW n \in 1 .. Len(queue), queue[n].kind = "RDL_FORCE_RELOAD",
         NEW e, e.initialized, e.syncId = queue[n].arg,
         e.scene.rdl = {queue[n].arg}, e.backup.rdl = {queue[n].arg}, e.scene.geometry = UNDEFINED
  PROVE  UpTo(e, queue, n, from, sent)
<1> DEFINE msg == queue[n]
           u == msg.arg
<1>1. msg.kind \in RdlKinds /\ msg.kind \in SceneKinds BY DEF RdlKinds, SceneKinds
<1>2. n = 1 BY DEF Gapless
<1>3. u \in Nat /\ u \in DOMAIN sent /\ sent[u] = after(sent[u - 1], msg)
  <2>1. Recorded(queue, sent) BY DEF Gapless
  <2> QED BY <1>1, <2>1, WayMembers
<1>4. sent[u].rdl = {u} /\ sent[u].geometry = UNDEFINED
  <2> HIDE DEF msg
  <2> QED BY <1>3, RecordFacts DEF msg
<1>5. Applied(e) = u BY DEF Applied
<1>6. from < u BY <1>1 DEF Gapless
<1>7. from <= u /\ u <= u BY <1>3, <1>6
<1>8. \A i \in 1 .. n : i = n BY <1>2
<1> HIDE DEF u, msg
<1>9. u = queue[n].arg /\ n \in 1 .. n /\ queue[n].kind \in RdlKinds BY <1>1, <1>2 DEF u, msg
<1> QED BY <1>3, <1>4, <1>5, <1>7, <1>8, <1>9 DEF UpTo


LEMMA QueueRun ==
  ASSUME NEW sent, NEW next, HistoryAgrees(sent, next),
         NEW queue \in Seq(QueuedMessage), NEW from \in Int, Gapless(queue, from, sent),
         NEW d \in Driver, SenderFollows(d), UpTo(d, queue, 0, from, sent)
  PROVE  LET c == Scene!processAll(d, queue, Scene!active(queue)) IN
         /\ UpTo(c, queue, Len(queue), from, sent)
         /\ d.initialized => c.initialized
<1> DEFINE enabled == Scene!active(queue)
           L == Len(queue)
           run == Scene!processed(d, queue, enabled)
           S == {n \in 0 .. L : /\ UpTo(run[n], queue, n, from, sent)
                                /\ d.initialized => run[n].initialized}
<1>1. /\ L \in Nat /\ \A n \in 1 .. L : queue[n] \in QueuedMessage
      /\ enabled \in SUBSET (1 .. L)
      /\ (\A i \in 1 .. L : queue[i].kind \in {"RDL_FORCE_RELOAD", "SETUP"} => i = 1) =>
           \A i \in 1 .. L : queue[i].kind \in {"RDL", "RDL_FORCE_RELOAD", "SETUP"} => i \in enabled
  BY ActiveFacts
<1>2. /\ \A n \in 1 .. L : queue[n].kind # "SETUP"
      /\ \A n \in 1 .. L : queue[n].kind \in {"RDL", "RDL_FORCE_RELOAD"} => n \in enabled
  <2>1. NoSetUp(queue) /\ \A i \in 1 .. L : queue[i].kind \in {"RDL_FORCE_RELOAD", "SETUP"} => i = 1
    BY DEF Gapless
  <2>2. DOMAIN queue = 1 .. L OBVIOUS
  <2> QED BY <1>1, <2>1, <2>2 DEF NoSetUp
<1> HIDE DEF enabled, L
<1>3. \A n \in 0 .. L : run[n] \in Driver /\ SenderFollows(run[n])
  BY <1>1, ProcessedKeeps DEF L
<1>4. /\ run[0] = d
      /\ \A n \in 1 .. L :
           run[n] = IF n \in enabled THEN Scene!process(run[n - 1], queue[n]) ELSE run[n - 1]
  BY <1>1, ProcessedFacts DEF L
<1> HIDE DEF run
<1>5. 0 \in S BY <1>1, <1>4
<1>6. ASSUME NEW n \in 1 .. L, n - 1 \in S PROVE n \in S
  <2> DEFINE c == run[n - 1]
             msg == queue[n]
             e == Scene!process(c, msg)
  <2>1. /\ UpTo(c, queue, n - 1, from, sent) /\ c \in Driver /\ SenderFollows(c)
        /\ d.initialized => c.initialized
    BY <1>1, <1>3, <1>6
  <2>2. run[n] = IF n \in enabled THEN e ELSE c BY <1>4
  <2>3. msg \in QueuedMessage /\ n \in 1 .. Len(queue) /\ n \in Nat /\ n >= 1 BY <1>1 DEF L
  <2>4. msg = queue[n] OBVIOUS
  <2> HIDE DEF c, msg
  <2>5. CASE msg.kind = "RDL"
    <3>1. n \in enabled /\ msg \in RdlMessage
      BY <1>2, <2>3, <2>4, <2>5, QueuedKinds DEF Scene!RoiKinds
    <3>2. /\ e.initialized /\ e.syncId = msg.arg /\ Marks(e) = Marks(c)
          /\ e.scene.rdl = c.scene.rdl \cup {msg.arg}
          /\ e.backup.rdl = c.backup.rdl \cup {msg.arg}
          /\ e.scene.geometry = c.scene.geometry
      <4>1. e.initialized /\ Marks(e) = Marks(c) /\ UpdatedBy(c, e, msg)
        BY <2>1, <2>5, <3>1, RdlProcessed
      <4>2. c.scene \in SceneContext /\ c.backup \in SceneContext BY <2>1 DEF Driver
      <4> HIDE DEF e
      <4>3. /\ Scene!setBy(msg, c.scene).rdl = c.scene.rdl \cup {msg.arg}
            /\ Scene!setBy(msg, c.scene).geometry = c.scene.geometry
        BY <3>1, <4>2, SetFacts
      <4>4. Scene!setBy(msg, c.backup).rdl = c.backup.rdl \cup {msg.arg} BY <3>1, <4>2, SetFacts
      <4> QED BY <4>1, <4>3, <4>4 DEF UpdatedBy
    <3>3. e.rebuilt = c.rebuilt BY <3>2 DEF Marks
    <3> HIDE DEF e
    <3>4. UpTo(e, queue, n, from, sent) BY <2>1, <2>3, <2>4, <2>5, <3>2, <3>3, UpToRdl
    <3> QED BY <1>1, <2>2, <3>1, <3>2, <3>4
  <2>6. CASE msg.kind = "RDL_FORCE_RELOAD"
    <3>1. n \in enabled /\ msg \in RdlMessage
      BY <1>2, <2>3, <2>4, <2>6, QueuedKinds DEF Scene!RoiKinds
    <3>2. /\ e.initialized /\ e.syncId = msg.arg /\ e.scene.rdl = {msg.arg}
          /\ e.backup.rdl = {msg.arg} /\ e.scene.geometry = UNDEFINED
      <4>1. /\ e.initialized /\ e.syncId = msg.arg
            /\ e.scene = Scene!setBy(msg, Scene!EMPTY) /\ e.backup = e.scene
        BY <2>1, <2>6, <3>1, ReloadProcessed
      <4> HIDE DEF e
      <4>2. /\ Scene!setBy(msg, Scene!EMPTY).rdl = {} \cup {msg.arg}
            /\ Scene!setBy(msg, Scene!EMPTY).geometry = UNDEFINED
        BY <3>1, SetFacts, EmptyFacts
      <4> QED BY <4>1, <4>2
    <3> HIDE DEF e
    <3>3. UpTo(e, queue, n, from, sent) BY <2>3, <2>4, <2>6, <3>2, UpToReload
    <3> QED BY <1>1, <2>2, <3>1, <3>2, <3>3
  <2>7. CASE msg.kind \notin {"RDL", "RDL_FORCE_RELOAD"}
    <3>1. msg.kind \notin RdlKinds /\ msg.kind # "SETUP" BY <1>2, <2>4, <2>7 DEF RdlKinds
    <3>2. /\ e.scene.rdl = c.scene.rdl /\ e.backup = c.backup /\ e.rebuilt = c.rebuilt
          /\ e.scene.geometry = c.scene.geometry /\ e.syncId = c.syncId
          /\ e.initialized = c.initialized
      <4>1. CASE msg.kind = "START" BY <2>1, <4>1, StartProcessed
      <4>2. CASE msg.kind \in Scene!RoiKinds /\ (msg.kind = "ROI_SET" => msg.arg \in Regions)
        <5>1. /\ Marks(e) = Marks(c) /\ e.scene.rdl = c.scene.rdl /\ e.backup = c.backup
              /\ e.scene.geometry = c.scene.geometry /\ e.syncId = c.syncId
              /\ e.initialized = c.initialized
          BY <2>1, <4>2, RoiProcessed
        <5> QED BY <5>1 DEF Marks
      <4>3. CASE msg.kind = "VIEWPORT" /\ msg.arg \in Viewports \cup {Scene!DEFAULT}
        <5>1. /\ Marks(e) = Marks(c) /\ e.scene.rdl = c.scene.rdl /\ e.backup = c.backup
              /\ e.scene.geometry = c.scene.geometry /\ e.syncId = c.syncId
              /\ e.initialized = c.initialized
          BY <2>1, <4>3, ViewportProcessed
        <5> QED BY <5>1 DEF Marks
      <4> QED BY <2>3, <2>7, <3>1, <4>1, <4>2, <4>3, QueuedKinds
    <3> HIDE DEF e
    <3>3. UpTo(e, queue, n, from, sent) BY <2>1, <2>3, <2>4, <3>1, <3>2, UpToOther
    <3>4. UpTo(c, queue, n, from, sent) BY <2>1, <2>3, <2>4, <3>1, UpToOther
    <3> QED BY <1>1, <2>1, <2>2, <3>2, <3>3, <3>4
  <2> QED BY <2>5, <2>6, <2>7
<1>7. \A n \in 0 .. L : n \in S
  <2> HIDE DEF S
  <2> QED BY <1>1, <1>5, <1>6, SetInductionUpTo
<1>8. L \in S BY <1>1, <1>7
<1>9. Scene!processAll(d, queue, Scene!active(queue)) = run[L] BY DEF Scene!processAll, run, L, enabled
<1>10. UpTo(run[L], queue, L, from, sent) /\ (d.initialized => run[L].initialized) BY <1>8
<1> QED BY <1>9, <1>10 DEF L


(* The queue of a machine in agreement has no gap. *)
LEMMA QueueGapless ==
  ASSUME NEW sent, NEW next, HistoryAgrees(sent, next), NEW last \in DOMAIN sent,
         NEW d, DriverOK(d), NEW S, NEW way \in Seq(S), SceneAgrees(d, way, last, sent)
  PROVE  Gapless(d.queue, Applied(d), sent)
<1>1. d \in Driver /\ QueueStarts(d) BY DEF DriverOK
<1>2. d.queue \in Seq(QueuedMessage) /\ last \in Int /\ \A r \in RdlIds(sent) : r \in Nat
  BY <1>1, AgreesFacts
<1>3. IdsInOrder(d, way, last, sent) /\ NothingMissing(d, way, last, sent) BY DEF SceneAgrees
<1>4. /\ NoSetUp(d.queue) /\ Recorded(d.queue, sent) /\ Ascending(d.queue) /\ Recorded(way, sent)
      /\ \A r \in Ids(d.queue, RdlKinds) : Applied(d) < r /\ r <= last
      /\ \A s \in Ids(way, SceneKinds) : \A r \in Ids(d.queue, RdlKinds) : r < s
  BY <1>3 DEF IdsInOrder
<1>5. \A i \in 1 .. Len(d.queue) : d.queue[i].kind \in {"RDL_FORCE_RELOAD", "SETUP"} => i = 1
  BY <1>1 DEF QueueStarts
<1>6. ASSUME NEW i \in 1 .. Len(d.queue), d.queue[i].kind \in RdlKinds
      PROVE  /\ Applied(d) < d.queue[i].arg
             /\ \A r \in RdlIds(sent) : Applied(d) < r /\ r < d.queue[i].arg =>
                  r \in Ids(d.queue, RdlKinds) \/ ReloadedAt(d.queue, r)
  <2> DEFINE u == d.queue[i].arg
  <2>1. u \in Ids(d.queue, RdlKinds) BY <1>2, <1>6, WayMembers
  <2>2. u \in Nat BY <1>2, <1>4, <2>1, IdsFacts
  <2>3. Applied(d) < u /\ u <= last BY <1>4, <2>1
  <2>4. ASSUME NEW r \in RdlIds(sent), Applied(d) < r, r < u
        PROVE  r \in Ids(d.queue, RdlKinds) \/ ReloadedAt(d.queue, r)
    <3>1. r \in Nat /\ r <= last BY <1>2, <2>2, <2>3, <2>4
    <3>2. r \notin Ids(way, RdlKinds)
      <4> SUFFICES ASSUME r \in Ids(way, RdlKinds) PROVE FALSE OBVIOUS
      <4>1. r \in Ids(way, SceneKinds) BY <1>4, IdsFacts
      <4>2. u < r BY <1>4, <2>1, <4>1
      <4> QED BY <2>2, <2>4, <3>1, <4>2
    <3> QED BY <1>3, <2>4, <3>1, <3>2 DEF NothingMissing
  <2> QED BY <2>3, <2>4
<1> QED BY <1>4, <1>5, <1>6 DEF Gapless

(* What applying the queue makes of a machine in agreement. *)
LEMMA QueueApplied ==
  ASSUME NEW sent, NEW next, HistoryAgrees(sent, next), NEW last \in DOMAIN sent,
         NEW d, DriverOK(d), NEW S, NEW way \in Seq(S), SceneAgrees(d, way, last, sent)
  PROVE  LET a == Scene!applyQueue(Stopped(d)) IN
         /\ a \in Driver /\ a.queue = <<>> /\ a.geometry = d.geometry /\ a.lastResult = d.lastResult
         /\ d.initialized => a.initialized
         /\ UpTo(a, d.queue, Len(d.queue), Applied(d), sent)
<1> DEFINE s == Stopped(d)
           q == d.queue
           a == Scene!applyQueue(s)
<1>1. d \in Driver /\ QueueStarts(d) /\ SenderFollows(d) BY DEF DriverOK
<1>2. /\ s \in Driver /\ s.scene = d.scene /\ s.initialized = d.initialized
      /\ s.backup = d.backup /\ s.syncId = d.syncId /\ s.queue = q /\ s.geometry = d.geometry
      /\ s.lastResult = d.lastResult /\ s.rebuilt = d.rebuilt /\ s.phase = "stopped"
      /\ s.senderRoi = d.senderRoi /\ s.senderViewport = d.senderViewport
      /\ s.regionSet = d.regionSet
  BY <1>1, StoppedFacts
<1> HIDE DEF s, q
<1>3. SenderFollows(s) /\ QueueStarts(s)
  <2>1. SenderFollows(s)
    BY <1>1, <1>2 DEF SenderFollows, RegionOfRdl, ViewportOfBackup, NewContext
  <2>2. QueueStarts(s) BY <1>1, <1>2 DEF QueueStarts, q
  <2> QED BY <2>1, <2>2
<1>4. /\ a \in Driver /\ a.queue = <<>> /\ a.lastResult = s.lastResult /\ a.geometry = s.geometry
      /\ q = <<>> => a = s
  BY <1>2, <1>3, ApplyQueueFacts
<1>5. Gapless(q, Applied(d), sent) BY QueueGapless DEF q
<1>6. /\ Applied(d) \in Int /\ Applied(d) \in DOMAIN sent /\ q \in Seq(QueuedMessage)
  BY <1>1, AgreesFacts DEF q
<1>7. /\ d.scene.rdl = sent[Applied(d)].rdl /\ d.backup.rdl = d.scene.rdl
      /\ \/ d.scene.geometry = sent[Applied(d)].geometry
         \/ d.rebuilt \/ sent[Applied(d)].geometry = UNDEFINED
      /\ d.lastResult = "CANCELED" => d.initialized
  BY DEF SceneAgrees, ContentsAgree
<1>8. ASSUME NEW r, Applied(r) = Applied(d), r.scene.rdl = d.scene.rdl, r.backup = d.backup,
             r.rebuilt \/ (r.scene.geometry = d.scene.geometry /\ r.rebuilt = d.rebuilt)
      PROVE  UpTo(r, q, 0, Applied(d), sent)
  BY <1>6, <1>7, <1>8 DEF UpTo
<1>9. CASE q = <<>>
  <2>1. a = s /\ Len(q) = 0 BY <1>4, <1>9
  <2>2. Applied(a) = Applied(d) BY <1>2, <2>1 DEF Applied
  <2>3. UpTo(a, q, 0, Applied(d), sent) BY <1>2, <1>8, <2>1, <2>2
  <2> QED BY <1>2, <1>4, <2>1, <2>3 DEF a, s, q
<1>10. CASE q # <<>>
  <2> DEFINE r == Scene!recover(s)
             c == Scene!processAll(r, q, Scene!active(q))
  <2>1. /\ r \in Driver /\ SenderFollows(r) /\ r.backup = s.backup
        /\ ~Scene!forceReload(q) /\ s.lastResult = "CANCELED" =>
             r.rebuilt /\ r.initialized /\ r.scene = s.backup /\ r.syncId = s.syncId
        /\ ~(~Scene!forceReload(q) /\ s.lastResult = "CANCELED") => r = s
    BY <1>2, <1>3, RecoverFacts
  <2> HIDE DEF r
  <2>2. Applied(r) = Applied(d) /\ (d.initialized => r.initialized)
    BY <1>2, <1>7, <2>1 DEF Applied
  <2>3. /\ r.scene.rdl = d.scene.rdl /\ r.backup = d.backup
        /\ r.rebuilt \/ (r.scene.geometry = d.scene.geometry /\ r.rebuilt = d.rebuilt)
    BY <1>2, <1>7, <2>1
  <2>4. UpTo(r, q, 0, Applied(d), sent) BY <1>8, <2>2, <2>3
  <2>5. UpTo(c, q, Len(q), Applied(d), sent) /\ (r.initialized => c.initialized)
    BY <1>5, <1>6, <2>1, <2>4, QueueRun
  <2>6. a = [c EXCEPT !.queue = <<>>] BY <1>2, <1>10 DEF Scene!applyQueue, a, r
  <2>7. c \in Driver
    <3>1. Scene!active(q) \in SUBSET (1 .. Len(q)) /\ Len(q) \in Nat BY <1>6, ActiveFacts
    <3>2. Scene!processed(r, q, Scene!active(q))[Len(q)] \in Driver
      <4>1. Len(q) \in 0 .. Len(q) BY <3>1
      <4> HIDE DEF c
      <4> QED BY <1>6, <2>1, <3>1, <4>1, ProcessedKeeps
    <3> QED BY <3>2 DEF Scene!processAll
  <2> HIDE DEF c
  <2>8. /\ a.scene = c.scene /\ a.initialized = c.initialized /\ a.syncId = c.syncId
        /\ a.backup = c.backup /\ a.rebuilt = c.rebuilt
    BY <2>6, <2>7 DEF Driver
  <2> HIDE DEF a
  <2>9. Applied(a) = Applied(c) BY <2>8 DEF Applied
  <2>10. UpTo(a, q, Len(q), Applied(d), sent) BY <2>5, <2>8, <2>9 DEF UpTo
  <2> QED BY <1>2, <1>4, <2>2, <2>5, <2>8, <2>10 DEF a, s, q
<1> QED BY <1>9, <1>10


(* No geometry has been passed over: what would have replaced the geometry of
   the scene was followed by no RDLMessage, and so is still to come. *)
LEMMA NoGeometryBetween ==
  ASSUME NEW sent, NEW next, HistoryAgrees(sent, next), NEW last \in DOMAIN sent,
         NEW d \in Driver, NEW S, NEW way \in Seq(S), SceneAgrees(d, way, last, sent),
         NEW t, t = Applied(d) \/ t \in Ids(d.queue, RdlKinds),
         NEW w \in Int, Applied(d) <= w, d.geometry <= w
  PROVE  NoneBetween(GeometryIds(sent), w, t)
<1>1. /\ Applied(d) \in Int /\ Applied(d) <= last /\ last \in Int /\ d.geometry \in Int
      /\ \A r \in RdlIds(sent) \cup GeometryIds(sent) : r \in Nat
      /\ d.queue \in Seq(QueuedMessage)
  BY AgreesFacts
<1>2. IdsInOrder(d, way, last, sent) /\ NothingMissing(d, way, last, sent) BY DEF SceneAgrees
<1>3. /\ Recorded(d.queue, sent) /\ Recorded(way, sent)
      /\ \A r \in Ids(d.queue, RdlKinds) : Applied(d) < r /\ r <= last
      /\ \A s \in Ids(way, SceneKinds) : \A r \in Ids(d.queue, RdlKinds) : r < s
  BY <1>2 DEF IdsInOrder
<1>4. SUFFICES ASSUME NEW g \in GeometryIds(sent), w < g, g <= t PROVE FALSE
  BY DEF NoneBetween
<1>5. g \in Nat /\ Applied(d) < g BY <1>1, <1>4
<1>6. t \in Ids(d.queue, RdlKinds)
  <2>1. t # Applied(d) BY <1>1, <1>4, <1>5
  <2> QED BY <2>1
<1>7. t \in Nat /\ t \in RdlIds(sent) /\ t \notin GeometryIds(sent) BY <1>1, <1>3, <1>6, IdsFacts
<1>8. g < t /\ g <= last
  <2>1. t <= last /\ g # t BY <1>3, <1>6, <1>7
  <2> QED BY <1>1, <1>4, <1>5, <1>7, <2>1
<1>9. ~(g <= d.geometry) BY <1>1, <1>4, <1>5
<1>10. PICK h \in Ids(way, {"GEOMETRY"}) : g <= h /\ NoneBetween(RdlIds(sent), g, h)
  BY <1>2, <1>5, <1>8, <1>9 DEF NothingMissing
<1>11. h \in Nat /\ h \in Ids(way, SceneKinds) BY <1>3, <1>10, IdsFacts
<1>12. t < h BY <1>3, <1>6, <1>11
<1>13. t <= h BY <1>7, <1>11, <1>12
<1> QED BY <1>7, <1>8, <1>10, <1>13 DEF NoneBetween

(* A restart leaves a machine in agreement with what is on its way. *)
LEMMA RestartedAgrees ==
  ASSUME NEW sent, NEW next, HistoryAgrees(sent, next), NEW last \in DOMAIN sent,
         NEW d, DriverOK(d), NEW S, NEW way \in Seq(S), SceneAgrees(d, way, last, sent)
  PROVE  SceneAgrees(Restarted(d), way, last, sent)
<1> DEFINE q == d.queue
           t0 == Applied(d)
           gd == d.geometry
           a == Scene!applyQueue(Stopped(d))
           t1 == Applied(a)
           e == Scene!restart(a)
           t2 == Applied(e)
<1>1. d \in Driver BY DEF DriverOK
<1>2. /\ t0 \in Int /\ t0 >= -1 /\ t0 <= last /\ t0 \in DOMAIN sent
      /\ last \in Int /\ gd \in Int /\ gd >= -1 /\ q \in Seq(QueuedMessage)
      /\ next \in Nat /\ DOMAIN sent = -1 .. next - 1
      /\ \A r \in RdlIds(sent) \cup GeometryIds(sent) : r \in Nat
  BY <1>1, AgreesFacts
<1>3. IdsInOrder(d, way, last, sent) /\ NothingMissing(d, way, last, sent) /\ ContentsAgree(d, sent)
  BY DEF SceneAgrees
<1>4. /\ NoSetUp(way) /\ Recorded(way, sent) /\ Ascending(way) /\ Recorded(q, sent)
      /\ gd # UNDEFINED => gd \in GeometryIds(sent) /\ t0 < gd
      /\ gd <= last
      /\ \A r \in Ids(q, RdlKinds) : t0 < r /\ r <= last
      /\ \A s \in Ids(way, SceneKinds) :
           /\ t0 < s /\ gd < s /\ s <= last
           /\ \A r \in Ids(q, RdlKinds) : r < s
  BY <1>3 DEF IdsInOrder
<1>5. /\ a \in Driver /\ a.queue = <<>> /\ a.geometry = gd /\ a.lastResult = d.lastResult
      /\ d.initialized => a.initialized
      /\ UpTo(a, q, Len(q), t0, sent)
  BY QueueApplied
<1> HIDE DEF a
<1>6. /\ e \in Driver /\ Marks(e) = Marks(a)
      /\ e.initialized = a.initialized /\ e.queue = a.queue /\ e.lastResult = a.lastResult
      /\ e.scene.rdl = a.scene.rdl /\ e.backup = a.backup
      /\ ~a.initialized => e = a
      /\ a.initialized =>
           /\ e.geometry = UNDEFINED
           /\ IF gd = UNDEFINED
              THEN e.syncId = a.syncId /\ e.scene.geometry = a.scene.geometry
              ELSE /\ e.syncId = IF gd > a.syncId THEN gd ELSE a.syncId
                   /\ e.scene.geometry = gd
  BY <1>5, RestartFacts
<1> HIDE DEF e
<1>7. e.rebuilt = a.rebuilt BY <1>6 DEF Marks
<1> HIDE DEF q, t0, gd
<1>8. t1 \in DOMAIN sent /\ t1 \in Int /\ t0 <= t1 /\ a.scene.rdl = sent[t1].rdl
      /\ a.backup.rdl = a.scene.rdl
  BY <1>2, <1>5 DEF UpTo
<1>9. t1 = t0 \/ t1 \in Ids(q, RdlKinds)
  <2>1. ASSUME NEW i \in 1 .. Len(q), q[i].kind \in RdlKinds, t1 = q[i].arg PROVE t1 \in Ids(q, RdlKinds)
    BY <1>2, <2>1, WayMembers
  <2> QED BY <1>5, <2>1 DEF UpTo
<1>10. \A r \in Ids(q, RdlKinds) : r <= t1
  <2>1. \A i \in 1 .. Len(q) : q[i].kind \in RdlKinds => q[i].arg <= t1 BY <1>5 DEF UpTo
  <2> QED BY <1>2, <2>1, WayMembers
<1>11. \A r \in Ids(q, RdlKinds) : r \in Nat BY <1>2, <1>4, IdsFacts
<1>12. t1 <= last BY <1>2, <1>4, <1>9
(* where the context is after the geometry *)
<1>13. t2 = (IF a.initialized /\ gd > t1 THEN gd ELSE t1)
  <2>1. CASE ~a.initialized BY <1>6, <2>1
  <2>2. CASE a.initialized
    <3>1. t1 = a.syncId /\ t2 = e.syncId BY <1>6, <2>2 DEF Applied
    <3>2. a.syncId >= 0 BY <1>5 DEF Driver
    <3>3. gd = UNDEFINED => ~(gd > a.syncId) BY <1>5, <3>2 DEF UNDEFINED, Driver
    <3> HIDE DEF t1, t2
    <3> QED BY <1>6, <2>2, <3>1, <3>3
  <2> QED BY <2>1, <2>2
<1> HIDE DEF t1, t2
<1>14. t2 \in Int /\ t1 <= t2 /\ t2 <= last /\ (a.initialized => gd <= t2)
  BY <1>2, <1>4, <1>8, <1>12, <1>13
<1>15. \A s \in Ids(way, SceneKinds) : s \in Nat /\ t1 < s /\ t2 < s
  <2> TAKE s \in Ids(way, SceneKinds)
  <2>1. t0 < s /\ gd < s /\ \A r \in Ids(q, RdlKinds) : r < s BY <1>4
  <2>2. s \in Nat BY <1>4, IdsFacts
  <2>3. t1 < s BY <1>9, <2>1
  <2> QED BY <1>13, <2>1, <2>2, <2>3
(* without a context nothing has changed *)
<1>16. ASSUME ~a.initialized PROVE t1 = t0
  <2>1. t1 = -1 BY <1>16 DEF t1, Applied, UNDEFINED
  <2> QED BY <1>2, <1>8, <2>1
<1>17. \A r \in RdlIds(sent) : t1 < r /\ r <= last => r \in Ids(way, RdlKinds)
  <2> SUFFICES ASSUME NEW r \in RdlIds(sent), t1 < r, r <= last PROVE r \in Ids(way, RdlKinds)
    OBVIOUS
  <2>1. r \in Nat /\ t0 < r BY <1>2, <1>8
  <2>2. r \notin Ids(q, RdlKinds) BY <1>8, <1>10, <2>1
  <2>3. ~ReloadedAt(q, r)
    <3> SUFFICES ASSUME ReloadedAt(q, r) PROVE FALSE OBVIOUS
    <3>1. PICK x \in Ids(q, {"RDL_FORCE_RELOAD"}) : r < x BY <1>2, ReloadFacts
    <3>2. x \in Ids(q, RdlKinds)
      <4>1. \A kinds, y : y \in Ids(q, kinds) <=>
              \E k \in 1 .. Len(q) : y = q[k].arg /\ q[k].kind \in kinds
        BY <1>2, WayMembers
      <4> QED BY <4>1 DEF RdlKinds
    <3>3. x \in Nat /\ x <= t1 BY <1>10, <1>11, <3>2
    <3> QED BY <1>8, <2>1, <3>1, <3>3
  <2> QED BY <1>3, <2>1, <2>2, <2>3 DEF NothingMissing, q, t0
<1>18. e.queue = <<>> /\ DOMAIN e.queue = {} /\ \A kinds, x : x \notin Ids(e.queue, kinds)
  <2>1. e.queue = <<>> /\ DOMAIN e.queue = {} BY <1>5, <1>6
  <2> QED BY <2>1 DEF Ids
<1>19. IdsInOrder(e, way, last, sent)
  <2>1. NoSetUp(e.queue) /\ Recorded(e.queue, sent) /\ Ascending(e.queue)
    BY <1>18 DEF NoSetUp, Recorded, Ascending
  <2>2. /\ e.geometry # UNDEFINED => e.geometry \in GeometryIds(sent) /\ t2 < e.geometry
        /\ e.geometry <= last
        /\ \A s \in Ids(way, SceneKinds) : e.geometry < s
    <3>1. CASE a.initialized
      <4>1. e.geometry = -1 BY <1>6, <3>1 DEF UNDEFINED
      <4>2. -1 <= last BY <1>2
      <4>3. \A s \in Ids(way, SceneKinds) : -1 < s BY <1>15
      <4> QED BY <4>1, <4>2, <4>3 DEF UNDEFINED
    <3>2. CASE ~a.initialized
      <4>1. e.geometry = gd /\ t2 = t0 BY <1>5, <1>6, <1>13, <1>16, <3>2
      <4> QED BY <1>4, <4>1
    <3> QED BY <3>1, <3>2
  <2> QED BY <1>4, <1>14, <1>15, <1>18, <2>1, <2>2 DEF IdsInOrder, t2
<1>20. NothingMissing(e, way, last, sent)
  <2>1. ASSUME NEW r \in RdlIds(sent), t2 < r, r <= last PROVE r \in Ids(way, RdlKinds)
    <3>1. r \in Nat /\ t1 < r BY <1>2, <1>8, <1>14, <2>1
    <3> QED BY <1>17, <2>1, <3>1
  <2>2. ASSUME NEW g \in GeometryIds(sent), t2 < g, g <= last
        PROVE  \/ g <= e.geometry
               \/ \E h \in Ids(way, {"GEOMETRY"}) : g <= h /\ NoneBetween(RdlIds(sent), g, h)
    <3>1. g \in Nat /\ t0 < g BY <1>2, <1>8, <1>14, <2>2
    <3>2. \/ g <= gd
          \/ \E h \in Ids(way, {"GEOMETRY"}) : g <= h /\ NoneBetween(RdlIds(sent), g, h)
      BY <1>3, <2>2, <3>1 DEF NothingMissing, t0, gd
    <3>3. CASE g <= gd
      <4>1. ~a.initialized BY <1>2, <1>14, <2>2, <3>1, <3>3
      <4>2. e.geometry = gd BY <1>5, <1>6, <4>1
      <4> QED BY <3>3, <4>2
    <3> QED BY <3>2, <3>3
  <2> QED BY <2>1, <2>2 DEF NothingMissing, t2
<1>21. ContentsAgree(e, sent)
  <2>1. t2 \in DOMAIN sent
    <3>1. last <= next - 1 BY <1>2
    <3>2. t1 >= -1 BY <1>2, <1>8
    <3>3. t2 \in -1 .. next - 1
      <4>1. next - 1 \in Int /\ last \in Int /\ t1 \in Int BY <1>2, <1>8
      <4> QED BY <1>14, <3>1, <3>2, <4>1
    <3> QED BY <1>2, <3>3
  <2>2. sent[t2].rdl = sent[t1].rdl
    <3>1. NoneBetween(RdlIds(sent), t1, t2)
      <4> SUFFICES ASSUME NEW r \in RdlIds(sent), t1 < r, r <= t2 PROVE FALSE BY DEF NoneBetween
      <4>1. r \in Nat /\ r <= last BY <1>2, <1>14
      <4>2. r \in Ids(way, RdlKinds) BY <1>17, <4>1
      <4>3. r \in Ids(way, SceneKinds) BY <1>4, <4>2, IdsFacts
      <4>4. t2 < r BY <1>15, <4>3
      <4> QED BY <1>14, <4>1, <4>4
    <3> QED BY <1>8, <1>14, <2>1, <3>1 DEF HistoryAgrees
  <2>3. \A w \in DOMAIN sent : t0 <= w /\ w <= t1 /\ (gd <= w \/ w = t1) =>
          sent[t1].geometry \in {sent[w].geometry, UNDEFINED}
    <3> SUFFICES ASSUME NEW w \in DOMAIN sent, t0 <= w, w <= t1, gd <= w \/ w = t1
                 PROVE  sent[t1].geometry \in {sent[w].geometry, UNDEFINED}
      OBVIOUS
    <3>1. w \in Int BY <1>2
    <3>2. NoneBetween(GeometryIds(sent), w, t1)
      <4>1. CASE gd <= w BY <1>1, <1>9, <3>1, <4>1, NoGeometryBetween DEF q, t0, gd
      <4>2. CASE w = t1
        <5>1. \A g \in GeometryIds(sent) : ~(t1 < g /\ g <= t1) BY <1>2, <1>8
        <5> QED BY <4>2, <5>1 DEF NoneBetween
      <4> QED BY <4>1, <4>2
    <3> QED BY <1>8, <3>2 DEF HistoryAgrees
  <2>4. e.scene.geometry = sent[t2].geometry \/ e.rebuilt \/ sent[t2].geometry = UNDEFINED
    <3>1. CASE a.initialized /\ gd # UNDEFINED
      <4>1. e.scene.geometry = gd BY <1>6, <3>1
      <4>2. gd \in DOMAIN sent /\ sent[gd].geometry = gd /\ t0 < gd BY <1>4, <3>1 DEF GeometryIds
      <4>3. CASE gd > t1 BY <1>13, <3>1, <4>1, <4>2, <4>3
      <4>4. CASE ~(gd > t1)
        <5>1. t2 = t1 /\ gd <= t1 /\ t0 <= gd /\ gd <= gd BY <1>2, <1>8, <1>13, <4>2, <4>4
        <5>2. sent[t1].geometry \in {gd, UNDEFINED} BY <2>3, <4>2, <5>1
        <5> QED BY <4>1, <5>1, <5>2
      <4> QED BY <4>3, <4>4
    <3>2. CASE ~(a.initialized /\ gd # UNDEFINED)
      <4>1. e.scene.geometry = a.scene.geometry BY <1>6, <3>2
      <4>2. t2 = t1
        <5>1. gd = UNDEFINED => ~(gd > t1) BY <1>2, <1>8 DEF UNDEFINED
        <5> QED BY <1>13, <3>2, <5>1
      <4>3. CASE a.rebuilt BY <1>7, <4>3
      <4>4. ASSUME NEW w \in DOMAIN sent, t0 <= w, w <= t1,
                   a.scene.geometry = sent[w].geometry \/ sent[w].geometry = UNDEFINED
            PROVE  e.scene.geometry = sent[t1].geometry \/ sent[t1].geometry = UNDEFINED
        <5>1. w \in Int BY <1>2
        <5>2. gd <= w \/ w = t1
          <6>1. CASE a.initialized
            <7>1. gd = -1 BY <3>2, <6>1 DEF UNDEFINED
            <7> QED BY <1>2, <4>4, <5>1, <7>1
          <6>2. CASE ~a.initialized
            <7>1. t1 = t0 BY <1>16, <6>2
            <7> QED BY <1>2, <4>4, <5>1, <7>1
          <6> QED BY <6>1, <6>2
        <5>3. sent[t1].geometry \in {sent[w].geometry, UNDEFINED} BY <2>3, <4>4, <5>2
        <5> QED BY <4>1, <4>4, <5>3
      <4> QED BY <1>5, <4>2, <4>3, <4>4 DEF UpTo, t1
    <3> QED BY <3>1, <3>2
  <2>5. e.lastResult = "CANCELED" => e.initialized
    BY <1>3, <1>5, <1>6 DEF ContentsAgree
  <2> QED BY <1>6, <1>8, <2>2, <2>4, <2>5 DEF ContentsAgree, t2
<1> QED BY <1>19, <1>20, <1>21 DEF SceneAgrees, Restarted, e, a


(* Whatever a machine does itself, it agrees with what is on its way. *)
LEMMA MovedAgrees ==
  ASSUME NEW sent, NEW next, HistoryAgrees(sent, next), NEW last \in DOMAIN sent,
         NEW d, DriverOK(d), NEW S, NEW way \in Seq(S), SceneAgrees(d, way, last, sent),
         NEW e, Moved(d, e)
  PROVE  SceneAgrees(e, way, last, sent)
<1>1. d \in Driver /\ (d.phase # "stopped" => d.initialized) BY DEF DriverOK, QueueStarts
<1>2. /\ NoSetUp(way) /\ NoSetUp(d.queue) /\ Recorded(way, sent) /\ Recorded(d.queue, sent)
      /\ Ascending(way) /\ Ascending(d.queue)
      /\ d.lastResult = "CANCELED" => d.initialized
  BY DEF SceneAgrees, IdsInOrder, ContentsAgree
<1>3. CASE e = Restarted(d) BY <1>3, RestartedAgrees
<1>4. ASSUME NEW ahead \in BOOLEAN,
             e = [d EXCEPT !.phase = "rendering", !.lastResult = "FINISHED", !.ahead = ahead]
      PROVE  SceneAgrees(e, way, last, sent)
  <2>1. /\ e.initialized = d.initialized /\ e.syncId = d.syncId /\ e.scene = d.scene
        /\ e.backup = d.backup /\ e.rebuilt = d.rebuilt /\ e.geometry = d.geometry
        /\ e.queue = d.queue /\ e.lastResult = "FINISHED"
    BY <1>1, <1>4 DEF Driver
  <2> QED BY <1>2, <2>1, AgreesAsBefore
<1>5. CASE e = [d EXCEPT !.ahead = FALSE, !.reset = FALSE]
  <2>1. /\ e.initialized = d.initialized /\ e.syncId = d.syncId /\ e.scene = d.scene
        /\ e.backup = d.backup /\ e.rebuilt = d.rebuilt /\ e.geometry = d.geometry
        /\ e.queue = d.queue /\ e.lastResult = d.lastResult
    BY <1>1, <1>5 DEF Driver
  <2> QED BY <1>2, <2>1, AgreesAsBefore
<1> QED BY <1>3, <1>4, <1>5 DEF Moved

(***************************************************************************)
(* What the dispatch computation gathers and forwards.                     *)
(***************************************************************************)

LEMMA RecordedGrows ==
  ASSUME NEW sent, NEW next, HistoryAgrees(sent, next),
         NEW then, \A s \in DOMAIN sent : s \in DOMAIN then /\ then[s] = sent[s],
         NEW S, NEW s \in Seq(S), Recorded(s, sent)
  PROVE  Recorded(s, then)
<1>1. next \in Nat /\ DOMAIN sent = -1 .. next - 1 BY HistoryFacts
<1> SUFFICES ASSUME NEW i \in DOMAIN s, s[i].kind \in SceneKinds
             PROVE  /\ s[i].arg \in Nat /\ s[i].arg \in DOMAIN then
                    /\ then[s[i].arg] = after(then[s[i].arg - 1], s[i])
  BY DEF Recorded
<1>2. /\ s[i].arg \in Nat /\ s[i].arg \in DOMAIN sent
      /\ sent[s[i].arg] = after(sent[s[i].arg - 1], s[i])
  BY DEF Recorded
<1>3. s[i].arg - 1 \in DOMAIN sent BY <1>1, <1>2
<1> QED BY <1>2, <1>3

(* The last id verified is the largest. *)
LEMMA LastVerifiedFacts ==
  ASSUME NEW last \in Int, NEW S, NEW msgs \in Seq(S), \A i \in 1 .. Len(msgs) : msgs[i].arg \in Int
  PROVE  LET id == LastVerified(last, msgs) IN
         /\ id >= last /\ \A i \in 1 .. Len(msgs) : id >= msgs[i].arg
         /\ id = last \/ \E i \in 1 .. Len(msgs) : id = msgs[i].arg
<1> DEFINE L == Len(msgs)
           Best(n, id) == /\ id \in Int /\ id >= last /\ \A i \in 1 .. n : id >= msgs[i].arg
                          /\ id = last \/ \E i \in 1 .. n : id = msgs[i].arg
           T == {n \in 0 .. L : \E id : Best(n, id)}
<1>1. L \in Nat /\ DOMAIN msgs = 1 .. L OBVIOUS
<1>2. 0 \in T
  <2>1. Best(0, last) OBVIOUS
  <2> QED BY <1>1, <2>1
<1>3. ASSUME NEW n \in 1 .. L, n - 1 \in T PROVE n \in T
  <2>1. PICK id : Best(n - 1, id) BY <1>3
  <2> DEFINE x == msgs[n].arg
             best == IF x > id THEN x ELSE id
  <2>2. x \in Int /\ n \in Int /\ n >= 1 BY <1>1
  <2>3. best \in Int /\ best >= last /\ best >= x /\ best >= id BY <2>1, <2>2
  <2>4. ASSUME NEW i \in 1 .. n PROVE best >= msgs[i].arg
    <3>1. CASE i = n BY <2>3, <3>1
    <3>2. CASE i # n
      <4>1. i \in 1 .. n - 1 /\ i \in 1 .. L BY <1>1, <2>2, <3>2
      <4>2. id >= msgs[i].arg /\ msgs[i].arg \in Int /\ id \in Int BY <2>1, <4>1
      <4> HIDE DEF best
      <4> QED BY <2>3, <4>2
    <3> QED BY <3>1, <3>2
  <2>5. best = last \/ \E i \in 1 .. n : best = msgs[i].arg
    <3>1. n \in 1 .. n /\ \A i \in 1 .. n - 1 : i \in 1 .. n BY <2>2
    <3> QED BY <2>1, <3>1
  <2>6. Best(n, best) BY <2>3, <2>4, <2>5
  <2> HIDE DEF Best, best
  <2> QED BY <1>1, <2>6
<1>4. \A n \in 0 .. L : n \in T
  <2> HIDE DEF T, L
  <2> QED BY <1>1, <1>2, <1>3, SetInductionUpTo
<1>5. PICK id : Best(L, id)
  <2>1. L \in 0 .. L BY <1>1
  <2> HIDE DEF Best, L
  <2>2. L \in T BY <1>4, <2>1
  <2> QED BY <2>2
<1>6. \E y \in {last} \cup {msgs[i].arg : i \in DOMAIN msgs} :
        y >= last /\ \A i \in DOMAIN msgs : y >= msgs[i].arg
  BY <1>1, <1>5
<1>7. LastVerified(last, msgs) \in {last} \cup {msgs[i].arg : i \in DOMAIN msgs}
      /\ LastVerified(last, msgs) >= last
      /\ \A i \in DOMAIN msgs : LastVerified(last, msgs) >= msgs[i].arg
  <2> HIDE DEF Best, L
  <2> QED BY <1>6 DEF LastVerified
<1> QED BY <1>1, <1>7


(***************************************************************************)
(* Every step of the session, for what the client had sent.                *)
(***************************************************************************)

HistoryKept == HistoryAgrees(sceneOf, nextSyncId) /\ GatheredAgrees
Agreement ==
  "SYNC_ID" \notin unverified /\ ~setUp =>
    /\ NoSetUp(jsonUpdates)
    /\ \A m \in Followed : SceneAgrees(driver[m], channel[m], lastSyncId, sceneOf)

LEMMA InitAgrees == Init => HistoryKept /\ Agreement
<1> SUFFICES ASSUME Init PROVE HistoryKept /\ Agreement OBVIOUS
<1>1. /\ geometryUpdate = <<>> /\ rdlUpdates = <<>> /\ jsonUpdates = <<>> /\ lastSyncId = -1
      /\ nextSyncId = 0 /\ sceneOf = [s \in {-1} |-> ClientScene]
      /\ \A m \in Followed : channel[m] = <<>>
  BY SessionAssumption DEF Init, DispatchInit, UNDEFINED
<1>2. \A m \in Followed : /\ driver[m].scene = Scene!EMPTY /\ ~driver[m].initialized
                          /\ driver[m].backup = Scene!EMPTY /\ driver[m].queue = <<>>
                          /\ driver[m].geometry = -1 /\ driver[m].lastResult = "FINISHED"
  BY DEF Init, Scene!DriverInit, UNDEFINED, Scene!UNDEFINED
<1>3. ClientScene.rdl = {} /\ ClientScene.geometry = -1
      /\ ClientScene \in [rdl : SUBSET Nat, geometry : Int]
  BY DEF ClientScene, UNDEFINED
<1>4. DOMAIN sceneOf = {-1} /\ sceneOf[-1] = ClientScene BY <1>1
<1>5. \A s : s \in -1 .. nextSyncId - 1 <=> s = -1 BY <1>1
<1>6. DOMAIN sceneOf = -1 .. nextSyncId - 1 BY <1>4, <1>5
<1>7. RdlIds(sceneOf) = {} BY <1>3, <1>4 DEF RdlIds
<1>8. GeometryIds(sceneOf) = {} BY <1>4 DEF GeometryIds, UNDEFINED
<1>9. HistoryAgrees(sceneOf, nextSyncId)
  <2>1. \A s \in DOMAIN sceneOf :
          /\ sceneOf[s] \in [rdl : SUBSET Nat, geometry : Int]
          /\ sceneOf[s].geometry >= -1 /\ sceneOf[s].geometry <= s
          /\ \A r \in sceneOf[s].rdl : r <= s
    BY <1>3, <1>4
  <2>2. \A s, t \in DOMAIN sceneOf : sceneOf[t] = sceneOf[s] BY <1>4
  <2>3. nextSyncId \in Nat BY <1>1
  <2> QED BY <1>4, <1>6, <2>1, <2>2, <2>3 DEF HistoryAgrees, UNDEFINED
<1>10. \A kinds : Ids(<<>>, kinds) = {} BY DEF Ids
<1>11. NoSetUp(<<>>) /\ Recorded(<<>>, sceneOf) /\ Ascending(<<>>)
  BY DEF NoSetUp, Recorded, Ascending
<1>12. GatheredAgrees
  <2>1. lastSyncId \in DOMAIN sceneOf /\ Len(geometryUpdate) <= 1 BY <1>1, <1>4
  <2> QED BY <1>1, <1>7, <1>8, <1>10, <1>11, <2>1 DEF GatheredAgrees
<1>13. ASSUME NEW m \in Followed PROVE SceneAgrees(driver[m], channel[m], lastSyncId, sceneOf)
  <2> DEFINE d == driver[m]
  <2>1. Applied(d) = -1 BY <1>2 DEF Applied, UNDEFINED
  <2>2. d.queue = <<>> /\ channel[m] = <<>> /\ d.geometry = -1 /\ d.lastResult = "FINISHED"
        /\ d.scene.rdl = {} /\ d.scene.geometry = -1 /\ d.backup.rdl = {}
    BY <1>1, <1>2, EmptyFacts DEF UNDEFINED
  <2> HIDE DEF d
  <2>3. IdsInOrder(d, channel[m], lastSyncId, sceneOf)
    BY <1>1, <1>10, <1>11, <2>1, <2>2 DEF IdsInOrder, UNDEFINED
  <2>4. NothingMissing(d, channel[m], lastSyncId, sceneOf) BY <1>7, <1>8 DEF NothingMissing
  <2>5. ContentsAgree(d, sceneOf) BY <1>3, <1>4, <2>1, <2>2 DEF ContentsAgree
  <2> QED BY <2>3, <2>4, <2>5 DEF SceneAgrees, d
<1> QED BY <1>1, <1>9, <1>11, <1>12, <1>13 DEF HistoryKept, Agreement

(* The client sends an RDLMessage or GeometryData. *)
LEMMA SendSceneKeeps ==
  ASSUME DriversInv, HistoryKept, Agreement, NEW msg \in NextSceneMessages, SendScene(msg)
  PROVE  HistoryKept' /\ Agreement'
<1> DEFINE kind == msg.kind
           next == nextSyncId
           sent == sceneOf
           then == sceneOf'
<1>1. /\ onMessage(msg) /\ nextSyncId' = next + 1
      /\ then = [s \in DOMAIN sent \cup {next} |->
                   IF s = next THEN after(sent[s - 1], msg) ELSE sent[s]]
      /\ UNCHANGED <<driver, channel, setUp>>
  BY DEF SendScene, driverVars
<1>2. ScenesTypeOK /\ HistoryAgrees(sent, next) /\ GatheredAgrees BY DEF DriversInv, HistoryKept
<1>3. /\ lastSyncId \in DOMAIN sent
      /\ Len(geometryUpdate) <= 1
      /\ Recorded(geometryUpdate, sent) /\ Recorded(rdlUpdates, sent)
      /\ \A s \in Ids(geometryUpdate, SceneKinds) \cup Ids(rdlUpdates, SceneKinds) : s > lastSyncId
      /\ \A r \in RdlIds(sent) : r > lastSyncId => r \in Ids(rdlUpdates, RdlKinds)
      /\ \A g \in GeometryIds(sent) : g > lastSyncId =>
           \E h \in Ids(geometryUpdate, SceneKinds) : g <= h
  BY <1>2 DEF GatheredAgrees
<1>4. /\ msg.kind = kind /\ msg.arg = next /\ msg \in SceneMessage /\ kind \in SceneKinds
      /\ kind = "GEOMETRY" => msg \in GeometryMessage
      /\ kind \in RdlKinds => msg \in RdlMessage
  <2>1. next \in Nat BY <1>2, HistoryFacts
  <2>2. CASE msg \in [kind : RdlKinds, arg : {nextSyncId}, window : RdlWindows]
    BY <2>1, <2>2 DEF SceneMessage, RdlMessage, SceneKinds, RdlKinds
  <2>3. CASE msg \in [kind : {"GEOMETRY"}, arg : {nextSyncId}]
    BY <2>1, <2>3 DEF SceneMessage, GeometryMessage, SceneKinds, RdlKinds
  <2> QED BY <2>2, <2>3 DEF NextSceneMessages
<1>5. /\ UNCHANGED <<lastSyncId, unverified>>
      /\ geometryUpdate' = IF kind = "GEOMETRY" THEN <<msg>> ELSE geometryUpdate
      /\ rdlUpdates' = IF kind \in RdlKinds THEN Append(rdlUpdates, msg) ELSE rdlUpdates
      /\ jsonUpdates' = jsonUpdates
  BY <1>1, <1>4 DEF onMessage, SceneKinds
<1>7. geometryUpdate \in Seq(SceneMessage) /\ rdlUpdates \in Seq(SceneMessage)
  <2>1. ASSUME NEW S, NEW T, S \subseteq T, NEW s \in Seq(S) PROVE s \in Seq(T) BY <2>1
  <2>2. /\ GeometryMessage \subseteq SceneMessage
        /\ RdlMessage \subseteq SceneMessage
    BY DEF SceneMessage, RdlMessage, GeometryMessage
  <2> QED BY <1>2, <2>1, <2>2 DEF ScenesTypeOK
<1> HIDE DEF then, sent, next, kind
<1>8. /\ HistoryAgrees(then, next + 1)
      /\ \A s \in DOMAIN sent : s \in DOMAIN then /\ then[s] = sent[s]
      /\ RdlIds(then) = IF kind \in RdlKinds THEN RdlIds(sent) \cup {next} ELSE RdlIds(sent)
      /\ GeometryIds(then) = IF kind = "GEOMETRY" THEN GeometryIds(sent) \cup {next}
                             ELSE GeometryIds(sent)
      /\ next \in DOMAIN then /\ then[next] = after(then[next - 1], msg)
  <2>1. HistoryAgrees(sent, next) BY <1>2
  <2>2. then = [s \in DOMAIN sent \cup {next} |->
                  IF s = next THEN after(sent[s - 1], msg) ELSE sent[s]]
    BY <1>1
  <2>3. kind \in SceneKinds /\ msg.kind = kind /\ msg.arg = next BY <1>4
  <2> QED BY <2>1, <2>2, <2>3, HistoryGrows
<1>9. next \in Nat /\ DOMAIN sent = -1 .. next - 1 /\ lastSyncId \in Int /\ next > lastSyncId
      /\ \A r \in RdlIds(sent) \cup GeometryIds(sent) : r \in Nat /\ r < next
  BY <1>2, <1>3, HistoryFacts
<1>10. /\ \A kinds, x : x \in Ids(<<msg>>, kinds) <=> x = next /\ kind \in kinds
       /\ Recorded(<<msg>>, then) /\ <<msg>> \in Seq(SceneMessage)
       /\ Append(rdlUpdates, msg) = rdlUpdates \o <<msg>>
  BY <1>4, <1>7, <1>8, <1>9, WayOne
<1>11. Recorded(geometryUpdate, then) /\ Recorded(rdlUpdates, then)
  BY <1>2, <1>3, <1>7, <1>8, RecordedGrows
<1>12. /\ Recorded(rdlUpdates \o <<msg>>, then)
       /\ \A kinds, x : x \in Ids(rdlUpdates \o <<msg>>, kinds) <=>
            x \in Ids(rdlUpdates, kinds) \/ (x = next /\ kind \in kinds)
  <2> HIDE DEF ScenesTypeOK
  <2>1. /\ \A kinds, x : x \in Ids(rdlUpdates \o <<msg>>, kinds) <=>
             x \in Ids(rdlUpdates, kinds) \/ x \in Ids(<<msg>>, kinds)
        /\ Recorded(rdlUpdates, then) /\ Recorded(<<msg>>, then) => Recorded(rdlUpdates \o <<msg>>, then)
    BY <1>7, <1>10, WayConcat
  <2> QED BY <1>10, <1>11, <2>1
<1>13. Len(geometryUpdate') <= 1
  <2>1. Len(<<msg>>) = 1 OBVIOUS
  <2> QED BY <1>3, <1>5, <2>1
<1>14. Recorded(geometryUpdate', then) /\ Recorded(rdlUpdates', then)
  BY <1>5, <1>10, <1>11, <1>12
<1>15. \A s \in Ids(geometryUpdate', SceneKinds) \cup Ids(rdlUpdates', SceneKinds) : s > lastSyncId
  BY <1>3, <1>5, <1>9, <1>10, <1>12
<1>16. ASSUME NEW r \in RdlIds(then), r > lastSyncId PROVE r \in Ids(rdlUpdates', RdlKinds)
  <2>1. CASE kind \in RdlKinds BY <1>3, <1>5, <1>8, <1>10, <1>12, <1>16, <2>1
  <2>2. CASE kind \notin RdlKinds BY <1>3, <1>5, <1>8, <1>16, <2>2
  <2> QED BY <2>1, <2>2
<1>17. ASSUME NEW g \in GeometryIds(then), g > lastSyncId
       PROVE  \E h \in Ids(geometryUpdate', SceneKinds) : g <= h
  <2>1. CASE kind = "GEOMETRY"
    <3>1. g <= next BY <1>8, <1>9, <2>1
    <3>2. geometryUpdate' = <<msg>> BY <1>5, <2>1
    <3>3. next \in Ids(<<msg>>, SceneKinds) BY <1>4, <1>10
    <3>4. next \in Ids(geometryUpdate', SceneKinds) BY <3>2, <3>3
    <3> QED BY <3>1, <3>4
  <2>2. CASE kind # "GEOMETRY" BY <1>3, <1>5, <1>8, <1>17, <2>2
  <2> QED BY <2>1, <2>2
<1>18. HistoryKept'
  <2>1. lastSyncId' = lastSyncId /\ lastSyncId \in DOMAIN then BY <1>3, <1>5, <1>8
  <2>2. then = sceneOf' BY DEF then
  <2>3. HistoryAgrees(sceneOf', nextSyncId') BY <1>1, <1>8, <2>2
  <2>4. GatheredAgrees' BY <1>13, <1>14, <1>15, <1>16, <1>17, <2>1, <2>2 DEF GatheredAgrees
  <2> QED BY <2>3, <2>4 DEF HistoryKept
<1>19. Agreement'
  <2> SUFFICES ASSUME "SYNC_ID" \notin unverified, ~setUp
               PROVE  /\ NoSetUp(jsonUpdates)
                      /\ \A m \in Followed : SceneAgrees(driver[m], channel[m], lastSyncId, then)
    BY <1>1, <1>5 DEF Agreement, then
  <2>1. NoSetUp(jsonUpdates) BY DEF Agreement
  <2>2. ASSUME NEW m \in Followed PROVE SceneAgrees(driver[m], channel[m], lastSyncId, then)
    <3>1. SceneAgrees(driver[m], channel[m], lastSyncId, sent) BY DEF Agreement, sent
    <3>2. driver[m] \in Driver /\ channel[m] \in Seq(SceneMessage \cup JsonMessage)
      BY <1>2 DEF ScenesTypeOK
    <3>3. /\ RdlIds(then) \in SUBSET (RdlIds(sent) \cup {next})
          /\ RdlIds(sent) \in SUBSET RdlIds(then)
          /\ GeometryIds(then) \in SUBSET (GeometryIds(sent) \cup {next})
          /\ GeometryIds(sent) \in SUBSET GeometryIds(then)
      BY <1>8
    <3> QED BY <1>2, <1>3, <1>8, <3>1, <3>2, <3>3, AgreesAsSent
  <2> QED BY <2>1, <2>2
<1> QED BY <1>18, <1>19


(* The client sends another message. *)
LEMMA SendJsonKeeps ==
  ASSUME DriversInv, HistoryKept, Agreement, NEW msg \in JsonMessage, SendJson(msg)
  PROVE  HistoryKept' /\ Agreement'
<1>1. /\ onMessage(msg) /\ setUp' = (setUp \/ msg.kind = "SETUP")
      /\ UNCHANGED <<driver, channel, nextSyncId, sceneOf>>
  BY DEF SendJson, driverVars
<1>2. msg.kind \notin RdlKinds \cup {"GEOMETRY"}
  BY DEF JsonMessage, PickMessage, OtherMessage, RoiMessage, RdlKinds
<1>3. /\ UNCHANGED <<geometryUpdate, rdlUpdates, lastSyncId, unverified>>
      /\ jsonUpdates' = Append(jsonUpdates, msg)
  BY <1>1, <1>2 DEF onMessage
<1>4. HistoryKept' BY <1>1, <1>3 DEF HistoryKept, GatheredAgrees
<1>5. Agreement'
  <2> SUFFICES ASSUME "SYNC_ID" \notin unverified, ~setUp, msg.kind # "SETUP"
               PROVE  /\ NoSetUp(Append(jsonUpdates, msg))
                      /\ \A m \in Followed : SceneAgrees(driver[m], channel[m], lastSyncId, sceneOf)
    BY <1>1, <1>3 DEF Agreement
  <2>1. NoSetUp(jsonUpdates) /\ jsonUpdates \in Seq(JsonMessage)
    BY DEF Agreement, DriversInv, ScenesTypeOK
  <2>2. NoSetUp(<<msg>>) /\ <<msg>> \in Seq(JsonMessage)
        /\ Append(jsonUpdates, msg) = jsonUpdates \o <<msg>>
    BY <2>1, WayOne
  <2>3. NoSetUp(jsonUpdates \o <<msg>>) BY <2>1, <2>2, WayConcat
  <2> QED BY <2>2, <2>3 DEF Agreement
<1> QED BY <1>4, <1>5

LEMMA ClientAgrees ==
  ASSUME DriversInv, HistoryKept, Agreement, Client
  PROVE  HistoryKept' /\ Agreement'
<1>1. ScenesTypeOK BY DEF DriversInv
<1>2. CASE SendViewport
  <2>1. UNCHANGED <<geometryUpdate, rdlUpdates, jsonUpdates, lastSyncId, unverified, driver,
                    channel, nextSyncId, sceneOf, setUp>>
    BY <1>2 DEF SendViewport, dispatchVars
  <2> QED BY <2>1 DEF HistoryKept, GatheredAgrees, Agreement
<1> QED BY <1>1, <1>2, ClientMoves, SendSceneKeeps, SendJsonKeeps

(* The numbers that the dispatch computation gives leave the kinds as they are. *)
LEMMA NumberedKindsSame ==
  ASSUME jsonUpdates \in Seq(JsonMessage), jsonSyncId \in Nat \cup {UNDEFINED}
  PROVE  /\ Len(numberedJson) = Len(jsonUpdates)
         /\ \A k \in 1 .. Len(jsonUpdates) : numberedJson[k].kind = jsonUpdates[k].kind
<1>1. numberedJson \in Seq(JsonMessage) BY NumberedPicks
<1>2. DOMAIN numberedJson = 1 .. Len(jsonUpdates) BY DEF numberedJson
<1>3. Len(numberedJson) = Len(jsonUpdates)
  <2>1. Len(jsonUpdates) \in Nat OBVIOUS
  <2> HIDE DEF numberedJson
  <2> QED BY <1>1, <1>2, <2>1
<1>4. ASSUME NEW k \in 1 .. Len(jsonUpdates) PROVE numberedJson[k].kind = jsonUpdates[k].kind
  <2>1. jsonUpdates[k] \in JsonMessage BY ElementFacts
  <2>2. \A x : [jsonUpdates[k] EXCEPT !.arg = x].kind = jsonUpdates[k].kind
    BY <2>1 DEF JsonMessage, PickMessage, OtherMessage, RoiMessage
  <2> QED BY <2>2 DEF numberedJson
<1> QED BY <1>3, <1>4

(* Without an error in the verification the geometry is older than all of the
   RDLMessages that are forwarded with it. *)
LEMMA VerifiedFacts ==
  ASSUME ScenesTypeOK, Len(geometryUpdate) <= 1, NEW last \in Int, Verified(last, geometryThenRdl)
  PROVE  /\ Ascending(geometryThenRdl)
         /\ \A h \in Ids(geometryUpdate, SceneKinds), r \in Ids(rdlUpdates, RdlKinds) : h < r
<1> DEFINE g == geometryUpdate
           r == rdlUpdates
           s == geometryThenRdl
<1>1. /\ g \in Seq(GeometryMessage) /\ r \in Seq(RdlMessage)
      /\ s \in Seq(SceneMessage)
  BY ForwardedTypes DEF ScenesTypeOK
<1>2. s = g \o r BY DEF geometryThenRdl
<1>3. /\ Len(g) \in Nat /\ Len(r) \in Nat /\ Len(s) = Len(g) + Len(r)
      /\ \A k \in 1 .. Len(g) : s[k] = g[k]
      /\ \A k \in 1 .. Len(r) : s[Len(g) + k] = r[k]
  <2> HIDE DEF g, r, s
  <2> QED BY <1>1, <1>2
<1>4. \A i \in 1 .. Len(s) : s[i].arg \in Nat
  <2> TAKE i \in 1 .. Len(s)
  <2> HIDE DEF s
  <2>1. s[i] \in SceneMessage BY <1>1, ElementFacts
  <2> QED BY <2>1 DEF SceneMessage, RdlMessage, GeometryMessage
<1>5. \A j \in 1 .. Len(s) : \A i \in 1 .. j - 1 : s[j].arg > s[i].arg
  <2>1. \A j \in DOMAIN s : \A i \in 1 .. j - 1 : s[j].arg > s[i].arg BY DEF Verified
  <2> HIDE DEF s
  <2>2. DOMAIN s = 1 .. Len(s) BY <1>1
  <2> QED BY <2>1, <2>2
<1> HIDE DEF s, g, r
<1>6. \A i, j \in 1 .. Len(s) : i < j => s[i].arg < s[j].arg
  <2> TAKE i, j \in 1 .. Len(s)
  <2> HAVE i < j
  <2>1. i \in 1 .. j - 1 BY <1>3
  <2>2. s[j].arg > s[i].arg /\ s[i].arg \in Nat /\ s[j].arg \in Nat BY <1>4, <1>5, <2>1
  <2> QED BY <2>2
<1>7. Ascending(s) BY <1>1, <1>6, WayMembers
<1>8. ASSUME NEW h \in Ids(g, SceneKinds), NEW x \in Ids(r, RdlKinds) PROVE h < x
  <2>1. PICK i \in 1 .. Len(g) : h = g[i].arg BY <1>1, WayMembers
  <2>2. PICK j \in 1 .. Len(r) : x = r[j].arg BY <1>1, WayMembers
  <2>3. i \in 1 .. Len(s) /\ Len(g) + j \in 1 .. Len(s) /\ i < Len(g) + j BY <1>3
  <2> QED BY <1>3, <1>6, <2>1, <2>2, <2>3
<1> QED BY <1>7, <1>8 DEF s, g, r


LEMMA DispatchAgrees ==
  ASSUME DriversInv, HistoryKept, Agreement, Dispatch
  PROVE  HistoryKept' /\ Agreement'
<1> DEFINE last == lastSyncId
           now == lastSyncId'
           sent == sceneOf
           both == geometryThenRdl
           Way == SceneMessage \cup JsonMessage
<1>1. /\ channel' = [m \in Machines |-> channel[m] \o
                       (IF m \in Followed THEN Forwarded ELSE SelectSeq(Forwarded, IsPick))]
      /\ UNCHANGED <<driver, sceneOf, nextSyncId, setUp>>
      /\ geometryUpdate' = <<>> /\ rdlUpdates' = <<>> /\ jsonUpdates' = <<>>
      /\ now = LastVerified(last, both)
      /\ "SYNC_ID" \notin unverified' => "SYNC_ID" \notin unverified /\ Verified(last, both)
  BY DEF Dispatch, onIdle, clientVars
<1>2. ScenesTypeOK /\ HistoryAgrees(sent, nextSyncId) /\ GatheredAgrees BY DEF DriversInv, HistoryKept
<1>3. /\ last \in DOMAIN sent
      /\ Len(geometryUpdate) <= 1
      /\ Recorded(geometryUpdate, sent) /\ Recorded(rdlUpdates, sent)
      /\ \A s \in Ids(geometryUpdate, SceneKinds) \cup Ids(rdlUpdates, SceneKinds) : s > last
      /\ \A r \in RdlIds(sent) : r > last => r \in Ids(rdlUpdates, RdlKinds)
      /\ \A g \in GeometryIds(sent) : g > last => \E h \in Ids(geometryUpdate, SceneKinds) : g <= h
  BY <1>2 DEF GatheredAgrees
<1>4. /\ both \in Seq(SceneMessage) /\ numberedJson \in Seq(JsonMessage) /\ Forwarded \in Seq(Way)
      /\ Forwarded = both \o numberedJson
  BY <1>2, ForwardedTypes DEF Forwarded
<1>5. geometryUpdate \in Seq(SceneMessage) /\ rdlUpdates \in Seq(SceneMessage)
      /\ both = geometryUpdate \o rdlUpdates
  <2>1. ASSUME NEW S, NEW T, S \subseteq T, NEW s \in Seq(S) PROVE s \in Seq(T) BY <2>1
  <2>2. /\ GeometryMessage \subseteq SceneMessage
        /\ RdlMessage \subseteq SceneMessage
    BY DEF SceneMessage, RdlMessage, GeometryMessage
  <2> QED BY <1>2, <2>1, <2>2 DEF ScenesTypeOK, geometryThenRdl
<1>6. /\ last \in Int /\ nextSyncId \in Nat /\ DOMAIN sent = -1 .. nextSyncId - 1
      /\ \A r \in RdlIds(sent) \cup GeometryIds(sent) : r \in Nat
  BY <1>2, <1>3, HistoryFacts
<1> HIDE DEF both, sent, last, now
<1>7. /\ \A kinds, x : x \in Ids(both, kinds) <=> x \in Ids(geometryUpdate, kinds) \/ x \in Ids(rdlUpdates, kinds)
      /\ Recorded(both, sent)
  BY <1>3, <1>5, WayConcat
<1>8. \A x \in Ids(both, SceneKinds) : x \in Nat /\ x \in DOMAIN sent /\ last < x
  <2>1. \A x \in Ids(both, SceneKinds) : x \in Nat /\ x \in DOMAIN sent BY <1>2, <1>4, <1>7, IdsFacts DEF sent
  <2>2. \A x \in Ids(both, SceneKinds) : x > last BY <1>3, <1>7
  <2> QED BY <1>6, <2>1, <2>2
<1>9. /\ \A k \in 1 .. Len(both) : both[k] \in SceneMessage
      /\ \A k \in 1 .. Len(both) : both[k].arg \in Int /\ both[k].kind \in SceneKinds
      /\ \A k \in 1 .. Len(both) : both[k].kind # "SETUP"
  <2>1. \A k \in 1 .. Len(both) : both[k] \in SceneMessage BY <1>4, ElementFacts
  <2>2. \A msg \in SceneMessage : msg.arg \in Int /\ msg.kind \in SceneKinds /\ msg.kind # "SETUP"
    BY DEF SceneMessage, RdlMessage, GeometryMessage, SceneKinds, RdlKinds
  <2> QED BY <2>1, <2>2
<1>10. /\ now >= last /\ \A i \in 1 .. Len(both) : now >= both[i].arg
       /\ now = last \/ \E i \in 1 .. Len(both) : now = both[i].arg
  BY <1>1, <1>4, <1>6, <1>9, LastVerifiedFacts
<1>11. /\ now = last \/ now \in Ids(both, SceneKinds)
       /\ \A x \in Ids(both, SceneKinds) : x <= now
  <2>1. \A x : x \in Ids(both, SceneKinds) <=> \E k \in 1 .. Len(both) : x = both[k].arg /\ both[k].kind \in SceneKinds
    BY <1>4, WayMembers
  <2>2. now = last \/ now \in Ids(both, SceneKinds) BY <1>9, <1>10, <2>1
  <2>3. now \in Int BY <1>6, <1>8, <2>2
  <2>4. ASSUME NEW x \in Ids(both, SceneKinds) PROVE x <= now
    <3>1. x \in Nat /\ now >= x BY <1>8, <1>10, <2>1
    <3> QED BY <2>3, <3>1
  <2> QED BY <2>2, <2>4
<1>12. now \in DOMAIN sent /\ now \in Int /\ last <= now
  <2>1. now \in DOMAIN sent BY <1>3, <1>8, <1>11
  <2>2. now \in Int BY <1>6, <1>8, <1>11
  <2> QED BY <1>6, <1>10, <2>1, <2>2
<1>13. \A r \in RdlIds(sent) : r > last => r \in Ids(both, RdlKinds) /\ r \in Ids(both, SceneKinds)
  <2>1. \A r \in RdlIds(sent) : r > last => r \in Ids(both, RdlKinds) BY <1>3, <1>7
  <2>2. \A r \in Ids(both, RdlKinds) : r \in Ids(both, SceneKinds)
    BY <1>2, <1>4, <1>7, IdsFacts DEF sent
  <2> QED BY <2>1, <2>2
<1>14. HistoryKept'
  <2>1. \A kinds : Ids(<<>>, kinds) = {} BY DEF Ids
  <2>2. Recorded(<<>>, sent) BY DEF Recorded
  <2>3. \A r \in RdlIds(sent) : ~(r > now)
    <3> SUFFICES ASSUME NEW r \in RdlIds(sent), r > now PROVE FALSE OBVIOUS
    <3>1. r \in Nat /\ r > last BY <1>6, <1>12
    <3>2. r <= now BY <1>11, <1>13, <3>1
    <3> QED BY <1>12, <3>1, <3>2
  <2>4. \A g \in GeometryIds(sent) : ~(g > now)
    <3> SUFFICES ASSUME NEW g \in GeometryIds(sent), g > now PROVE FALSE OBVIOUS
    <3>1. g \in Nat /\ g > last BY <1>6, <1>12
    <3>2. PICK h \in Ids(geometryUpdate, SceneKinds) : g <= h BY <1>3, <3>1
    <3>3. h \in Ids(both, SceneKinds) BY <1>7
    <3>4. h \in Nat /\ h <= now BY <1>8, <1>11, <3>3
    <3> QED BY <1>12, <3>1, <3>2, <3>4
  <2>5. Len(<<>>) <= 1 OBVIOUS
  <2>6. GatheredAgrees' BY <1>1, <1>12, <2>1, <2>2, <2>3, <2>4, <2>5 DEF GatheredAgrees, sent, now
  <2> QED BY <1>1, <1>2, <2>6 DEF HistoryKept, sent
<1>15. Agreement'
  <2> SUFFICES ASSUME "SYNC_ID" \notin unverified', ~setUp
               PROVE  /\ NoSetUp(<<>>)
                      /\ \A m \in Followed : SceneAgrees(driver[m], channel'[m], now, sent)
    BY <1>1 DEF Agreement, sent, now
  <2>1. Verified(last, both) /\ NoSetUp(jsonUpdates) BY <1>1 DEF Agreement
  <2>2. /\ Ascending(both)
        /\ \A h \in Ids(geometryUpdate, SceneKinds), r \in Ids(rdlUpdates, RdlKinds) : h < r
    BY <1>2, <1>3, <1>6, <2>1, VerifiedFacts DEF both
  <2> DEFINE json == numberedJson
             more == both \o json
  <2>3. json \in Seq(JsonMessage) /\ both \in Seq(Way) /\ json \in Seq(Way)
    <3>1. ASSUME NEW S, NEW T, S \subseteq T, NEW s \in Seq(S) PROVE s \in Seq(T) BY <3>1
    <3>2. SceneMessage \subseteq Way /\ JsonMessage \subseteq Way OBVIOUS
    <3> HIDE DEF Way, json
    <3> QED BY <1>4, <3>1, <3>2 DEF json
  <2>4. \A k \in 1 .. Len(json) : json[k].kind # "SETUP" /\ json[k].kind \notin SceneKinds
    <3>1. jsonUpdates \in Seq(JsonMessage) /\ jsonSyncId \in Nat \cup {UNDEFINED}
      BY <1>2 DEF ScenesTypeOK
    <3>2. /\ Len(json) = Len(jsonUpdates)
          /\ \A k \in 1 .. Len(jsonUpdates) : json[k].kind = jsonUpdates[k].kind
      BY <3>1, NumberedKindsSame
    <3>3. \A k \in 1 .. Len(jsonUpdates) : jsonUpdates[k].kind # "SETUP" BY <2>1, <3>1, WayMembers
    <3>4. \A k \in 1 .. Len(json) : json[k] \in JsonMessage BY <2>3, ElementFacts
    <3>5. \A msg \in JsonMessage : msg.kind \notin SceneKinds
      BY DEF JsonMessage, PickMessage, OtherMessage, RoiMessage, SceneKinds, RdlKinds
    <3> HIDE DEF json
    <3> QED BY <3>2, <3>3, <3>4, <3>5
  <2> HIDE DEF json, Way
  <2>5. NoSetUp(both) /\ NoSetUp(json) /\ Recorded(json, sent) /\ Ascending(json)
    BY <1>4, <1>9, <2>3, <2>4, WayMembers
  <2>6. \A kinds, x : kinds \in {SceneKinds, RdlKinds, {"GEOMETRY"}} => x \notin Ids(json, kinds)
    <3>1. \A kinds : kinds \in {SceneKinds, RdlKinds, {"GEOMETRY"}} => kinds \subseteq SceneKinds
      BY DEF SceneKinds
    <3> QED BY <2>3, <2>4, <3>1, WayMembers
  <2>7. /\ more \in Seq(Way)
        /\ \A kinds, x : x \in Ids(more, kinds) <=> x \in Ids(both, kinds) \/ x \in Ids(json, kinds)
        /\ NoSetUp(more) /\ Recorded(more, sent)
    BY <1>7, <2>3, <2>5, WayConcat
  <2>8. Ascending(more)
    <3>1. \A x \in Ids(both, SceneKinds), y \in Ids(json, SceneKinds) : x < y BY <2>6
    <3> QED BY <2>2, <2>3, <2>5, <3>1, WayConcat
  <2> HIDE DEF more
  <2>9. /\ \A x : x \in Ids(more, SceneKinds) <=> x \in Ids(both, SceneKinds)
        /\ \A x : x \in Ids(more, RdlKinds) <=> x \in Ids(both, RdlKinds)
        /\ \A x : x \in Ids(more, {"GEOMETRY"}) <=> x \in Ids(both, {"GEOMETRY"})
    BY <2>6, <2>7
  <2>10. \A x \in Ids(more, SceneKinds) : last < x /\ x <= now BY <1>8, <1>11, <2>9
  <2>11. \A r \in RdlIds(sent) : last < r /\ r <= now => r \in Ids(more, RdlKinds)
    <3> SUFFICES ASSUME NEW r \in RdlIds(sent), last < r PROVE r \in Ids(more, RdlKinds) OBVIOUS
    <3>1. r > last BY <1>6
    <3> QED BY <1>13, <2>9, <3>1
  <2>12. ASSUME NEW g \in GeometryIds(sent), last < g, g <= now
         PROVE  \E h \in Ids(more, {"GEOMETRY"}) : g <= h /\ NoneBetween(RdlIds(sent), g, h)
    <3>1. g \in Nat /\ g > last BY <1>6, <2>12
    <3>2. PICK h \in Ids(geometryUpdate, SceneKinds) : g <= h BY <1>3, <3>1
    <3>3. h \in Ids(geometryUpdate, {"GEOMETRY"})
      <4>1. geometryUpdate \in Seq(GeometryMessage) BY <1>2 DEF ScenesTypeOK
      <4>2. \A k \in 1 .. Len(geometryUpdate) : geometryUpdate[k] \in GeometryMessage
        BY <4>1, ElementFacts
      <4>3. \A k \in 1 .. Len(geometryUpdate) : geometryUpdate[k].kind \in {"GEOMETRY"}
        BY <4>2 DEF GeometryMessage
      <4> QED BY <3>2, <4>1, <4>3, WayMembers
    <3>4. h \in Ids(more, {"GEOMETRY"}) BY <1>7, <2>9, <3>3
    <3>5. h \in Nat BY <1>7, <1>8
    <3>6. NoneBetween(RdlIds(sent), g, h)
      <4> SUFFICES ASSUME NEW r \in RdlIds(sent), g < r, r <= h PROVE FALSE BY DEF NoneBetween
      <4>1. r \in Nat /\ r > last BY <1>6, <3>1
      <4>2. r \in Ids(rdlUpdates, RdlKinds) BY <1>3, <4>1
      <4>3. h < r BY <2>2, <4>2
      <4> QED BY <3>5, <4>1, <4>3
    <3> QED BY <3>2, <3>4, <3>6
  <2>13. ASSUME NEW m \in Followed PROVE SceneAgrees(driver[m], channel'[m], now, sent)
    <3>1. SceneAgrees(driver[m], channel[m], last, sent) BY <1>1 DEF Agreement, last, sent
    <3>2. driver[m] \in Driver /\ channel[m] \in Seq(Way) BY <1>2 DEF ScenesTypeOK, Way
    <3>3. channel'[m] = channel[m] \o more BY <1>1, <1>4, SessionAssumption DEF more, json
    <3>4. HistoryAgrees(sent, nextSyncId) BY <1>2
    <3>5. SceneAgrees(driver[m], channel[m] \o more, now, sent)
      BY <1>3, <1>12, <2>7, <2>8, <2>10, <2>11, <2>12, <3>1, <3>2, <3>4, AgreesAsForwarded
    <3> QED BY <3>3, <3>5
  <2>14. NoSetUp(<<>>) BY DEF NoSetUp
  <2> QED BY <2>13, <2>14
<1> QED BY <1>14, <1>15


(* One machine goes on to agree with the rest of its way, the others do not change. *)
LEMMA OneMachineAgrees ==
  ASSUME DriversInv, HistoryKept, Agreement, NEW m \in Followed, NEW e, NEW rest,
         driver' = [driver EXCEPT ![m] = e],
         channel'[m] = rest, \A n \in Followed : n # m => channel'[n] = channel[n],
         SceneAgrees(driver[m], channel[m], lastSyncId, sceneOf) =>
           SceneAgrees(e, rest, lastSyncId, sceneOf),
         UNCHANGED <<geometryUpdate, rdlUpdates, jsonUpdates, lastSyncId, unverified,
                     nextSyncId, sceneOf, setUp>>
  PROVE  HistoryKept' /\ Agreement'
<1>1. HistoryKept' BY DEF HistoryKept, GatheredAgrees
<1>2. driver \in [Followed -> Driver] BY DEF DriversInv, ScenesTypeOK
<1>3. driver'[m] = e /\ \A n \in Followed : n # m => driver'[n] = driver[n] BY <1>2
<1>4. Agreement'
  <2> SUFFICES ASSUME "SYNC_ID" \notin unverified, ~setUp
               PROVE  /\ NoSetUp(jsonUpdates)
                      /\ \A n \in Followed : SceneAgrees(driver'[n], channel'[n], lastSyncId, sceneOf)
    BY DEF Agreement
  <2>1. NoSetUp(jsonUpdates)
        /\ \A n \in Followed : SceneAgrees(driver[n], channel[n], lastSyncId, sceneOf)
    BY DEF Agreement
  <2> QED BY <1>3, <2>1
<1> QED BY <1>1, <1>4

LEMMA ReceiveAgrees ==
  ASSUME DriversInv, HistoryKept, Agreement, NEW m \in Machines, Receive(m)
  PROVE  HistoryKept' /\ Agreement'
<1>1. ScenesTypeOK /\ HistoryAgrees(sceneOf, nextSyncId) /\ lastSyncId \in DOMAIN sceneOf
  BY DEF DriversInv, HistoryKept, GatheredAgrees
<1>2. UNCHANGED <<geometryUpdate, rdlUpdates, jsonUpdates, lastSyncId, unverified,
                  nextSyncId, sceneOf, setUp>>
  BY <1>1, ReceiveMoves DEF dispatchVars, clientVars
<1>3. ASSUME m \in Followed, channel[m] # <<>>,
             channel' = [channel EXCEPT ![m] = Tail(@)], Head(channel[m]) \in Message,
             NEW e, Handled(driver[m], e, Head(channel[m])), driver' = [driver EXCEPT ![m] = e]
      PROVE  HistoryKept' /\ Agreement'
  <2>1. DriverOK(driver[m]) BY <1>3 DEF DriversInv
  <2>2. channel[m] \in Seq(SceneMessage \cup JsonMessage) BY <1>1, <1>3 DEF ScenesTypeOK
  <2>3. SceneAgrees(driver[m], channel[m], lastSyncId, sceneOf) =>
          SceneAgrees(e, Tail(channel[m]), lastSyncId, sceneOf)
    BY <1>1, <1>3, <2>1, <2>2, HandledAgrees
  <2>4. channel'[m] = Tail(channel[m]) /\ \A n \in Followed : n # m => channel'[n] = channel[n]
    BY <1>1, <1>3, SessionAssumption DEF ScenesTypeOK
  <2> QED BY <1>2, <1>3, <2>3, <2>4, OneMachineAgrees
<1>4. ASSUME m \in Followed, channel' = channel, Head(direct[m]) \in ViewportMessage,
             NEW e, Handled(driver[m], e, Head(direct[m])), driver' = [driver EXCEPT ![m] = e]
      PROVE  HistoryKept' /\ Agreement'
  <2> DEFINE msg == Head(direct[m])
  <2>1. driver[m] \in Driver BY <1>4 DEF DriversInv, DriverOK
  <2>2. msg.kind = "VIEWPORT" /\ msg \in QueuedMessage
    BY <1>4 DEF ViewportMessage, QueuedMessage
  <2>3. e = Enqueued(driver[m], msg) /\ msg.kind \in QueuedKind \ SceneKinds
    BY <1>4, <2>2 DEF Handled, QueuedKind, SceneKinds, RdlKinds
  <2> HIDE DEF msg
  <2>4. SceneAgrees(driver[m], channel[m], lastSyncId, sceneOf) =>
          SceneAgrees(e, channel[m], lastSyncId, sceneOf)
    <3> HAVE SceneAgrees(driver[m], channel[m], lastSyncId, sceneOf)
    <3>1. NoSetUp(channel[m]) /\ Recorded(channel[m], sceneOf) /\ Ascending(channel[m])
      BY DEF SceneAgrees, IdsInOrder
    <3>2. SceneAgrees(Enqueued(driver[m], msg), channel[m], lastSyncId, sceneOf)
      BY <2>1, <2>2, <2>3, <3>1, OtherQueued
    <3> QED BY <2>3, <3>2
  <2> QED BY <1>2, <1>4, <2>4, OneMachineAgrees
<1>5. ASSUME m \notin Followed, driver' = driver, channel' = [channel EXCEPT ![m] = Tail(@)]
      PROVE  HistoryKept' /\ Agreement'
  <2>1. \A n \in Followed : channel'[n] = channel[n]
    BY <1>1, <1>5, SessionAssumption DEF ScenesTypeOK
  <2> QED BY <1>2, <1>5, <2>1 DEF HistoryKept, GatheredAgrees, Agreement
<1> QED BY <1>1, <1>3, <1>4, <1>5, ReceiveMoves

LEMMA MachineAgrees ==
  ASSUME DriversInv, HistoryKept, Agreement, NEW m \in Machines, Machine(m)
  PROVE  HistoryKept' /\ Agreement'
<1>1. ScenesTypeOK /\ HistoryAgrees(sceneOf, nextSyncId) /\ lastSyncId \in DOMAIN sceneOf
  BY DEF DriversInv, HistoryKept, GatheredAgrees
<1>2. UNCHANGED <<geometryUpdate, rdlUpdates, jsonUpdates, lastSyncId, unverified,
                  nextSyncId, sceneOf, setUp, channel>>
  BY DEF Machine, dispatchVars, clientVars
<1>3. m \in Followed BY MachineMoves
<1>4. PICK e : Moved(driver[m], e) /\ driver' = [driver EXCEPT ![m] = e] BY MachineMoves
<1>5. DriverOK(driver[m]) /\ channel[m] \in Seq(SceneMessage \cup JsonMessage)
  BY <1>1, <1>3 DEF DriversInv, ScenesTypeOK
<1>6. SceneAgrees(driver[m], channel[m], lastSyncId, sceneOf) =>
        SceneAgrees(e, channel[m], lastSyncId, sceneOf)
  BY <1>1, <1>4, <1>5, MovedAgrees
<1> QED BY <1>2, <1>3, <1>4, <1>6, OneMachineAgrees

LEMMA NextAgrees ==
  ASSUME DriversInv, HistoryKept, Agreement, [Next]_vars
  PROVE  HistoryKept' /\ Agreement'
<1>1. CASE Client BY <1>1, ClientAgrees
<1>2. CASE Dispatch BY <1>2, DispatchAgrees
<1>3. ASSUME NEW m \in Machines, Receive(m) PROVE HistoryKept' /\ Agreement' BY <1>3, ReceiveAgrees
<1>4. ASSUME NEW m \in Machines, Machine(m) PROVE HistoryKept' /\ Agreement' BY <1>4, MachineAgrees
<1>5. ASSUME UNCHANGED <<geometryUpdate, rdlUpdates, jsonUpdates, lastSyncId, unverified, driver,
                         channel, nextSyncId, sceneOf, setUp>>
      PROVE  HistoryKept' /\ Agreement'
  BY <1>5 DEF HistoryKept, GatheredAgrees, Agreement
<1>6. ASSUME NEW m \in Machines, onJSONMessage(m) PROVE HistoryKept' /\ Agreement'
  BY <1>5, <1>6 DEF onJSONMessage, dispatchVars, clientVars
<1>7. CASE UNCHANGED vars
  BY <1>5, <1>7 DEF vars, dispatchVars, driverVars, clientVars
<1> QED BY <1>1, <1>2, <1>3, <1>4, <1>6, <1>7 DEF Next

(* The scene of each machine is, by the sync id it has come to, what the client
   had sent by then, and the rest is on its way in order, as long as the
   dispatch computation finds the ids in order and no RENDER_SETUP was sent. *)
THEOREM ScenesInvariance == Spec => []ScenesInv
<1> DEFINE Inv == DriversInv /\ HistoryKept /\ Agreement
<1>1. Init => Inv BY InitDrivers, InitAgrees
<1>2. Inv /\ [Next]_vars => Inv' BY NextKeepsDrivers, NextAgrees
<1>3. Inv => ScenesInv BY DEF DriversInv, DriverOK, HistoryKept, Agreement, ScenesInv
<1> QED
  <2> HIDE DEF Inv
  <2> QED BY <1>1, <1>2, <1>3, PTL DEF Spec

(* As long as no sync id is out of order, every machine's frame shows exactly
   the RDLMessages, and geometry as new, as the frame's sync id stands for. *)
THEOREM VerifiedExact == Spec => []VerifiedMeansExact
<1>1. ScenesInv => VerifiedMeansExact
  <2> SUFFICES ASSUME ScenesInv, "SYNC_ID" \notin unverified, ~setUp,
                      NEW m \in Followed, Scene!inFrame(driver[m])
               PROVE  LET sent == sceneOf[driver[m].syncId] IN
                      /\ driver[m].scene.rdl = sent.rdl
                      /\ \/ driver[m].scene.geometry = sent.geometry
                         \/ driver[m].rebuilt
                         \/ sent.geometry = UNDEFINED
    BY DEF VerifiedMeansExact
  <2>1. QueueStarts(driver[m]) /\ SceneAgrees(driver[m], channel[m], lastSyncId, sceneOf)
    BY DEF ScenesInv
  <2>2. driver[m].initialized BY <2>1 DEF QueueStarts, Scene!inFrame
  <2>3. Applied(driver[m]) = driver[m].syncId BY <2>2 DEF Applied
  <2> QED BY <2>1, <2>3 DEF SceneAgrees, ContentsAgree
<1> QED BY <1>1, ScenesInvariance, PTL

(* Picks and scenes together, with every machine followed. *)
THEOREM SessionInvariance == Followed = Machines => (Spec => []SessionInv)
<1> SUFFICES ASSUME Followed = Machines PROVE Spec => []SessionInv OBVIOUS
<1>1. Spec => []IInv BY Invariance
<1> QED BY <1>1, ScenesInvariance, PTL DEF SessionInv

================================================================================
