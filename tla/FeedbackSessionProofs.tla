------------------------- MODULE FeedbackSessionProofs -------------------------
(***************************************************************************)
(* Proofs about FeedbackSession, for every number of frames, images, tiles *)
(* and messages under way.  First IInv is inductive: where each id of a    *)
(* frame is, and in which order the machine is told of it; what the cache  *)
(* promises about whole frames follows.  Then ReplayInv is inductive: what *)
(* is under way replays to what the merge had, so the minus-one image is   *)
(* exact.                                                                  *)
(***************************************************************************)
EXTENDS FeedbackSession, TLAPS, WellFoundedInduction

USE CacheAssumption, SessionAssumption

LEMMA SyncIdFacts == \A s \in SyncIds : s \in Int /\ s >= 0
  OBVIOUS

(***************************************************************************)
(* Sequences of actions.                                                   *)
(***************************************************************************)

LEMMA TailFacts ==
  ASSUME NEW S, NEW s \in Seq(S), s # <<>>
  PROVE  /\ Tail(s) \in Seq(S) /\ Len(Tail(s)) = Len(s) - 1 /\ Head(s) = s[1] /\ Head(s) \in S
         /\ \A k \in 1 .. Len(Tail(s)) : Tail(s)[k] = s[k + 1] /\ k + 1 \in 1 .. Len(s)
         /\ \A k \in 1 .. Len(s) : k # 1 => k - 1 \in 1 .. Len(Tail(s)) /\ s[k] = Tail(s)[k - 1]
  OBVIOUS

LEMMA ElementFacts ==
  ASSUME NEW S, NEW s \in Seq(S), NEW k \in 1 .. Len(s)
  PROVE  s[k] \in S
  OBVIOUS

LEMMA AppendFacts ==
  ASSUME NEW S, NEW s \in Seq(S), NEW e \in S
  PROVE  /\ Append(s, e) \in Seq(S) /\ Len(s) \in Nat /\ Len(Append(s, e)) = Len(s) + 1
         /\ Append(s, e)[Len(s) + 1] = e
         /\ \A k \in 1 .. Len(s) : Append(s, e)[k] = s[k]
  OBVIOUS

LEMMA ConcatFacts ==
  ASSUME NEW S, NEW s \in Seq(S), NEW t \in Seq(S)
  PROVE  /\ s \o t \in Seq(S) /\ Len(s \o t) = Len(s) + Len(t)
         /\ \A k \in 1 .. Len(s) : (s \o t)[k] = s[k] /\ k \in 1 .. Len(s \o t)
         /\ \A k \in 1 .. Len(t) : (s \o t)[Len(s) + k] = t[k] /\ Len(s) + k \in 1 .. Len(s \o t)
         /\ \A k \in 1 .. Len(s \o t) :
              \/ k \in 1 .. Len(s)
              \/ k > Len(s) /\ k - Len(s) \in 1 .. Len(t) /\ (s \o t)[k] = t[k - Len(s)]
  OBVIOUS

(* The ids that a sequence of actions names are those of its head and of its tail. *)
LEMMA NamedTail ==
  ASSUME NEW A \in Seq(Actions), A # <<>>
  PROVE  /\ \A i : Named(i, A) <=> i \in Head(A).ids \/ Named(i, Tail(A))
         /\ InOrder(A) => /\ InOrder(Tail(A))
                          /\ \A i \in Head(A).ids : \A j : Named(j, Tail(A)) => i < j
<1>1. /\ Len(Tail(A)) = Len(A) - 1 /\ Head(A) = A[1] /\ Len(A) \in Nat /\ Len(A) >= 1
      /\ \A k \in 1 .. Len(Tail(A)) : Tail(A)[k] = A[k + 1] /\ k + 1 \in 1 .. Len(A)
      /\ \A k \in 1 .. Len(A) : k # 1 => k - 1 \in 1 .. Len(Tail(A)) /\ A[k] = Tail(A)[k - 1]
  BY TailFacts
<1>2. \A i : Named(i, A) => i \in Head(A).ids \/ Named(i, Tail(A)) BY <1>1 DEF Named
<1>3. \A i : Named(i, Tail(A)) => Named(i, A) BY <1>1 DEF Named
<1>4. \A i : i \in Head(A).ids => Named(i, A)
  <2>1. 1 \in 1 .. Len(A) BY <1>1
  <2> QED BY <1>1, <2>1 DEF Named
<1>5. ASSUME InOrder(A) PROVE InOrder(Tail(A)) /\ \A i \in Head(A).ids : \A j : Named(j, Tail(A)) => i < j
  <2>1. InOrder(Tail(A))
    <3> SUFFICES ASSUME NEW p \in 1 .. Len(Tail(A)), NEW q \in 1 .. Len(Tail(A)), p < q,
                        NEW i \in Tail(A)[p].ids, NEW j \in Tail(A)[q].ids
                 PROVE  i < j
      BY DEF InOrder
    <3>1. p + 1 \in 1 .. Len(A) /\ q + 1 \in 1 .. Len(A) /\ p + 1 < q + 1 BY <1>1
    <3>2. i \in A[p + 1].ids /\ j \in A[q + 1].ids BY <1>1
    <3> QED BY <1>5, <3>1, <3>2 DEF InOrder
  <2>2. ASSUME NEW i \in Head(A).ids, NEW j, Named(j, Tail(A)) PROVE i < j
    <3>1. PICK q \in 1 .. Len(Tail(A)) : j \in Tail(A)[q].ids BY <2>2 DEF Named
    <3>2. 1 \in 1 .. Len(A) /\ q + 1 \in 1 .. Len(A) /\ 1 < q + 1 BY <1>1
    <3>3. i \in A[1].ids /\ j \in A[q + 1].ids BY <1>1, <3>1
    <3> QED BY <1>5, <3>2, <3>3 DEF InOrder
  <2> QED BY <2>1, <2>2
<1> QED BY <1>2, <1>3, <1>4, <1>5

LEMMA NamedConcat ==
  ASSUME NEW A \in Seq(Actions), NEW B \in Seq(Actions)
  PROVE  /\ \A i : Named(i, A \o B) <=> Named(i, A) \/ Named(i, B)
         /\ InOrder(A) /\ InOrder(B) /\ (\A i, j \in Ids : Named(i, A) /\ Named(j, B) => i < j)
              => InOrder(A \o B)
<1>1. /\ A \o B \in Seq(Actions) /\ Len(A) \in Nat /\ Len(B) \in Nat
      /\ \A k \in 1 .. Len(A) : (A \o B)[k] = A[k] /\ k \in 1 .. Len(A \o B)
      /\ \A k \in 1 .. Len(B) : (A \o B)[Len(A) + k] = B[k] /\ Len(A) + k \in 1 .. Len(A \o B)
      /\ \A k \in 1 .. Len(A \o B) :
           \/ k \in 1 .. Len(A)
           \/ k > Len(A) /\ k - Len(A) \in 1 .. Len(B) /\ (A \o B)[k] = B[k - Len(A)]
  BY ConcatFacts
<1>2. ASSUME NEW i PROVE Named(i, A \o B) => Named(i, A) \/ Named(i, B) BY <1>1 DEF Named
<1>3. ASSUME NEW i PROVE Named(i, A) => Named(i, A \o B) BY <1>1 DEF Named
<1>4. ASSUME NEW i PROVE Named(i, B) => Named(i, A \o B) BY <1>1 DEF Named
<1>5. ASSUME InOrder(A), InOrder(B), \A i, j \in Ids : Named(i, A) /\ Named(j, B) => i < j
      PROVE  InOrder(A \o B)
  <2> SUFFICES ASSUME NEW p \in 1 .. Len(A \o B), NEW q \in 1 .. Len(A \o B), p < q,
                      NEW i \in (A \o B)[p].ids, NEW j \in (A \o B)[q].ids
               PROVE  i < j
    BY DEF InOrder
  <2>0. p \in Int /\ q \in Int BY <1>1
  <2>1. CASE p \in 1 .. Len(A) /\ q \in 1 .. Len(A) BY <1>1, <1>5, <2>1 DEF InOrder
  <2>2. CASE p \in 1 .. Len(A) /\ q > Len(A)
    <3>1. i \in A[p].ids BY <1>1, <2>2
    <3>2. q - Len(A) \in 1 .. Len(B) /\ j \in B[q - Len(A)].ids BY <1>1, <2>2
    <3>3. A[p] \in Actions /\ B[q - Len(A)] \in Actions BY <2>2, <3>2
    <3>4. i \in Ids /\ j \in Ids BY <3>1, <3>2, <3>3 DEF Actions
    <3>5. Named(i, A) /\ Named(j, B) BY <2>2, <3>1, <3>2 DEF Named
    <3> QED BY <1>5, <3>4, <3>5
  <2>3. CASE p > Len(A) /\ q > Len(A)
    <3>1. /\ p - Len(A) \in 1 .. Len(B) /\ i \in B[p - Len(A)].ids
          /\ q - Len(A) \in 1 .. Len(B) /\ j \in B[q - Len(A)].ids
      BY <1>1, <2>3
    <3>2. p - Len(A) < q - Len(A) BY <1>1, <2>0
    <3> QED BY <1>5, <3>1, <3>2 DEF InOrder
  <2> QED BY <1>1, <2>0, <2>1, <2>2, <2>3
<1> QED BY <1>2, <1>3, <1>4, <1>5

(***************************************************************************)
(* What is told, noted and on the way, if nothing of it is touched.        *)
(***************************************************************************)

LEMMA ToldKept ==
  message' = message /\ toMcrt' = toMcrt =>
    (\A i : Told(i)' <=> Told(i)) /\ (ToldInOrder => ToldInOrder')
  BY DEF Told, ToldInOrder, InOrder, Named

LEMMA NotedKept ==
  tracker' = tracker => (\A i : Noted(i)' <=> Noted(i)) /\ (NotedInOrder => NotedInOrder')
  BY DEF Noted, NotedInOrder, InOrder, Named

LEMMA OnTheWayKept == toMerge' = toMerge => \A i : OnTheWay(i)' <=> OnTheWay(i)
  BY DEF OnTheWay

LEMMA InitIInv == Init => IInv
<1> SUFFICES ASSUME Init PROVE IInv OBVIOUS
<1> USE DEF Init, MachineInit, NoMessage, UNDEFINED
<1>1. TypeOK
  <2>1. /\ feedbackActiveRuntime \in BOOLEAN /\ beforeInitialSnapshot \in BOOLEAN
        /\ outOfTable \in BOOLEAN /\ frameFeedbackActive \in BOOLEAN /\ feedbackInitialized \in BOOLEAN
    OBVIOUS
  <2>2. mergedFb \in [AllTiles -> SUBSET Ids] /\ merged \in [AllTiles -> SUBSET Ids] BY DEF Blank
  <2>3. toMerge \in Seq([id : Ids, syncId : SyncIds]) /\ toMcrt \in Seq(Messages) /\ tracker \in Seq(Actions)
    OBVIOUS
  <2> QED BY <2>1, <2>2, <2>3 DEF TypeOK, MachineTypeOK
<1>2. /\ \A i : ~Told(i) /\ ~Noted(i) /\ ~OnTheWay(i)
      /\ Len(toMcrt) = 0 /\ Len(toMerge) = 0 /\ Len(tracker) = 0 /\ Len(message.actions) = 0
  BY DEF Told, Noted, OnTheWay, Named
<1>3. SendingFollows /\ FrameIsWhole /\ StartedIsFirst BY DEF SendingFollows, FrameIsWhole, StartedIsFirst
<1>4. ImagesInOrder /\ ToldInOrder /\ NotedInOrder /\ PassedInOrder
  BY <1>2 DEF ImagesInOrder, ToldInOrder, NotedInOrder, PassedInOrder, InOrder
<1>5. CachedIsToldLater /\ CachedIsOnItsWay /\ AheadIsEmpty /\ ToldIsDecoded /\ NeverAhead
  BY <1>2 DEF CachedIsToldLater, CachedIsOnItsWay, AheadIsEmpty, ToldIsDecoded, NeverAhead
<1>6. OneStartPerFrame /\ FeedbackOfOneFrame BY <1>2 DEF OneStartPerFrame, FeedbackOfOneFrame
<1> QED BY <1>1, <1>3, <1>4, <1>5, <1>6 DEF IInv

(* The numbers of a state. *)
LEMMA Numbers ==
  ASSUME TypeOK
  PROVE  /\ syncId \in Int /\ display \in Int /\ syncId >= -1 /\ display >= -1
         /\ newest \in Int /\ newest >= -1
         /\ sendImageActionId \in Nat /\ firstId \in Nat /\ Ids \subseteq Nat
         /\ \A k \in 1 .. Len(toMerge) : toMerge[k].id \in Ids /\ toMerge[k].syncId \in SyncIds
         /\ \A i : OnTheWay(i) => i \in Ids
<1>1. syncId \in SyncIds \cup {-1} /\ display \in SyncIds \cup {-1} /\ newest \in SyncIds \cup {-1}
  BY DEF TypeOK, MachineTypeOK, UNDEFINED
<1>2. /\ syncId \in Int /\ display \in Int /\ syncId >= -1 /\ display >= -1
      /\ newest \in Int /\ newest >= -1
  BY <1>1, SyncIdFacts
<1>3. sendImageActionId \in Nat /\ firstId \in Nat BY DEF TypeOK, MachineTypeOK
<1>4. Ids \subseteq Nat BY DEF Ids
<1>5. \A k \in 1 .. Len(toMerge) : toMerge[k].id \in Ids /\ toMerge[k].syncId \in SyncIds
  <2> TAKE k \in 1 .. Len(toMerge)
  <2>1. toMerge \in Seq([id : Ids, syncId : SyncIds]) BY DEF TypeOK
  <2>2. toMerge[k] \in [id : Ids, syncId : SyncIds] BY <2>1, ElementFacts
  <2> QED BY <2>2
<1> QED BY <1>2, <1>3, <1>4, <1>5 DEF OnTheWay

(***************************************************************************)
(* The machine begins a frame, and sends an image.                         *)
(***************************************************************************)

(* What the beginning of a frame settles, whichever id it has. *)
LEMMA BeginsFacts ==
  ASSUME TypeOK, NEW s \in SyncIds, NEW n \in Sizes, Begins(s, n)
  PROVE  /\ syncId' = s /\ syncId' \in SyncIds /\ syncId' \in Int /\ syncId' >= 0
         /\ newest' \in SyncIds /\ newest' \in Int /\ newest' >= newest /\ newest' >= syncId'
         /\ newest' > newest => newest' = s
         /\ fresh' \in BOOLEAN /\ (fresh' <=> s > newest) /\ (fresh' => newest' = s /\ n = NumTile[s])
         /\ restarts' \in Nat /\ n \in Nat
         /\ beforeInitialSnapshot' = TRUE /\ firstId' = sendImageActionId /\ evicted' = {}
         /\ feedbackActiveRuntime' \in BOOLEAN
<1>1. newest \in SyncIds \cup {-1} /\ newest \in Int /\ newest >= -1 /\ restarts \in Nat /\ s \in Int /\ s >= 0
  BY Numbers, SyncIdFacts DEF TypeOK, MachineTypeOK, UNDEFINED
<1>2. restarts' = restarts \/ restarts' = restarts + 1 BY DEF Begins
<1>3. n \in Nat BY DEF Sizes
<1>4. (s > newest) \in BOOLEAN OBVIOUS
<1>5. newest' = IF s > newest THEN s ELSE newest BY DEF Begins
<1>6. newest' \in SyncIds BY <1>1, <1>5
<1>7. fresh' = (s > newest) BY DEF Begins
<1>8. fresh' \in BOOLEAN /\ (fresh' <=> s > newest) BY <1>4, <1>7
<1>9. s > newest => n = NumTile[s] BY <1>1 DEF Begins
<1>10. newest' \in Int /\ newest' >= newest /\ newest' >= s /\ (newest' > newest => newest' = s) BY <1>1, <1>5
<1>11. s > newest => newest' = s BY <1>5
<1>12. restarts' \in Nat BY <1>1, <1>2
<1>13. /\ syncId' = s /\ beforeInitialSnapshot' = TRUE /\ firstId' = sendImageActionId /\ evicted' = {}
       /\ feedbackActiveRuntime' \in BOOLEAN
  BY DEF Begins
<1> QED BY <1>1, <1>3, <1>6, <1>8, <1>9, <1>10, <1>11, <1>12, <1>13

LEMMA StartsKeepsIInv == IInv /\ MachineStarts => IInv'
<1> SUFFICES ASSUME IInv, MachineStarts PROVE IInv' OBVIOUS
<1> USE DEF cache, evaluation, mergeVars, mergeFrame, mergeFeedback
<1>1. TypeOK BY DEF IInv
<1>2. /\ syncId \in Int /\ display \in Int /\ newest \in Int /\ sendImageActionId \in Nat /\ firstId \in Nat
      /\ Ids \subseteq Nat /\ \A k \in 1 .. Len(toMerge) : toMerge[k].id \in Ids /\ toMerge[k].syncId \in SyncIds
  BY <1>1, Numbers
<1>3. PICK s \in SyncIds, n \in Sizes :
        Begins(s, n) /\ IF feedbackActiveRuntime' THEN reset(n) ELSE UNCHANGED cache
  BY DEF MachineStarts, startFrame
<1>4. /\ syncId' \in SyncIds /\ syncId' \in Int /\ syncId' >= 0
      /\ newest' \in SyncIds /\ newest' \in Int /\ newest' >= newest /\ newest' >= syncId'
      /\ fresh' \in BOOLEAN /\ (fresh' => newest' = syncId') /\ restarts' \in Nat /\ n \in Nat
      /\ beforeInitialSnapshot' = TRUE /\ firstId' = sendImageActionId /\ evicted' = {}
      /\ feedbackActiveRuntime' \in BOOLEAN
  BY <1>1, <1>3, BeginsFacts
<1>5. /\ feedbackActiveRuntime' => sentData' = {} /\ decodedFb' = {}
      /\ UNCHANGED <<sendImageActionId, message, lastAction, tileTbl, outOfTable, toMcrt, tracker, toMerge, display,
                     pending, decoded, merged, feedbackFb, feedbackInitialized, lastSentFeedbackSyncId,
                     frameFeedbackActive>>
  BY <1>3 DEF reset, MachineStarts, startFrame
<1>6. TypeOK'
  <2>1. /\ sentData' \subseteq Ids /\ started' \in Ids \cup {UNDEFINED} /\ numTile' \in Nat
        /\ decodedFb' \subseteq Ids /\ mergedFb' \in [AllTiles -> SUBSET Ids]
    BY <1>1, <1>3, <1>4 DEF TypeOK, MachineTypeOK, reset, Blank
  <2>2. beforeInitialSnapshot' \in BOOLEAN BY <1>4
  <2>3. firstId' \in 0 .. MaxImages BY <1>1, <1>4 DEF TypeOK, MachineTypeOK
  <2> QED BY <1>1, <1>4, <1>5, <2>1, <2>2, <2>3 DEF TypeOK, MachineTypeOK
<1>7. /\ \A i : (Told(i)' <=> Told(i)) /\ (Noted(i)' <=> Noted(i)) /\ (OnTheWay(i)' <=> OnTheWay(i))
      /\ ToldInOrder' /\ NotedInOrder'
  BY <1>5, ToldKept, NotedKept, OnTheWayKept DEF IInv
<1>8. SendingFollows'
  <2>1. syncId' # UNDEFINED BY <1>4 DEF UNDEFINED
  <2>2. started' = started \/ started' = -1 BY <1>3 DEF reset, UNDEFINED
  <2>3. started' < sendImageActionId BY <1>2, <2>2 DEF IInv, SendingFollows
  <2> QED BY <1>2, <1>4, <1>5, <2>1, <2>3 DEF SendingFollows, IInv
<1>9. FrameIsWhole' /\ StartedIsFirst' /\ CachedIsToldLater' /\ CachedIsOnItsWay'
  BY <1>2, <1>4, <1>5 DEF FrameIsWhole, StartedIsFirst, CachedIsToldLater, CachedIsOnItsWay
<1>10. ImagesInOrder'
  <2> SUFFICES ASSUME NEW k \in 1 .. Len(toMerge)
               PROVE  /\ toMerge[k].id < sendImageActionId /\ toMerge[k].syncId <= newest'
                      /\ ~(sendImageActionId <= toMerge[k].id)
                      /\ \A l \in 1 .. Len(toMerge) : k < l => toMerge[k].id < toMerge[l].id
    BY <1>4, <1>5 DEF ImagesInOrder
  <2>1. toMerge[k].syncId \in Int /\ toMerge[k].id \in Nat BY <1>2, SyncIdFacts
  <2>2. toMerge[k].id < sendImageActionId /\ toMerge[k].syncId <= newest BY DEF IInv, ImagesInOrder
  <2>3. \A l \in 1 .. Len(toMerge) : k < l => toMerge[k].id < toMerge[l].id BY DEF IInv, ImagesInOrder
  <2>4. toMerge[k].syncId <= newest' /\ ~(sendImageActionId <= toMerge[k].id) BY <1>2, <1>4, <2>1, <2>2
  <2> QED BY <2>2, <2>3, <2>4
<1>11. PassedInOrder' BY <1>5, <1>7 DEF IInv, PassedInOrder
<1>12. AheadIsEmpty' BY <1>2, <1>4, <1>5, <1>7 DEF IInv, AheadIsEmpty
<1>13. ToldIsDecoded'
  <2> SUFFICES ASSUME NEW i \in sendImageActionId .. (MaxImages - 1) PROVE ~Told(i) /\ ~Noted(i) /\ i \notin pending
    BY <1>4, <1>5, <1>7 DEF ToldIsDecoded
  <2>1. i \in Ids /\ ~(i < sendImageActionId) BY <1>2 DEF Ids
  <2> QED BY <2>1 DEF IInv, PassedInOrder
<1>14. NeverAhead' BY <1>5 DEF NeverAhead
<1>15. OneStartPerFrame' /\ FeedbackOfOneFrame' BY <1>5 DEF IInv, OneStartPerFrame, FeedbackOfOneFrame, NoMessage
<1> QED BY <1>6, <1>7, <1>8, <1>9, <1>10, <1>11, <1>12, <1>13, <1>14, <1>15 DEF IInv

(* What the sending of an image settles: the cache is not in use, or begins with the
   image, or takes it in and gives up its oldest. *)
SendsFacts(id, isStarted) ==
  /\ syncId \in SyncIds /\ id \in Ids /\ id + 1 \in 0 .. MaxImages /\ id' = id + 1
  /\ firstId' = firstId \/ firstId' = id
  /\ feedbackActiveRuntime' \in BOOLEAN /\ beforeInitialSnapshot' \in BOOLEAN
  /\ fresh' \in BOOLEAN /\ restarts' \in Nat /\ newest' = newest
  /\ fresh' => fresh /\ ~beforeInitialSnapshot' /\ UNCHANGED <<firstId, feedbackActiveRuntime>>
  /\ UNCHANGED <<syncId, message, lastAction, tileTbl, toMcrt, tracker, display, frameFeedbackActive, pending,
                 decoded, merged, feedbackFb, outOfTable, feedbackInitialized, lastSentFeedbackSyncId>>
  /\ message = NoMessage
  /\ \/ /\ ~feedbackActiveRuntime'
        /\ UNCHANGED <<sentData, started, numTile, decodedFb, mergedFb>>
        /\ evicted' = evicted \/ (~fresh' /\ evicted' = {})
     \/ /\ firstId' = id
        /\ sentData' = {id} /\ started' \in {id, UNDEFINED} /\ numTile' \in Nat
        /\ decodedFb' = {} /\ mergedFb' = Blank
        /\ (evicted' = evicted /\ numTile' = numTile) \/ (~fresh' /\ evicted' = {})
     \/ /\ firstId' = firstId /\ feedbackActiveRuntime
        /\ \E keep \in 0 .. id :
             LET old == {i \in sentData : i < keep}
             IN /\ DecodeItems(old)
                /\ sentData' = (sentData \ old) \cup {id}
                /\ evicted' = evicted \cup old
                /\ UNCHANGED <<started, numTile>>

LEMMA SendingFacts ==
  ASSUME IInv, NEW isStarted \in BOOLEAN, SendImage(isStarted) \/ SendImageAnew(isStarted),
         UNCHANGED <<toMcrt, mergeVars>>
  PROVE  SendsFacts(sendImageActionId, isStarted)
<1> USE DEF frame, cache, evaluation, mergeVars, mergeFrame, mergeFeedback
<1> DEFINE id == sendImageActionId
<1>1. TypeOK BY DEF IInv
<1>2. syncId \in Int /\ newest \in Int /\ id \in Nat /\ firstId \in Nat BY <1>1, Numbers
<1>3. Sending(isStarted) BY DEF SendImage, SendImageAnew
<1>4. /\ syncId \in SyncIds /\ id \in Ids /\ id + 1 \in 0 .. MaxImages /\ id' = id + 1
      /\ message = NoMessage /\ syncId <= newest
  <2>1. syncId # UNDEFINED /\ id < MaxImages /\ id' = id + 1 /\ message = NoMessage BY <1>3 DEF Sending, Ready
  <2>2. syncId \in SyncIds BY <1>1, <2>1 DEF TypeOK, MachineTypeOK
  <2>3. id \in Ids /\ id + 1 \in 0 .. MaxImages BY <1>2, <2>1 DEF Ids
  <2> QED BY <2>1, <2>2, <2>3 DEF IInv, SendingFollows
<1>5. CASE SendImage(isStarted)
  <2>1. /\ firstId' = IF isStarted THEN id ELSE firstId
        /\ ~beforeInitialSnapshot' /\ beforeInitialSnapshot' \in BOOLEAN
        /\ UNCHANGED <<feedbackActiveRuntime, syncId, newest, fresh, restarts>>
        /\ fresh => firstId' = firstId
        /\ UNCHANGED <<message, lastAction, tileTbl, toMcrt, tracker, display, frameFeedbackActive, pending,
                       decoded, merged, feedbackFb, outOfTable, feedbackInitialized, lastSentFeedbackSyncId>>
        /\ IF feedbackActiveRuntime THEN enqueueMessage(id, isStarted) ELSE UNCHANGED <<cache, evicted>>
    <3>1. fresh /\ isStarted => firstId = id BY <1>3 DEF Sending, IInv, SendingFollows
    <3> QED BY <1>5, <3>1 DEF SendImage
  <2>2. numTile \in Nat /\ feedbackActiveRuntime \in BOOLEAN /\ fresh \in BOOLEAN /\ restarts \in Nat
    BY <1>1 DEF TypeOK, MachineTypeOK
  <2>3. CASE ~feedbackActiveRuntime BY <1>4, <2>1, <2>2, <2>3 DEF SendsFacts
  <2>4. CASE feedbackActiveRuntime /\ isStarted
    <3>1. firstId' = id /\ sentData' = {id} /\ started' = id /\ numTile' = numTile /\ decodedFb' = {} /\ mergedFb' = Blank
          /\ evicted' = evicted
      BY <2>1, <2>4 DEF enqueueMessage
    <3> QED BY <1>4, <2>1, <2>2, <3>1 DEF SendsFacts
  <2>5. CASE feedbackActiveRuntime /\ ~isStarted
    <3>1. firstId' = firstId BY <2>1, <2>5
    <3>2. \E keep \in 0 .. id :
             LET old == {i \in sentData : i < keep}
             IN /\ DecodeItems(old)
                /\ sentData' = (sentData \ old) \cup {id}
                /\ evicted' = evicted \cup old
                /\ UNCHANGED <<started, numTile>>
      BY <2>1, <2>5 DEF enqueueMessage
    <3> QED BY <1>4, <2>1, <2>2, <2>5, <3>1, <3>2 DEF SendsFacts
  <2> QED BY <2>2, <2>3, <2>4, <2>5
<1>6. CASE SendImageAnew(isStarted)
  <2>1. PICK n \in Sizes :
          /\ Begins(syncId, n)
          /\ IF feedbackActiveRuntime'
             THEN /\ sentData' = {id} /\ started' = IF isStarted THEN id ELSE UNDEFINED
                  /\ numTile' = n /\ decodedFb' = {} /\ mergedFb' = Blank
             ELSE UNCHANGED cache
    BY <1>6 DEF SendImageAnew
  <2>2. /\ syncId' = syncId /\ newest' = newest /\ ~fresh' /\ fresh' \in BOOLEAN /\ restarts' \in Nat /\ n \in Nat
        /\ beforeInitialSnapshot' = TRUE /\ firstId' = id /\ evicted' = {}
        /\ feedbackActiveRuntime' \in BOOLEAN
    <3>1. /\ syncId' = syncId /\ newest' >= newest /\ newest' \in Int /\ (newest' > newest => newest' = syncId)
          /\ fresh' \in BOOLEAN /\ (fresh' <=> syncId > newest) /\ restarts' \in Nat /\ n \in Nat
          /\ beforeInitialSnapshot' = TRUE /\ firstId' = id /\ evicted' = {}
          /\ feedbackActiveRuntime' \in BOOLEAN
      BY <1>1, <1>4, <2>1, BeginsFacts
    <3> QED BY <1>2, <1>4, <3>1
  <2>3. UNCHANGED <<message, lastAction, tileTbl, toMcrt, tracker, display, frameFeedbackActive, pending,
                    decoded, merged, feedbackFb, outOfTable, feedbackInitialized, lastSentFeedbackSyncId>>
    BY <1>6 DEF SendImageAnew
  <2>4. beforeInitialSnapshot' \in BOOLEAN BY <2>2
  <2>5. \/ ~feedbackActiveRuntime' /\ UNCHANGED <<sentData, started, numTile, decodedFb, mergedFb>>
        \/ /\ sentData' = {id} /\ started' \in {id, UNDEFINED} /\ numTile' \in Nat
           /\ decodedFb' = {} /\ mergedFb' = Blank
    BY <2>1, <2>2
  <2> QED BY <1>4, <2>2, <2>3, <2>4, <2>5 DEF SendsFacts
<1> QED BY <1>5, <1>6

LEMMA SendsKeepsIInv == IInv /\ MachineSends => IInv'
<1> SUFFICES ASSUME IInv, MachineSends PROVE IInv' OBVIOUS
<1> USE DEF frame, cache, evaluation
<1> DEFINE id == sendImageActionId
           m == [id |-> id, syncId |-> syncId]
<1>1. TypeOK BY DEF IInv
<1>2. /\ syncId \in Int /\ display \in Int /\ newest \in Int /\ id \in Nat /\ firstId \in Nat /\ Ids \subseteq Nat
      /\ \A k \in 1 .. Len(toMerge) : toMerge[k].id \in Ids /\ toMerge[k].syncId \in SyncIds
      /\ \A i : OnTheWay(i) => i \in Ids
  BY <1>1, Numbers
<1>3. PICK isStarted \in BOOLEAN :
        /\ SendImage(isStarted) \/ SendImageAnew(isStarted)
        /\ toMerge' = Append(toMerge, m) /\ UNCHANGED <<toMcrt, mergeVars>>
  BY DEF MachineSends
<1>4a. SendsFacts(id, isStarted) BY <1>3, SendingFacts
<1>4. /\ syncId \in SyncIds /\ id \in Ids /\ id + 1 \in 0 .. MaxImages /\ id' = id + 1
      /\ firstId' = firstId \/ firstId' = id
      /\ feedbackActiveRuntime' \in BOOLEAN /\ beforeInitialSnapshot' \in BOOLEAN
      /\ fresh' \in BOOLEAN /\ restarts' \in Nat /\ newest' = newest /\ (fresh' => fresh /\ ~beforeInitialSnapshot')
      /\ UNCHANGED <<syncId, message, lastAction, tileTbl, toMcrt, tracker, display, frameFeedbackActive, pending,
                     decoded, merged, feedbackFb, outOfTable, feedbackInitialized, lastSentFeedbackSyncId>>
      /\ message = NoMessage
  BY <1>4a DEF SendsFacts
<1>5. \/ /\ ~feedbackActiveRuntime'
         /\ UNCHANGED <<sentData, started, numTile, decodedFb, mergedFb>>
         /\ evicted' = evicted \/ evicted' = {}
      \/ /\ firstId' = id
         /\ sentData' = {id} /\ started' \in {id, UNDEFINED} /\ numTile' \in Nat
         /\ decodedFb' = {} /\ mergedFb' = Blank /\ (evicted' = evicted \/ evicted' = {})
      \/ /\ firstId' = firstId /\ feedbackActiveRuntime
         /\ \E keep \in 0 .. id :
              LET old == {i \in sentData : i < keep}
              IN /\ DecodeItems(old)
                 /\ sentData' = (sentData \ old) \cup {id}
                 /\ evicted' = evicted \cup old
                 /\ UNCHANGED <<started, numTile>>
  BY <1>4a DEF SendsFacts
<1>6. TypeOK'
  <2>1. /\ sentData' \subseteq Ids /\ started' \in Ids \cup {UNDEFINED} /\ numTile' \in Nat
        /\ decodedFb' \subseteq Ids /\ mergedFb' \in [AllTiles -> SUBSET Ids] /\ evicted' \subseteq Ids
    BY <1>1, <1>4, <1>5 DEF TypeOK, MachineTypeOK, DecodeItems, Blank
  <2>2. toMerge' \in Seq([id : Ids, syncId : SyncIds])
    <3>1. m \in [id : Ids, syncId : SyncIds] BY <1>4
    <3> HIDE DEF m
    <3> QED BY <1>1, <1>3, <3>1 DEF TypeOK
  <2>3. firstId' \in 0 .. MaxImages BY <1>1, <1>4 DEF TypeOK, MachineTypeOK
  <2> QED BY <1>1, <1>4, <2>1, <2>2, <2>3 DEF TypeOK, MachineTypeOK
<1>7. /\ Len(toMerge') = Len(toMerge) + 1 /\ Len(toMerge) \in Nat
      /\ \A k \in 1 .. Len(toMerge) : toMerge'[k] = toMerge[k]
      /\ toMerge'[Len(toMerge) + 1].id = id /\ toMerge'[Len(toMerge) + 1].syncId = syncId
  BY <1>1, <1>3 DEF TypeOK
<1>8. /\ \A i : (Told(i)' <=> Told(i)) /\ (Noted(i)' <=> Noted(i)) /\ (OnTheWay(i)' <=> OnTheWay(i) \/ i = id)
      /\ ToldInOrder' /\ NotedInOrder'
  <2>1. \A i : OnTheWay(i)' <=> OnTheWay(i) \/ i = id
    <3> TAKE i
    <3>1. OnTheWay(i)' => OnTheWay(i) \/ i = id BY <1>7 DEF OnTheWay
    <3>2. OnTheWay(i) => OnTheWay(i)' BY <1>7 DEF OnTheWay
    <3>3. ASSUME i = id PROVE OnTheWay(i)'
      <4>1. Len(toMerge) + 1 \in 1 .. Len(toMerge') /\ toMerge'[Len(toMerge) + 1].id = i BY <1>7, <3>3
      <4> QED BY <4>1 DEF OnTheWay
    <3> QED BY <3>1, <3>2, <3>3
  <2> QED BY <1>4, <2>1, ToldKept, NotedKept DEF IInv
<1>9. SendingFollows'
  <2>1. started < id /\ started \in Ids \cup {-1} BY <1>1 DEF IInv, SendingFollows, TypeOK, MachineTypeOK, UNDEFINED
  <2>2. started' = started \/ started' \in {id, -1} BY <1>5 DEF DecodeItems, UNDEFINED
  <2>3. started' < id + 1 BY <1>2, <2>1, <2>2
  <2>4. syncId # UNDEFINED BY <1>4, SyncIdFacts DEF UNDEFINED
  <2>5. firstId' <= id + 1 BY <1>2, <1>4 DEF IInv, SendingFollows
  <2>6. syncId <= newest /\ (fresh => syncId = newest) /\ (display = UNDEFINED => ~frameFeedbackActive)
    BY DEF IInv, SendingFollows
  <2> QED BY <1>4, <2>3, <2>4, <2>5, <2>6 DEF SendingFollows
<1>10. feedbackActiveRuntime => sentData \subseteq Ids /\ id \notin sentData
  BY <1>2 DEF IInv, FrameIsWhole, TypeOK, MachineTypeOK
<1>11. FrameIsWhole' /\ StartedIsFirst'
  <2> SUFFICES ASSUME feedbackActiveRuntime'
               PROVE  /\ sentData' \cup decodedFb' = firstId' .. (id' - 1)
                      /\ started' \in sentData' => decodedFb' = {} /\ \A i \in sentData' : started' <= i
    BY <1>4 DEF FrameIsWhole, StartedIsFirst
  <2>0. /\ id' - 1 = id /\ firstId <= id /\ started < id
        /\ feedbackActiveRuntime => /\ sentData \cup decodedFb = firstId .. (id - 1)
                                    /\ started \in sentData => decodedFb = {} /\ \A i \in sentData : started <= i
    BY <1>2, <1>4 DEF IInv, FrameIsWhole, StartedIsFirst, SendingFollows
  <2>1. CASE firstId' = id /\ sentData' = {id} /\ started' \in {id, UNDEFINED} /\ decodedFb' = {}
    <3>1. id .. id = {id} BY <1>2
    <3> QED BY <1>2, <2>0, <2>1, <3>1 DEF UNDEFINED
  <2>2. ASSUME feedbackActiveRuntime, NEW keep \in 0 .. id, DecodeItems({i \in sentData : i < keep}),
               sentData' = (sentData \ {i \in sentData : i < keep}) \cup {id}, started' = started
        PROVE  /\ sentData' \cup decodedFb' = firstId .. id
               /\ started' \in sentData' => decodedFb' = {} /\ \A i \in sentData' : started' <= i
    <3> DEFINE old == {i \in sentData : i < keep}
    <3>1. decodedFb' = IF started \in old THEN old ELSE decodedFb \cup old BY <2>2 DEF DecodeItems
    <3>2. started \in old => decodedFb = {} BY <2>0, <2>2
    <3>3. decodedFb' = decodedFb \cup old BY <3>1, <3>2
    <3>4. sentData' \cup decodedFb' = (sentData \cup decodedFb) \cup {id} BY <2>2, <3>3
    <3>5. (firstId .. (id - 1)) \cup {id} = firstId .. id BY <1>2, <2>0
    <3>6. ASSUME started' \in sentData' PROVE decodedFb' = {} /\ \A i \in sentData' : started' <= i
      <4>0. started \in Ids \cup {-1} BY <1>1 DEF TypeOK, MachineTypeOK, UNDEFINED
      <4>1. started # id BY <1>2, <2>0, <4>0
      <4>2. CASE started \in sentData /\ started \notin old
        <5>1. decodedFb = {} /\ \A i \in sentData : started <= i BY <2>0, <2>2, <4>2
        <5>0. sentData \subseteq Nat BY <1>1, <1>2 DEF TypeOK, MachineTypeOK
        <5>1a. started \in Nat /\ ~(started < keep) BY <5>0, <4>2
        <5>1b. keep \in Nat BY <1>2
        <5>2. started \in Nat /\ keep \in Nat /\ started >= keep BY <5>1a, <5>1b
        <5>3. \A i \in sentData : i \in Nat /\ ~(i < keep) BY <5>0, <5>1, <5>2
        <5>4. old = {} BY <5>3
        <5>5. started < id BY <1>2, <2>0, <4>2, <5>2
        <5> QED BY <2>2, <3>3, <5>1, <5>4, <5>5, <1>2, <5>2
      <4> QED BY <2>2, <3>6, <4>1, <4>2
    <3> QED BY <2>0, <2>2, <3>4, <3>5, <3>6
  <2> QED BY <1>5, <2>0, <2>1, <2>2
<1>12. ImagesInOrder'
  <2> SUFFICES ASSUME NEW k \in 1 .. Len(toMerge) + 1
               PROVE  /\ toMerge'[k].id < id + 1 /\ toMerge'[k].syncId <= newest
                      /\ firstId' <= toMerge'[k].id => toMerge'[k].syncId = syncId
                      /\ \A l \in 1 .. Len(toMerge) + 1 : k < l => toMerge'[k].id < toMerge'[l].id
    BY <1>4, <1>7 DEF ImagesInOrder
  <2>1. CASE k \in 1 .. Len(toMerge)
    <3>1. /\ toMerge[k].id \in Nat /\ toMerge[k].id < id /\ toMerge[k].syncId <= newest
          /\ firstId <= toMerge[k].id => toMerge[k].syncId = syncId
          /\ \A l \in 1 .. Len(toMerge) : k < l => toMerge[k].id < toMerge[l].id
      BY <1>2, <2>1 DEF IInv, ImagesInOrder
    <3>2. firstId' <= toMerge[k].id => toMerge[k].syncId = syncId BY <1>2, <1>4, <3>1
    <3>3. toMerge'[k] = toMerge[k] BY <1>7, <2>1
    <3> QED BY <1>2, <1>7, <2>1, <3>1, <3>2, <3>3
  <2>2. CASE k = Len(toMerge) + 1
    <3>1. syncId <= newest BY DEF IInv, SendingFollows
    <3> QED BY <1>2, <1>7, <2>2, <3>1
  <2> QED BY <1>7, <2>1, <2>2
<1>13. PassedInOrder'
  <2> SUFFICES ASSUME NEW i \in Ids
               PROVE  /\ Told(i) \/ Noted(i) \/ i \in pending =>
                           i < id + 1 /\ \A j \in Ids : OnTheWay(j) \/ j = id => i < j
                      /\ Told(i) \/ Noted(i) => \A j \in pending : i < j
                      /\ Told(i) => \A j \in Ids : Noted(j) => i < j
    BY <1>4, <1>8 DEF PassedInOrder
  <2>1. Told(i) \/ Noted(i) \/ i \in pending => i < id BY DEF IInv, PassedInOrder
  <2> QED BY <1>2, <2>1 DEF IInv, PassedInOrder
<1>14. feedbackActiveRuntime' =>
         \/ sentData' \subseteq {id}
         \/ feedbackActiveRuntime /\ sentData' \subseteq sentData \cup {id}
  BY <1>5
<1>15. CachedIsToldLater'
  <2> SUFFICES ASSUME feedbackActiveRuntime', NEW i \in sentData', NEW j \in Ids, Told(j), i < j PROVE Told(i)
    BY <1>4, <1>8 DEF CachedIsToldLater
  <2>1. j < id BY DEF IInv, PassedInOrder
  <2>2. feedbackActiveRuntime /\ i \in sentData BY <1>2, <1>14, <2>1
  <2> QED BY <2>2 DEF IInv, CachedIsToldLater
<1>16. CachedIsOnItsWay' BY <1>4, <1>8, <1>14 DEF IInv, CachedIsOnItsWay
<1>17. AheadIsEmpty' /\ ToldIsDecoded'
  <2>1. AheadIsEmpty' BY <1>4, <1>8 DEF IInv, AheadIsEmpty
  <2>2. ASSUME NEW i \in firstId' .. (MaxImages - 1)
        PROVE  /\ Noted(i) \/ i \in pending => display = syncId
               /\ display <= syncId /\ (Told(i) \/ Noted(i)) => display = syncId /\ i \in decoded
    <3>1. i \in firstId .. (MaxImages - 1) BY <1>2, <1>4, <2>2 DEF IInv, SendingFollows
    <3> QED BY <2>2, <3>1 DEF IInv, ToldIsDecoded
  <2> QED BY <1>4, <1>8, <2>1, <2>2 DEF ToldIsDecoded
<1>18. NeverAhead'
  <2> SUFFICES ASSUME feedbackActiveRuntime', display <= syncId
               PROVE  decodedFb' \subseteq evicted' \cup (IF display = syncId THEN decoded ELSE {})
    BY <1>4 DEF NeverAhead
  <2>1. feedbackActiveRuntime => decodedFb \subseteq evicted \cup (IF display = syncId THEN decoded ELSE {})
    BY DEF IInv, NeverAhead
  <2> QED BY <1>5, <2>1 DEF DecodeItems
<1>19. OneStartPerFrame' /\ FeedbackOfOneFrame' BY <1>4 DEF IInv, OneStartPerFrame, FeedbackOfOneFrame
<1> QED BY <1>6, <1>8, <1>9, <1>11, <1>12, <1>13, <1>15, <1>16, <1>17, <1>18, <1>19 DEF IInv

(***************************************************************************)
(* The machine receives feedback and evaluates it.                         *)
(***************************************************************************)

LEMMA ReceivesKeepsIInv == IInv /\ MachineReceives => IInv'
<1> SUFFICES ASSUME IInv, MachineReceives PROVE IInv' OBVIOUS
<1> USE DEF frame, cache, mergeVars, mergeFrame, mergeFeedback
<1> DEFINE msg == toMcrt[1]
           n == Len(toMcrt)
<1>1. TypeOK BY DEF IInv
<1>2. toMcrt \in Seq(Messages) /\ toMcrt # <<>> BY <1>1 DEF TypeOK, MachineReceives
<1>3. /\ toMcrt' = Tail(toMcrt) /\ toMcrt' \in Seq(Messages) /\ n \in Nat /\ n >= 1 /\ Len(toMcrt') = n - 1
      /\ Head(toMcrt) = msg /\ msg \in Messages
      /\ \A k \in 1 .. n - 1 : toMcrt'[k] = toMcrt[k + 1] /\ k + 1 \in 1 .. n
      /\ \A k \in 1 .. n : k # 1 => k - 1 \in 1 .. n - 1 /\ toMcrt[k] = toMcrt'[k - 1]
  BY <1>2, TailFacts DEF MachineReceives
<1>4. msg.syncId \in SyncIds /\ msg.actions \in Seq(Actions) BY <1>3 DEF Messages
<1>5. /\ message = NoMessage
      /\ message' = IF msg.actions = <<>> THEN NoMessage ELSE msg
      /\ outOfTable' \in BOOLEAN
      /\ feedbackFb' = IF msg.isStarted THEN {msg.syncId} ELSE feedbackFb \cup {msg.syncId}
      /\ UNCHANGED <<feedbackActiveRuntime, frame, cache, lastAction, tileTbl, evicted, toMerge, mergeVars>>
  <2>1. evalProgressiveFeedbackMessage(msg) BY <1>3 DEF MachineReceives
  <2>2. outOfTable \in BOOLEAN BY <1>1 DEF TypeOK, MachineTypeOK
  <2>3. outOfTable' = outOfTable \/ outOfTable' = (numTile = 0)
    BY <2>1 DEF evalProgressiveFeedbackMessage
  <2>4. (numTile = 0) \in BOOLEAN OBVIOUS
  <2>5. outOfTable' \in BOOLEAN BY <2>2, <2>3, <2>4
  <2>6. message = NoMessage BY <2>1 DEF evalProgressiveFeedbackMessage, Ready
  <2>7. message' = IF msg.actions = <<>> THEN NoMessage ELSE msg
    BY <2>1, <2>6 DEF evalProgressiveFeedbackMessage
  <2> HIDE DEF msg
  <2> QED BY <2>1, <2>5, <2>6, <2>7 DEF evalProgressiveFeedbackMessage, MachineReceives
<1> HIDE DEF msg
<1>6. message'.actions = msg.actions /\ message.actions = <<>> BY <1>5 DEF NoMessage
<1>7. TypeOK'
  <2>1. message' \in Messages \cup {NoMessage} BY <1>3, <1>5
  <2>2. feedbackFb' \subseteq SyncIds BY <1>1, <1>4, <1>5 DEF TypeOK, MachineTypeOK
  <2> QED BY <1>1, <1>3, <1>5, <2>1, <2>2 DEF TypeOK, MachineTypeOK
<1>8. \A i : Told(i)' <=> Told(i)
  <2> TAKE i
  <2>1. ~Named(i, message.actions) BY <1>6 DEF Named
  <2>2. Told(i) => Told(i)'
    <3>1. SUFFICES ASSUME NEW k \in 1 .. n, Named(i, toMcrt[k].actions) PROVE Told(i)' BY <2>1 DEF Told
    <3>2. CASE k = 1 BY <1>6, <3>1, <3>2 DEF Told, msg, Named
    <3>3. CASE k # 1
      <4>1. k - 1 \in 1 .. Len(toMcrt') /\ Named(i, toMcrt'[k - 1].actions) BY <1>3, <3>1, <3>3
      <4> QED BY <4>1 DEF Told, Named
    <3> QED BY <3>2, <3>3
  <2>3. Told(i)' => Told(i)
    <3>1. ASSUME Told(i)' PROVE Named(i, message'.actions) \/ \E k \in 1 .. n - 1 : Named(i, toMcrt'[k].actions)
      BY <1>3, <3>1 DEF Told, Named
    <3>2. Named(i, message'.actions) => Told(i)
      <4>1. 1 \in 1 .. n BY <1>3
      <4> QED BY <1>6, <4>1 DEF Told, msg
    <3>3. ASSUME NEW k \in 1 .. n - 1, Named(i, toMcrt'[k].actions) PROVE Told(i)
      <4>1. k + 1 \in 1 .. n /\ Named(i, toMcrt[k + 1].actions) BY <1>3, <3>3
      <4> QED BY <4>1 DEF Told
    <3> QED BY <3>1, <3>2, <3>3
  <2> QED BY <2>2, <2>3
<1>9. ToldInOrder'
  <2>1. InOrder(message.actions)' 
    <3>1. 1 \in 1 .. n BY <1>3
    <3>2. InOrder(msg.actions) BY <3>1 DEF IInv, ToldInOrder, msg
    <3> QED BY <1>6, <3>2 DEF InOrder
  <2>2. ASSUME NEW k \in 1 .. n - 1
        PROVE  /\ InOrder(toMcrt'[k].actions)
               /\ \A i, j \in Ids : Named(j, toMcrt'[k].actions) =>
                    /\ Named(i, message'.actions) => i < j
                    /\ \A l \in 1 .. k - 1 : Named(i, toMcrt'[l].actions) => i < j
    <3>1. k + 1 \in 1 .. n /\ toMcrt'[k] = toMcrt[k + 1] BY <1>3
    <3>2. InOrder(toMcrt'[k].actions) BY <3>1 DEF IInv, ToldInOrder
    <3>3. ASSUME NEW i \in Ids, NEW j \in Ids, Named(j, toMcrt'[k].actions)
          PROVE  /\ Named(i, message'.actions) => i < j
                 /\ \A l \in 1 .. k - 1 : Named(i, toMcrt'[l].actions) => i < j
      <4>1. \A l \in 1 .. (k + 1) - 1 : Named(i, toMcrt[l].actions) => i < j
        BY <3>1, <3>3 DEF IInv, ToldInOrder
      <4>2. 1 \in 1 .. (k + 1) - 1 BY <1>3
      <4>3. Named(i, message'.actions) => i < j BY <1>6, <4>1, <4>2 DEF msg
      <4>4. ASSUME NEW l \in 1 .. k - 1, Named(i, toMcrt'[l].actions) PROVE i < j
        <5>1. l \in 1 .. n - 1 /\ l + 1 \in 1 .. (k + 1) - 1 BY <1>3
        <5>2. toMcrt'[l] = toMcrt[l + 1] BY <1>3, <5>1
        <5> QED BY <4>1, <4>4, <5>1, <5>2
      <4> QED BY <4>3, <4>4
    <3> QED BY <3>2, <3>3
  <2> QED BY <1>3, <2>1, <2>2 DEF ToldInOrder, InOrder, Named
<1>10. /\ \A i : (Noted(i)' <=> Noted(i)) /\ (OnTheWay(i)' <=> OnTheWay(i))
       /\ NotedInOrder'
  BY <1>5, NotedKept, OnTheWayKept DEF IInv
<1>11. SendingFollows' /\ FrameIsWhole' /\ StartedIsFirst' /\ ImagesInOrder'
  BY <1>5 DEF IInv, SendingFollows, FrameIsWhole, StartedIsFirst, ImagesInOrder
<1>12. PassedInOrder' BY <1>5, <1>8, <1>10 DEF IInv, PassedInOrder
<1>13. CachedIsToldLater' /\ CachedIsOnItsWay'
  BY <1>5, <1>8, <1>10 DEF IInv, CachedIsToldLater, CachedIsOnItsWay
<1>14. AheadIsEmpty' /\ ToldIsDecoded' /\ NeverAhead'
  BY <1>5, <1>8, <1>10 DEF IInv, AheadIsEmpty, ToldIsDecoded, NeverAhead
<1>15. feedbackFb' = {msg.syncId}
  <2>1. 1 \in 1 .. n BY <1>3
  <2>2. ~msg.isStarted => feedbackFb = {msg.syncId} BY <2>1 DEF IInv, OneStartPerFrame, msg
  <2> QED BY <1>5, <2>2
<1>16. FeedbackOfOneFrame' BY <1>5, <1>15 DEF FeedbackOfOneFrame
<1>17. OneStartPerFrame'
  <2>1. ASSUME NEW k \in 1 .. n - 1, ~toMcrt'[k].isStarted
        PROVE  IF k = 1 THEN feedbackFb' = {toMcrt'[1].syncId} ELSE toMcrt'[k - 1].syncId = toMcrt'[k].syncId
    <3>1. k + 1 \in 1 .. n /\ toMcrt'[k] = toMcrt[k + 1] /\ k + 1 # 1 /\ (k + 1) - 1 = k BY <1>3
    <3>2. toMcrt[k].syncId = toMcrt[k + 1].syncId BY <2>1, <3>1 DEF IInv, OneStartPerFrame
    <3>3. CASE k = 1 BY <1>15, <3>1, <3>2, <3>3 DEF msg
    <3>4. CASE k # 1
      <4>1. k - 1 \in 1 .. n - 1 /\ (k - 1) + 1 = k BY <3>4
      <4>2. toMcrt'[k - 1] = toMcrt[k] BY <1>3, <4>1
      <4> QED BY <3>1, <3>2, <3>4, <4>2
    <3> QED BY <3>3, <3>4
  <2>2. ASSUME ~feedbackInitialized'
        PROVE  IF toMcrt' = <<>> THEN feedbackFb' = {lastSentFeedbackSyncId'}
               ELSE toMcrt'[Len(toMcrt')].syncId = lastSentFeedbackSyncId'
    <3>1. toMcrt[n].syncId = lastSentFeedbackSyncId' BY <1>2, <1>5, <2>2 DEF IInv, OneStartPerFrame
    <3>2. CASE toMcrt' = <<>>
      <4>0. Len(toMcrt') = 0 BY <3>2
      <4>1. n = 1 BY <1>3, <4>0
      <4> QED BY <1>15, <3>1, <3>2, <4>1 DEF msg
    <3>3. CASE toMcrt' # <<>>
      <4>1. n - 1 \in 1 .. n - 1 /\ (n - 1) + 1 = n BY <1>3, <3>3
      <4>2. toMcrt'[n - 1] = toMcrt[n] BY <1>3, <4>1
      <4> QED BY <1>3, <3>1, <3>3, <4>2
    <3> QED BY <3>2, <3>3
  <2> QED BY <1>3, <2>1, <2>2 DEF OneStartPerFrame
<1> QED BY <1>7, <1>9, <1>10, <1>11, <1>12, <1>13, <1>14, <1>16, <1>17 DEF IInv

(* The facts that all callbacks of decodeLoop() but the last share: the head of the
   message's actions is done. *)
LEMMA HeadIsDone ==
  ASSUME IInv, NEW op, Evaluating(op),
         UNCHANGED <<toMcrt, tracker, toMerge, feedbackFb, feedbackInitialized, lastSentFeedbackSyncId>>
  PROVE  /\ message.actions \in Seq(Actions) /\ Head(message.actions) \in Actions
         /\ Head(message.actions).op = op
         /\ message' \in Messages
         /\ \A i : Told(i) <=> i \in Head(message.actions).ids \/ Told(i)'
         /\ \A i \in Head(message.actions).ids, j \in Ids : Told(j)' => i < j
         /\ \A i : (Noted(i)' <=> Noted(i)) /\ (OnTheWay(i)' <=> OnTheWay(i))
         /\ ToldInOrder' /\ NotedInOrder' /\ FeedbackOfOneFrame' /\ OneStartPerFrame'
<1> DEFINE A == message.actions
<1>1. message \in Messages BY DEF IInv, TypeOK, MachineTypeOK, Evaluating
<1>2. A \in Seq(Actions) /\ A # <<>> /\ Head(A).op = op /\ message' = [message EXCEPT !.actions = Tail(@)]
  BY <1>1 DEF Messages, Evaluating
<1>3. Head(A) \in Actions /\ Tail(A) \in Seq(Actions) BY <1>2, TailFacts
<1>4. message' \in Messages /\ message'.actions = Tail(A) /\ message'.syncId = message.syncId
  BY <1>1, <1>2, <1>3 DEF Messages
<1> HIDE DEF A
<1>5. /\ \A i : Named(i, A) <=> i \in Head(A).ids \/ Named(i, Tail(A))
      /\ InOrder(A) => InOrder(Tail(A)) /\ \A i \in Head(A).ids : \A j : Named(j, Tail(A)) => i < j
  BY <1>2, NamedTail
<1>6. InOrder(A) BY DEF IInv, ToldInOrder, A
<1>7. ASSUME NEW i PROVE /\ Told(i) <=> i \in Head(A).ids \/ Told(i)'
                         /\ Named(i, message'.actions) => Named(i, message.actions)
  BY <1>4, <1>5 DEF Told, Named, A
<1>8. ASSUME NEW i \in Head(A).ids, NEW j \in Ids, Told(j)' PROVE i < j
  <2>1. i \in Ids BY <1>3 DEF Actions
  <2>2. CASE Named(j, Tail(A)) BY <1>5, <1>6, <2>2
  <2>3. CASE \E k \in 1 .. Len(toMcrt) : Named(j, toMcrt[k].actions)
    <3>1. Named(i, message.actions) BY <1>5 DEF A
    <3> QED BY <2>1, <2>3, <3>1 DEF IInv, ToldInOrder
  <2> QED BY <1>4, <1>8, <2>2, <2>3 DEF Told, Named
<1>9. ToldInOrder'
  <2>1. InOrder(message'.actions) BY <1>4, <1>5, <1>6
  <2> QED BY <1>7, <2>1 DEF IInv, ToldInOrder, InOrder, Named
<1>10. NotedInOrder' /\ \A i : (Noted(i)' <=> Noted(i)) /\ (OnTheWay(i)' <=> OnTheWay(i))
  BY NotedKept, OnTheWayKept DEF IInv
<1>11. FeedbackOfOneFrame' /\ OneStartPerFrame'
  <2>1. message # NoMessage BY DEF Evaluating
  <2> QED BY <1>4, <2>1 DEF IInv, FeedbackOfOneFrame, OneStartPerFrame
<1> QED BY <1>2, <1>3, <1>4, <1>7, <1>8, <1>9, <1>10, <1>11 DEF A

LEMMA DecodeKeepsIInv ==
  ASSUME IInv, NEW op \in DecodeOps, DecodeFunc(op), UNCHANGED <<toMerge, toMcrt, mergeVars>>
  PROVE  IInv'
<1> USE DEF frame, mergeVars, mergeFrame, mergeFeedback
<1> DEFINE N == Head(message.actions).ids
           found == Found(N)
<1>1. TypeOK BY DEF IInv
<1>2. /\ syncId \in Int /\ display \in Int /\ sendImageActionId \in Nat /\ firstId \in Nat /\ Ids \subseteq Nat
      /\ sentData \subseteq Ids
  BY <1>1, Numbers DEF TypeOK, MachineTypeOK
<1>3. /\ Evaluating(op) /\ lastAction' = op
      /\ found = sentData \cap N
      /\ sentData' = {i \in sentData : \A j \in N : i > j}
      /\ decodedFb' = IF started \in found THEN found ELSE decodedFb \cup found
      /\ mergedFb' = IF started \in found THEN Blank ELSE Merged
      /\ UNCHANGED <<feedbackActiveRuntime, frame, started, numTile, tileTbl, feedbackFb, evicted, outOfTable, toMerge, toMcrt, mergeVars>>
  BY DEF DecodeFunc, decodeItemsById, Found, MergedBefore
<1>4. /\ Head(message.actions) \in Actions /\ message' \in Messages
      /\ \A i : Told(i) <=> i \in N \/ Told(i)'
      /\ \A i \in N, j \in Ids : Told(j)' => i < j
      /\ \A i : (Noted(i)' <=> Noted(i)) /\ (OnTheWay(i)' <=> OnTheWay(i))
      /\ ToldInOrder' /\ NotedInOrder' /\ FeedbackOfOneFrame' /\ OneStartPerFrame'
  BY <1>3, HeadIsDone
<1>5. N \subseteq Ids BY <1>4 DEF Actions
<1> HIDE DEF N, found
<1>6. TypeOK'
  <2>1. mergedFb' \in [AllTiles -> SUBSET Ids]
    BY <1>1, <1>3 DEF TypeOK, MachineTypeOK, Blank, Merged
  <2>2. sentData' \subseteq Ids /\ decodedFb' \subseteq Ids BY <1>1, <1>2, <1>3 DEF TypeOK, MachineTypeOK
  <2>3. lastAction' \in DecodeOps \cup MergeOps \cup {"EOD"} BY <1>3
  <2> QED BY <1>1, <1>3, <1>4, <2>1, <2>2, <2>3 DEF TypeOK, MachineTypeOK
<1>7. SendingFollows' /\ ImagesInOrder' BY <1>3 DEF IInv, SendingFollows, ImagesInOrder
<1>8. PassedInOrder' BY <1>3, <1>4 DEF IInv, PassedInOrder
<1>9. AheadIsEmpty' /\ ToldIsDecoded' BY <1>3, <1>4 DEF IInv, AheadIsEmpty, ToldIsDecoded
<1>10. ASSUME feedbackActiveRuntime, NEW i \in sentData, NEW j \in Ids, Told(j), i < j, i \notin N PROVE Told(i)'
  BY <1>4, <1>10 DEF IInv, CachedIsToldLater
(* What leaves the cache without being one of the ids is told later: impossible. *)
<1>11. ASSUME feedbackActiveRuntime, NEW i \in sentData, i \notin sentData' PROVE i \in N
  <2>1. PICK j \in N : ~(i > j) BY <1>3, <1>11
  <2>2. i \in Nat /\ j \in Nat /\ j \in Ids /\ i \in Ids BY <1>2, <1>5
  <2>3. CASE i = j BY <2>3
  <2>4. CASE i < j
    <3>1. SUFFICES ASSUME i \notin N PROVE FALSE OBVIOUS
    <3>2. Told(i)' BY <1>4, <1>10, <1>11, <2>2, <2>4, <3>1
    <3>3. j < i BY <1>4, <2>2, <3>2
    <3> QED BY <2>2, <2>4, <3>3
  <2> QED BY <2>1, <2>2, <2>3, <2>4
<1>12. FrameIsWhole'
  <2> SUFFICES ASSUME feedbackActiveRuntime PROVE sentData' \cup decodedFb' = sentData \cup decodedFb
    BY <1>3 DEF IInv, FrameIsWhole
  <2>1. started \in found => decodedFb = {} BY <1>3 DEF IInv, StartedIsFirst
  <2>2. decodedFb' = decodedFb \cup found BY <1>3, <2>1
  <2>3. sentData' \subseteq sentData /\ sentData \ sentData' \subseteq found BY <1>3, <1>11
  <2> QED BY <1>3, <2>2, <2>3
<1>13. StartedIsFirst'
  <2> SUFFICES ASSUME feedbackActiveRuntime, started \in sentData'
               PROVE  decodedFb' = {} /\ \A i \in sentData' : started <= i
    BY <1>3 DEF StartedIsFirst
  <2>1. started \in sentData /\ \A j \in N : started > j BY <1>3
  <2>2. decodedFb = {} /\ \A i \in sentData : started <= i BY <2>1 DEF IInv, StartedIsFirst
  <2>3. ASSUME NEW i \in found PROVE FALSE
    <3>1. i \in sentData /\ i \in N BY <1>3
    <3>2. started <= i /\ started > i BY <2>1, <2>2, <3>1
    <3> QED BY <1>2, <2>1, <3>1, <3>2
  <2> QED BY <1>3, <2>2, <2>3
<1>14. CachedIsToldLater'
  <2> SUFFICES ASSUME feedbackActiveRuntime, NEW i \in sentData', NEW j \in Ids, Told(j)', i < j PROVE Told(i)'
    BY <1>3 DEF CachedIsToldLater
  <2>1. i \in sentData /\ i \in Nat /\ \A k \in N : i > k BY <1>2, <1>3
  <2>2. i \notin N BY <2>1
  <2> QED BY <1>4, <1>10, <2>1, <2>2
<1>15. CachedIsOnItsWay'
  <2> SUFFICES ASSUME feedbackActiveRuntime, display <= syncId, NEW i \in sentData'
               PROVE  Told(i)' \/ Noted(i)' \/ i \in pending' \/ OnTheWay(i)'
    BY <1>3 DEF CachedIsOnItsWay
  <2>1. i \in sentData /\ i \in Nat /\ \A k \in N : i > k BY <1>2, <1>3
  <2>2. i \notin N BY <2>1
  <2> QED BY <1>3, <1>4, <2>1, <2>2 DEF IInv, CachedIsOnItsWay
<1>16. NeverAhead'
  <2> SUFFICES ASSUME feedbackActiveRuntime, display <= syncId, NEW i \in decodedFb'
               PROVE  i \in evicted \cup (IF display = syncId THEN decoded ELSE {})
    BY <1>3 DEF NeverAhead
  <2>1. CASE i \in decodedFb BY <2>1 DEF IInv, NeverAhead
  <2>2. CASE i \in found
    <3>1. i \in sentData /\ Told(i) /\ i \in Ids BY <1>2, <1>3, <1>4, <2>2
    <3>2. i \in firstId .. (sendImageActionId - 1) BY <3>1 DEF IInv, FrameIsWhole
    <3>3. i \in firstId .. (MaxImages - 1) BY <1>2, <3>1, <3>2 DEF Ids
    <3>4. display = syncId /\ i \in decoded BY <3>1, <3>3 DEF IInv, ToldIsDecoded
    <3> QED BY <3>4
  <2> QED BY <1>3, <2>1, <2>2
<1> QED BY <1>4, <1>6, <1>7, <1>8, <1>9, <1>12, <1>13, <1>14, <1>15, <1>16 DEF IInv

(* A merge of tiles, and the end of the data, leave the ids alone. *)
LEMMA IdsUntouched ==
  ASSUME IInv, TypeOK', ToldInOrder', NotedInOrder', FeedbackOfOneFrame', OneStartPerFrame',
         \A i : (Told(i)' <=> Told(i)) /\ (Noted(i)' <=> Noted(i)) /\ (OnTheWay(i)' <=> OnTheWay(i)),
         UNCHANGED <<feedbackActiveRuntime, frame, sentData, started, decodedFb, evicted, toMerge, display,
                     frameFeedbackActive, pending, decoded>>
  PROVE  IInv'
<1> USE DEF frame
<1>1. SendingFollows' /\ FrameIsWhole' /\ StartedIsFirst' /\ ImagesInOrder'
  BY DEF IInv, SendingFollows, FrameIsWhole, StartedIsFirst, ImagesInOrder
<1>2. PassedInOrder' BY DEF IInv, PassedInOrder
<1>3. CachedIsToldLater' /\ CachedIsOnItsWay' BY DEF IInv, CachedIsToldLater, CachedIsOnItsWay
<1>4. AheadIsEmpty' /\ ToldIsDecoded' /\ NeverAhead' BY DEF IInv, AheadIsEmpty, ToldIsDecoded, NeverAhead
<1> QED BY <1>1, <1>2, <1>3, <1>4 DEF IInv

LEMMA MergeTileKeepsIInv ==
  ASSUME IInv, NEW op \in MergeOps, NEW tiles \in SUBSET Nat, MergeTileFunc(op, tiles),
         UNCHANGED <<toMerge, toMcrt, mergeVars>>
  PROVE  IInv'
<1> USE DEF frame, cache, mergeVars, mergeFrame, mergeFeedback
<1>1. TypeOK BY DEF IInv
<1>2. /\ Evaluating(op) /\ lastAction' = op
      /\ UNCHANGED <<feedbackActiveRuntime, frame, cache, feedbackFb, evicted, toMerge, toMcrt, mergeVars>>
  BY DEF MergeTileFunc
<1>3. /\ Head(message.actions) \in Actions /\ Head(message.actions).op = op /\ message' \in Messages
      /\ \A i : Told(i) <=> i \in Head(message.actions).ids \/ Told(i)'
      /\ \A i : (Noted(i)' <=> Noted(i)) /\ (OnTheWay(i)' <=> OnTheWay(i))
      /\ ToldInOrder' /\ NotedInOrder' /\ FeedbackOfOneFrame' /\ OneStartPerFrame'
  BY <1>2, HeadIsDone
<1>4. Head(message.actions).ids = {} BY <1>3 DEF Actions, MergeOps, DecodeOps
<1>5. TypeOK'
  <2>1. outOfTable' \in BOOLEAN /\ tileTbl' \subseteq Nat
    <3>1. tileTbl \subseteq Nat BY <1>1 DEF TypeOK, MachineTypeOK
    <3> QED BY <3>1 DEF MergeTileFunc
  <2> QED BY <1>1, <1>2, <1>3, <2>1 DEF TypeOK, MachineTypeOK
<1> QED BY <1>2, <1>3, <1>4, <1>5, IdsUntouched

LEMMA EodKeepsIInv == IInv /\ eodFunc /\ UNCHANGED <<toMerge, toMcrt, mergeVars>> => IInv'
<1> SUFFICES ASSUME IInv, eodFunc, UNCHANGED <<toMerge, toMcrt, mergeVars>> PROVE IInv' OBVIOUS
<1> USE DEF frame, mergeVars, mergeFrame, mergeFeedback
<1>1. TypeOK BY DEF IInv
<1>2. /\ message.actions = <<>> /\ message' = NoMessage /\ message'.actions = <<>>
      /\ UNCHANGED <<feedbackActiveRuntime, frame, sentData, started, numTile, decodedFb, feedbackFb, evicted,
                     outOfTable, toMerge, toMcrt, mergeVars>>
      /\ mergedFb' = Merged /\ lastAction' = "EOD" /\ tileTbl' = {}
  BY DEF eodFunc, NoMessage
<1>3. TypeOK' BY <1>1, <1>2 DEF TypeOK, MachineTypeOK, Merged
<1>4. /\ \A i : Told(i)' <=> Told(i)
      /\ ToldInOrder'
  BY <1>2 DEF IInv, Told, ToldInOrder, InOrder, Named
<1>5. NotedInOrder' /\ \A i : (Noted(i)' <=> Noted(i)) /\ (OnTheWay(i)' <=> OnTheWay(i))
  BY <1>2, NotedKept, OnTheWayKept DEF IInv
<1>6. FeedbackOfOneFrame' /\ OneStartPerFrame' BY <1>2 DEF IInv, FeedbackOfOneFrame, OneStartPerFrame
<1> QED BY <1>2, <1>3, <1>4, <1>5, <1>6, IdsUntouched

LEMMA EvaluatesKeepsIInv == IInv /\ MachineEvaluates => IInv'
<1> SUFFICES ASSUME IInv, MachineEvaluates PROVE IInv' OBVIOUS
<1>1. UNCHANGED <<toMerge, toMcrt, mergeVars>> /\ decodeMessage BY DEF MachineEvaluates
<1>2. CASE decodeSingleFunc BY <1>1, <1>2, DecodeKeepsIInv DEF decodeSingleFunc, DecodeOps
<1>3. CASE decodeRangeFunc BY <1>1, <1>3, DecodeKeepsIInv DEF decodeRangeFunc, DecodeOps
<1>4. ASSUME NEW op, Evaluating(op) PROVE Head(message.actions).tiles \in SUBSET Nat
  <2>1. message \in Messages BY <1>4 DEF IInv, TypeOK, MachineTypeOK, Evaluating
  <2>2. message.actions \in Seq(Actions) /\ message.actions # <<>> BY <1>4, <2>1 DEF Messages, Evaluating
  <2>3. Head(message.actions) \in Actions BY <2>2, TailFacts
  <2> QED BY <2>3 DEF Actions
<1>5. CASE mergeTileSingleFunc
  <2>1. Evaluating("MERGE_TILE_SINGLE") BY <1>5 DEF mergeTileSingleFunc, MergeTileFunc
  <2> QED BY <1>1, <1>4, <1>5, <2>1, MergeTileKeepsIInv DEF mergeTileSingleFunc, MergeOps
<1>6. CASE mergeTileRangeFunc
  <2>1. Evaluating("MERGE_TILE_RANGE") BY <1>6 DEF mergeTileRangeFunc, MergeTileFunc
  <2> QED BY <1>1, <1>4, <1>6, <2>1, MergeTileKeepsIInv DEF mergeTileRangeFunc, MergeOps
<1>7. CASE mergeAllTilesFunc
  <2>1. Tiles(numTile) \in SUBSET Nat BY DEF IInv, TypeOK, MachineTypeOK, Tiles
  <2> QED BY <1>1, <1>7, <2>1, MergeTileKeepsIInv DEF mergeAllTilesFunc, MergeOps
<1>8. CASE eodFunc BY <1>1, <1>8, EodKeepsIInv
<1> QED BY <1>1, <1>2, <1>3, <1>5, <1>6, <1>7, <1>8 DEF decodeMessage

(***************************************************************************)
(* The merge receives images, merges and sends feedback.                   *)
(***************************************************************************)

LEMMA NewFrameKeepsIInv ==
  ASSUME IInv, NEW s \in SyncIds, NEW ids \in SUBSET Ids, NewFrame(s, ids),
         UNCHANGED <<machineVars, toMcrt>>,
         toMerge' \in Seq([id : Ids, syncId : SyncIds]), ImagesInOrder',
         \A i : OnTheWay(i) <=> i \in ids \/ OnTheWay(i)',
         \A i \in ids : /\ i < sendImageActionId /\ s <= newest /\ (firstId <= i => s = syncId)
                       /\ \A j \in Ids : OnTheWay(j)' => i < j
  PROVE  IInv'
<1> USE DEF machineVars, frame, cache, evaluation
<1>1. TypeOK BY DEF IInv
<1>2. /\ syncId \in Int /\ display \in Int /\ newest \in Int /\ sendImageActionId \in Nat /\ firstId \in Nat /\ Ids \subseteq Nat
      /\ s \in Int /\ s >= 0
  BY <1>1, Numbers, SyncIdFacts
<1>3. /\ display' = s /\ display < s /\ frameFeedbackActive' \in BOOLEAN
      /\ pending' = ids /\ decoded' = {} /\ merged' = Blank /\ tracker' = <<>>
      /\ lastSentFeedbackSyncId' = lastSentFeedbackSyncId
      /\ ~feedbackInitialized' => ~feedbackInitialized
  BY <1>2 DEF NewFrame
<1>4. feedbackInitialized' \in BOOLEAN BY <1>1 DEF TypeOK, NewFrame
<1>5. TypeOK'
  <2>1. tracker' \in Seq(Actions) /\ merged' \in [AllTiles -> SUBSET Ids] BY <1>3 DEF Blank
  <2> QED BY <1>1, <1>3, <1>4, <2>1 DEF TypeOK, MachineTypeOK
<1>6. /\ ToldInOrder' /\ \A i : Told(i)' <=> Told(i)
      /\ NotedInOrder' /\ \A i : ~Noted(i)'
  BY <1>3, ToldKept DEF IInv, Noted, NotedInOrder, InOrder, Named
<1>7. SendingFollows' /\ FrameIsWhole' /\ StartedIsFirst'
  BY <1>2, <1>3 DEF IInv, SendingFollows, FrameIsWhole, StartedIsFirst, UNDEFINED
<1>8. PassedInOrder' BY <1>3, <1>6 DEF IInv, PassedInOrder
<1>9. CachedIsToldLater' BY <1>6 DEF IInv, CachedIsToldLater
<1>10. CachedIsOnItsWay'
  <2> SUFFICES ASSUME feedbackActiveRuntime, s <= syncId, NEW i \in sentData
               PROVE  Told(i) \/ i \in ids \/ OnTheWay(i)'
    BY <1>3, <1>6 DEF CachedIsOnItsWay
  <2>1. display <= syncId /\ display # syncId BY <1>2, <1>3
  <2>2. i \in firstId .. (MaxImages - 1)
    <3>1. i \in Ids BY <1>1 DEF TypeOK, MachineTypeOK
    <3>2. i \in firstId .. (sendImageActionId - 1) BY DEF IInv, FrameIsWhole
    <3> QED BY <1>2, <3>1, <3>2 DEF Ids
  <2>3. ~Noted(i) /\ i \notin pending BY <2>1, <2>2 DEF IInv, ToldIsDecoded
  <2> QED BY <2>1, <2>3 DEF IInv, CachedIsOnItsWay
<1>11. AheadIsEmpty' BY <1>2, <1>3, <1>6 DEF AheadIsEmpty
<1>12. ToldIsDecoded'
  <2> SUFFICES ASSUME NEW i \in firstId .. (MaxImages - 1)
               PROVE  (s <= syncId => ~Told(i)) /\ (i \in ids => s = syncId)
    BY <1>3, <1>6 DEF ToldIsDecoded
  <2>1. s <= syncId => display <= syncId /\ display # syncId BY <1>2, <1>3
  <2>2. s <= syncId => ~Told(i) BY <2>1 DEF IInv, ToldIsDecoded
  <2>3. i \in ids => s = syncId BY <1>2
  <2> QED BY <2>2, <2>3
<1>13. NeverAhead'
  <2> SUFFICES ASSUME feedbackActiveRuntime, s <= syncId PROVE decodedFb \subseteq evicted
    BY <1>3 DEF NeverAhead
  <2>1. display <= syncId /\ display # syncId BY <1>2, <1>3
  <2> QED BY <2>1 DEF IInv, NeverAhead
<1>14. OneStartPerFrame' /\ FeedbackOfOneFrame' BY <1>3 DEF IInv, OneStartPerFrame, FeedbackOfOneFrame
<1> QED BY <1>5, <1>6, <1>7, <1>8, <1>9, <1>10, <1>11, <1>12, <1>13, <1>14 DEF IInv

LEMMA OtherKeepsIInv == IInv /\ OtherMachine => IInv'
<1> SUFFICES ASSUME IInv, OtherMachine PROVE IInv' OBVIOUS
<1>1. PICK s \in SyncIds : NewFrame(s, {}) BY DEF OtherMachine
<1>2. UNCHANGED <<machineVars, toMcrt, toMerge>> BY DEF OtherMachine
<1>3. toMerge' \in Seq([id : Ids, syncId : SyncIds]) BY <1>2 DEF IInv, TypeOK
<1>4. ImagesInOrder'
  BY <1>2 DEF IInv, ImagesInOrder, machineVars, frame
<1> DEFINE ids == {}
<1>5. \A i : OnTheWay(i) <=> i \in ids \/ OnTheWay(i)' BY <1>2, OnTheWayKept
<1>6. ids \in SUBSET Ids /\ NewFrame(s, ids) /\ \A i : i \notin ids BY <1>1
<1> HIDE DEF ids
<1> QED BY <1>2, <1>3, <1>4, <1>5, <1>6, NewFrameKeepsIInv

LEMMA MergeReceivesKeepsIInv == IInv /\ MergeReceives => IInv'
<1> SUFFICES ASSUME IInv, MergeReceives PROVE IInv' OBVIOUS
<1> USE DEF machineVars, frame, cache, evaluation, mergeFrame, mergeFeedback
<1> DEFINE msg == toMerge[1]
           n == Len(toMerge)
<1>1. TypeOK BY DEF IInv
<1>2. toMerge \in Seq([id : Ids, syncId : SyncIds]) /\ toMerge # <<>> BY <1>1 DEF TypeOK, MergeReceives
<1>3. /\ toMerge' = Tail(toMerge) /\ n \in Nat /\ n >= 1 /\ Len(toMerge') = n - 1
      /\ toMerge' \in Seq([id : Ids, syncId : SyncIds])
      /\ Head(toMerge) = msg /\ msg.id \in Ids /\ msg.syncId \in SyncIds
      /\ \A k \in 1 .. n - 1 : toMerge'[k] = toMerge[k + 1] /\ k + 1 \in 1 .. n
      /\ \A k \in 1 .. n : k # 1 => k - 1 \in 1 .. n - 1 /\ toMerge[k] = toMerge'[k - 1]
      /\ UNCHANGED <<machineVars, toMcrt>>
  <2>1. toMerge' = Tail(toMerge) /\ UNCHANGED <<machineVars, toMcrt>> BY DEF MergeReceives
  <2>2. n \in Nat /\ n >= 1 BY <1>2
  <2> DEFINE R == [id : Ids, syncId : SyncIds]
  <2>3. toMerge \in Seq(R) BY <1>2
  <2>4. msg \in R /\ Head(toMerge) = msg
    <3> HIDE DEF R
    <3> QED BY <1>2, <2>3, TailFacts
  <2>5. /\ Tail(toMerge) \in Seq(R) /\ Len(Tail(toMerge)) = n - 1
        /\ \A k \in 1 .. n - 1 : Tail(toMerge)[k] = toMerge[k + 1] /\ k + 1 \in 1 .. n
        /\ \A k \in 1 .. n : k # 1 => k - 1 \in 1 .. n - 1 /\ toMerge[k] = Tail(toMerge)[k - 1]
    <3> HIDE DEF R
    <3> QED BY <1>2, <2>3, TailFacts
  <2> QED BY <2>1, <2>2, <2>4, <2>5
<1>4. /\ syncId \in Int /\ display \in Int /\ newest \in Int /\ sendImageActionId \in Nat /\ firstId \in Nat
      /\ Ids \subseteq Nat /\ msg.syncId \in Int
  BY <1>1, <1>3, Numbers, SyncIdFacts
<1>5. \/ NewFrame(msg.syncId, {msg.id})
      \/ /\ msg.syncId = display
         /\ pending' = pending \cup {msg.id}
         /\ UNCHANGED <<display, frameFeedbackActive, decoded, merged, tracker, mergeFeedback>>
      \/ /\ msg.syncId < display
         /\ UNCHANGED <<mergeFrame, mergeFeedback>>
  BY <1>3 DEF MergeReceives
<1>6. ImagesInOrder'
  <2> SUFFICES ASSUME NEW k \in 1 .. n - 1
               PROVE  /\ toMerge'[k].id < sendImageActionId /\ toMerge'[k].syncId <= newest
                      /\ firstId <= toMerge'[k].id => toMerge'[k].syncId = syncId
                      /\ \A l \in 1 .. n - 1 : k < l => toMerge'[k].id < toMerge'[l].id
    BY <1>3 DEF ImagesInOrder
  <2>1. k + 1 \in 1 .. n /\ toMerge'[k] = toMerge[k + 1] BY <1>3
  <2>2. ASSUME NEW l \in 1 .. n - 1, k < l PROVE toMerge'[k].id < toMerge'[l].id
    <3>1. l + 1 \in 1 .. n /\ toMerge'[l] = toMerge[l + 1] /\ k + 1 < l + 1 BY <1>3, <2>2
    <3> QED BY <2>1, <3>1 DEF IInv, ImagesInOrder
  <2> QED BY <2>1, <2>2 DEF IInv, ImagesInOrder
<1>7. \A i : OnTheWay(i) <=> i = msg.id \/ OnTheWay(i)'
  <2> TAKE i
  <2>1. ASSUME OnTheWay(i) PROVE i = msg.id \/ OnTheWay(i)'
    <3>1. PICK k \in 1 .. n : toMerge[k].id = i BY <2>1 DEF OnTheWay
    <3>2. CASE k = 1 BY <3>1, <3>2
    <3>3. CASE k # 1
      <4>1. k - 1 \in 1 .. Len(toMerge') /\ toMerge'[k - 1].id = i BY <1>3, <3>1, <3>3
      <4> QED BY <4>1 DEF OnTheWay
    <3> QED BY <3>2, <3>3
  <2>2. OnTheWay(i)' => OnTheWay(i) BY <1>3 DEF OnTheWay
  <2>3. i = msg.id => OnTheWay(i)
    <3>1. 1 \in 1 .. n BY <1>3
    <3> QED BY <3>1 DEF OnTheWay
  <2> QED BY <2>1, <2>2, <2>3
<1>8. /\ msg.id < sendImageActionId /\ msg.syncId <= newest /\ (firstId <= msg.id => msg.syncId = syncId)
      /\ \A j \in Ids : OnTheWay(j)' => msg.id < j
  <2>1. 1 \in 1 .. n BY <1>3
  <2>2. ASSUME NEW j \in Ids, OnTheWay(j)' PROVE msg.id < j
    <3>1. PICK k \in 1 .. n - 1 : toMerge'[k].id = j BY <1>3, <2>2 DEF OnTheWay
    <3>2. k + 1 \in 1 .. n /\ toMerge[k + 1].id = j /\ 1 < k + 1 BY <1>3, <3>1
    <3> QED BY <2>1, <3>2 DEF IInv, ImagesInOrder
  <2> QED BY <2>1, <2>2 DEF IInv, ImagesInOrder
<1> HIDE DEF msg, n
<1>9. CASE NewFrame(msg.syncId, {msg.id})
  <2> DEFINE ids == {msg.id}
  <2>1. /\ ids \in SUBSET Ids /\ NewFrame(msg.syncId, ids) /\ \A i : OnTheWay(i) <=> i \in ids \/ OnTheWay(i)'
        /\ \A i \in ids : /\ i < sendImageActionId /\ msg.syncId <= newest /\ (firstId <= i => msg.syncId = syncId)
                          /\ \A j \in Ids : OnTheWay(j)' => i < j
    BY <1>3, <1>7, <1>8, <1>9
  <2> HIDE DEF ids
  <2> QED BY <1>3, <1>6, <2>1, NewFrameKeepsIInv
<1>10. ASSUME /\ pending' \in SUBSET Ids
              /\ UNCHANGED <<display, frameFeedbackActive, decoded, merged, tracker, mergeFeedback>>,
              PassedInOrder', CachedIsOnItsWay', AheadIsEmpty', ToldIsDecoded'
       PROVE  IInv'
  <2>1. TypeOK' BY <1>1, <1>3, <1>10 DEF TypeOK, MachineTypeOK
  <2>2. /\ \A i : Told(i)' <=> Told(i)
        /\ ToldInOrder' /\ NotedInOrder'
    BY <1>3, <1>10, ToldKept, NotedKept DEF IInv
  <2>3. SendingFollows' /\ FrameIsWhole' /\ StartedIsFirst' /\ NeverAhead'
    BY <1>3, <1>10 DEF IInv, SendingFollows, FrameIsWhole, StartedIsFirst, NeverAhead
  <2>4. CachedIsToldLater' BY <1>3, <2>2 DEF IInv, CachedIsToldLater
  <2>5. OneStartPerFrame' /\ FeedbackOfOneFrame' BY <1>3, <1>10 DEF IInv, OneStartPerFrame, FeedbackOfOneFrame
  <2> QED BY <1>6, <1>10, <2>1, <2>2, <2>3, <2>4, <2>5 DEF IInv
<1>11. CASE /\ msg.syncId = display
            /\ pending' = pending \cup {msg.id}
            /\ UNCHANGED <<display, frameFeedbackActive, decoded, merged, tracker, mergeFeedback>>
  <2>1. \A i : (Told(i)' <=> Told(i)) /\ (Noted(i)' <=> Noted(i)) BY <1>3, <1>11, ToldKept, NotedKept
  <2>2. pending' \in SUBSET Ids BY <1>1, <1>3, <1>11 DEF TypeOK
  <2>3. PassedInOrder'
    <3> SUFFICES ASSUME NEW i \in Ids
                 PROVE  /\ Told(i) \/ Noted(i) \/ i \in pending \/ i = msg.id =>
                             i < sendImageActionId /\ \A j \in Ids : OnTheWay(j)' => i < j
                        /\ Told(i) \/ Noted(i) => \A j \in pending \cup {msg.id} : i < j
                        /\ Told(i) => \A j \in Ids : Noted(j) => i < j
      BY <1>3, <1>11, <2>1 DEF PassedInOrder
    <3> QED BY <1>3, <1>7, <1>8 DEF IInv, PassedInOrder
  <2>4. CachedIsOnItsWay' BY <1>3, <1>7, <1>11, <2>1 DEF IInv, CachedIsOnItsWay
  <2>5. AheadIsEmpty' BY <1>3, <1>4, <1>8, <1>11 DEF AheadIsEmpty
  <2>6. ToldIsDecoded'
    <3> SUFFICES ASSUME NEW i \in firstId .. (MaxImages - 1)
                 PROVE  /\ Noted(i) \/ i \in pending \/ i = msg.id => display = syncId
                        /\ display <= syncId /\ (Told(i) \/ Noted(i)) => display = syncId /\ i \in decoded
      BY <1>3, <1>11, <2>1 DEF ToldIsDecoded
    <3>1. i = msg.id => display = syncId BY <1>4, <1>8, <1>11
    <3> QED BY <3>1 DEF IInv, ToldIsDecoded
  <2> QED BY <1>10, <1>11, <2>2, <2>3, <2>4, <2>5, <2>6
<1>12. CASE msg.syncId < display /\ UNCHANGED <<mergeFrame, mergeFeedback>>
  <2>1. \A i : (Told(i)' <=> Told(i)) /\ (Noted(i)' <=> Noted(i)) BY <1>3, <1>12, ToldKept, NotedKept
  <2>2. pending' \in SUBSET Ids BY <1>1, <1>12 DEF TypeOK
  <2>3. PassedInOrder' BY <1>3, <1>7, <1>12, <2>1 DEF IInv, PassedInOrder
  <2>4. CachedIsOnItsWay'
    <3> SUFFICES ASSUME feedbackActiveRuntime, display <= syncId, NEW i \in sentData
                 PROVE  Told(i) \/ Noted(i) \/ i \in pending \/ OnTheWay(i)'
      BY <1>3, <1>12, <2>1 DEF CachedIsOnItsWay
    <3>1. ~(firstId <= msg.id) BY <1>4, <1>8, <1>12
    <3>2. i \in firstId .. (sendImageActionId - 1) BY DEF IInv, FrameIsWhole
    <3>3. i # msg.id BY <1>3, <1>4, <3>1, <3>2
    <3> QED BY <1>7, <3>3 DEF IInv, CachedIsOnItsWay
  <2>5. AheadIsEmpty' /\ ToldIsDecoded' BY <1>3, <1>12, <2>1 DEF IInv, AheadIsEmpty, ToldIsDecoded
  <2> QED BY <1>10, <1>12, <2>2, <2>3, <2>4, <2>5
<1> QED BY <1>5, <1>9, <1>11, <1>12

(* A send of the merge appends to the tracker, or to feedback, what it decodes now. *)
LEMMA RecordsKeepsIInv ==
  ASSUME IInv, Ready, display \in SyncIds, NEW L \in Seq(Actions), InOrder(L), FeedbackIfDue(L),
         \A i : Named(i, L) <=> Noted(i) \/ i \in pending,
         decoded' = decoded \cup pending, pending' = {}, merged' \in [AllTiles -> SUBSET Ids],
         UNCHANGED <<machineVars, toMerge, display, frameFeedbackActive>>
  PROVE  IInv'
<1> USE DEF machineVars, frame, cache, evaluation, mergeFeedback
<1> DEFINE n == Len(toMcrt)
           m == [syncId |-> display, isStarted |-> feedbackIsStarted, actions |-> L, merged |-> merged']
<1>1. TypeOK BY DEF IInv
<1>2. /\ syncId \in Int /\ display \in Int /\ sendImageActionId \in Nat /\ firstId \in Nat /\ Ids \subseteq Nat
      /\ \A i : OnTheWay(i) => i \in Ids
  BY <1>1, Numbers
<1>3. \/ /\ toMcrt' = Append(toMcrt, m) /\ tracker' = <<>>
         /\ feedbackInitialized' = FALSE /\ lastSentFeedbackSyncId' = display
      \/ /\ toMcrt' = toMcrt /\ tracker' = L
         /\ UNCHANGED mergeFeedback
  BY DEF FeedbackIfDue, processFeedback
<1>4. m \in Messages
  <2>1. feedbackIsStarted \in BOOLEAN BY <1>1 DEF feedbackIsStarted, TypeOK
  <2> QED BY <2>1 DEF Messages
<1>5. m.actions = L /\ m.syncId = display /\ m.isStarted = feedbackIsStarted OBVIOUS
<1> HIDE DEF m
<1>6. TypeOK'
  <2>0. toMcrt \in Seq(Messages) BY <1>1 DEF TypeOK
  <2>1. toMcrt' \in Seq(Messages)
    <3>1. Append(toMcrt, m) \in Seq(Messages) BY <1>4, <2>0, AppendFacts
    <3> QED BY <1>3, <2>0, <3>1
  <2>2. tracker' \in Seq(Actions)
    <3>1. tracker' = <<>> \/ tracker' = L BY <1>3
    <3>2. <<>> \in Seq(Actions) OBVIOUS
    <3>3. CASE tracker' = <<>> BY <3>2, <3>3
    <3>4. CASE tracker' = L BY <3>4
    <3> QED BY <3>1, <3>3, <3>4
  <2>3. feedbackInitialized' \in BOOLEAN /\ lastSentFeedbackSyncId' \in Nat BY <1>1, <1>3 DEF TypeOK
  <2>4. decoded' \subseteq Ids /\ pending' \subseteq Ids BY <1>1 DEF TypeOK
  <2> QED BY <1>1, <2>1, <2>2, <2>3, <2>4 DEF TypeOK, MachineTypeOK
<1>7. /\ n \in Nat
      /\ toMcrt' = Append(toMcrt, m) =>
           /\ Len(toMcrt') = n + 1 /\ toMcrt'[n + 1] = m
           /\ \A k \in 1 .. n : toMcrt'[k] = toMcrt[k]
  <2>1. toMcrt \in Seq(Messages) BY <1>1 DEF TypeOK
  <2> QED BY <1>4, <2>1, AppendFacts
<1>8. \/ \A i : (Told(i)' <=> Told(i)) /\ (Noted(i)' <=> Noted(i) \/ i \in pending)
      \/ \A i : (Told(i)' <=> Told(i) \/ Noted(i) \/ i \in pending) /\ ~Noted(i)'
  <2>1. CASE toMcrt' = toMcrt /\ tracker' = L BY <2>1, ToldKept DEF Noted, Named
  <2>2. CASE toMcrt' = Append(toMcrt, m) /\ tracker' = <<>>
    <3>1. \A i : ~Noted(i)' BY <2>2 DEF Noted, Named
    <3>2. ASSUME NEW i, Told(i)' PROVE Told(i) \/ Named(i, L)
      <4>1. CASE Named(i, message.actions) BY <4>1 DEF Told
      <4>2. ASSUME NEW k \in 1 .. n + 1, Named(i, toMcrt'[k].actions) PROVE Told(i) \/ Named(i, L)
        <5>1. CASE k = n + 1 BY <1>5, <1>7, <2>2, <4>2, <5>1
        <5>2. CASE k \in 1 .. n BY <1>7, <2>2, <4>2, <5>2 DEF Told
        <5> QED BY <1>7, <5>1, <5>2
      <4> QED BY <1>7, <2>2, <3>2, <4>1, <4>2 DEF Told, Named
    <3>3. ASSUME NEW i, Told(i) PROVE Told(i)' BY <1>7, <2>2, <3>3 DEF Told, Named
    <3>4. ASSUME NEW i, Named(i, L) PROVE Told(i)'
      <4>1. n + 1 \in 1 .. Len(toMcrt') /\ Named(i, toMcrt'[n + 1].actions) BY <1>5, <1>7, <2>2, <3>4
      <4> QED BY <4>1 DEF Told, Named
    <3> QED BY <3>1, <3>2, <3>3, <3>4
  <2> QED BY <1>3, <2>1, <2>2
<1>9. NotedInOrder' BY <1>3 DEF NotedInOrder, InOrder
<1>10. ToldInOrder'
  <2>1. CASE toMcrt' = toMcrt BY <2>1, ToldKept DEF IInv
  <2>2. CASE toMcrt' = Append(toMcrt, m)
    <3>1. InOrder(message.actions)' BY DEF IInv, ToldInOrder, InOrder
    <3>2. ASSUME NEW k \in 1 .. n + 1
          PROVE  /\ InOrder(toMcrt'[k].actions)
                 /\ \A i, j \in Ids : Named(j, toMcrt'[k].actions) =>
                      /\ Named(i, message.actions) => i < j
                      /\ \A l \in 1 .. k - 1 : Named(i, toMcrt'[l].actions) => i < j
      <4>1. CASE k \in 1 .. n
        <5>1. \A l \in 1 .. k - 1 : toMcrt'[l] = toMcrt[l] BY <1>7, <2>2, <4>1
        <5>2. toMcrt'[k] = toMcrt[k] BY <1>7, <2>2, <4>1
        <5> QED BY <4>1, <5>1, <5>2 DEF IInv, ToldInOrder
      <4>2. CASE k = n + 1
        <5>1. toMcrt'[k].actions = L BY <1>5, <1>7, <2>2, <4>2
        <5>2. ASSUME NEW i \in Ids, NEW j \in Ids, Named(j, L), Told(i) PROVE i < j
          BY <5>2 DEF IInv, PassedInOrder
        <5>3. ASSUME NEW i, NEW l \in 1 .. k - 1, Named(i, toMcrt'[l].actions) PROVE Told(i)
          <6>1. l \in 1 .. n BY <1>7, <4>2
          <6> QED BY <1>7, <2>2, <5>3, <6>1 DEF Told
        <5>4. \A i : Named(i, message.actions) => Told(i) BY DEF Told
        <5> QED BY <5>1, <5>2, <5>3, <5>4
      <4> QED BY <1>7, <4>1, <4>2
    <3> QED BY <1>7, <2>2, <3>1, <3>2 DEF ToldInOrder, InOrder, Named
  <2> QED BY <1>3, <2>1, <2>2
<1>11. \A i : OnTheWay(i)' <=> OnTheWay(i) BY OnTheWayKept
<1>12. SendingFollows' /\ FrameIsWhole' /\ StartedIsFirst' /\ ImagesInOrder' /\ FeedbackOfOneFrame'
  BY DEF IInv, SendingFollows, FrameIsWhole, StartedIsFirst, ImagesInOrder, FeedbackOfOneFrame, Ready
<1>13. PassedInOrder'
  <2> SUFFICES ASSUME NEW i \in Ids
               PROVE  /\ Told(i)' \/ Noted(i)' => i < sendImageActionId /\ \A j \in Ids : OnTheWay(j) => i < j
                      /\ Told(i)' => \A j \in Ids : Noted(j)' => i < j
    BY <1>11 DEF PassedInOrder
  <2> QED BY <1>8 DEF IInv, PassedInOrder
<1>14. AheadIsEmpty'
  <2> SUFFICES ASSUME display > newest PROVE decoded' = {} /\ \A i \in Ids : ~Noted(i)'
    BY DEF AheadIsEmpty
  <2>1. pending = {} /\ decoded = {} /\ \A i \in Ids : ~Noted(i) BY DEF IInv, AheadIsEmpty
  <2> QED BY <1>8, <2>1
<1>15. CachedIsOnItsWay' BY <1>8, <1>11 DEF IInv, CachedIsOnItsWay
<1>16. CachedIsToldLater'
  <2> SUFFICES ASSUME feedbackActiveRuntime, NEW i \in sentData, NEW j \in Ids, Told(j)', i < j PROVE Told(i)'
    BY DEF CachedIsToldLater
  <2>0. i \in Ids BY <1>1 DEF TypeOK, MachineTypeOK
  <2>1. CASE Told(j) BY <1>8, <2>1 DEF IInv, CachedIsToldLater
  <2>2. CASE ~Told(j)
    <3>1. /\ Noted(j) \/ j \in pending
          /\ Told(i)' <=> Told(i) \/ Noted(i) \/ i \in pending
      BY <1>8, <2>2
    <3>2. display <= syncId
      <4>1. i \in firstId .. (sendImageActionId - 1) BY DEF IInv, FrameIsWhole
      <4>2. j \in firstId .. (MaxImages - 1) BY <1>2, <2>0, <4>1 DEF Ids
      <4> QED BY <1>2, <3>1, <4>2 DEF IInv, ToldIsDecoded
    <3>3. Told(i) \/ Noted(i) \/ i \in pending \/ OnTheWay(i) BY <3>2 DEF IInv, CachedIsOnItsWay
    <3>4. OnTheWay(i) => j < i BY <2>0, <3>1 DEF IInv, PassedInOrder
    <3>5. ~(j < i) BY <1>2, <2>0
    <3> QED BY <3>1, <3>3, <3>4, <3>5
  <2> QED BY <2>1, <2>2
<1>17. ToldIsDecoded'
  <2> SUFFICES ASSUME NEW i \in firstId .. (MaxImages - 1)
               PROVE  /\ Noted(i)' => display = syncId
                      /\ display <= syncId /\ (Told(i)' \/ Noted(i)') => display = syncId /\ i \in decoded \cup pending
    BY DEF ToldIsDecoded
  <2> QED BY <1>8 DEF IInv, ToldIsDecoded
<1>18. NeverAhead' BY DEF IInv, NeverAhead
<1>19. OneStartPerFrame'
  <2>1. CASE toMcrt' = toMcrt /\ UNCHANGED mergeFeedback BY <2>1 DEF IInv, OneStartPerFrame
  <2>2. CASE toMcrt' = Append(toMcrt, m) /\ lastSentFeedbackSyncId' = display
    <3>1. ASSUME NEW k \in 1 .. n + 1, ~toMcrt'[k].isStarted
          PROVE  IF k = 1 THEN feedbackFb = {toMcrt'[1].syncId} ELSE toMcrt'[k - 1].syncId = toMcrt'[k].syncId
      <4>1. CASE k \in 1 .. n
        <5>1. k # 1 => toMcrt'[k - 1] = toMcrt[k - 1] BY <1>7, <2>2, <4>1
        <5>2. toMcrt'[k] = toMcrt[k] BY <1>7, <2>2, <4>1
        <5> QED BY <3>1, <4>1, <5>1, <5>2 DEF IInv, OneStartPerFrame
      <4>2. CASE k = n + 1
        <5>1. ~feedbackInitialized /\ lastSentFeedbackSyncId = display
          BY <1>5, <1>7, <2>2, <3>1, <4>2 DEF feedbackIsStarted
        <5>2. toMcrt'[k].syncId = display BY <1>5, <1>7, <2>2, <4>2
        <5>3. CASE n = 0
          <6>1. toMcrt = <<>> BY <1>1, <5>3 DEF TypeOK
          <6>2. feedbackFb = {lastSentFeedbackSyncId} BY <5>1, <6>1 DEF IInv, OneStartPerFrame
          <6> QED BY <4>2, <5>1, <5>2, <5>3, <6>2
        <5>4. CASE n # 0
          <6>1. toMcrt # <<>> /\ n \in 1 .. n BY <1>7, <5>4
          <6>2. toMcrt[n].syncId = display BY <5>1, <6>1 DEF IInv, OneStartPerFrame
          <6>3. toMcrt'[n] = toMcrt[n] BY <1>7, <2>2, <6>1
          <6> QED BY <1>7, <4>2, <5>2, <5>4, <6>2, <6>3
        <5> QED BY <5>3, <5>4
      <4> QED BY <1>7, <4>1, <4>2
    <3>2. toMcrt'[Len(toMcrt')].syncId = display /\ toMcrt' # <<>> BY <1>5, <1>7, <2>2
    <3> QED BY <1>7, <2>2, <3>1, <3>2 DEF OneStartPerFrame
  <2> QED BY <1>3, <2>1, <2>2
<1> QED BY <1>6, <1>9, <1>10, <1>12, <1>13, <1>14, <1>15, <1>16, <1>17, <1>18, <1>19 DEF IInv

LEMMA MergeSendsKeepsIInv == IInv /\ MergeSends => IInv'
<1> SUFFICES ASSUME IInv, MergeSends PROVE IInv' OBVIOUS
<1>1. TypeOK BY DEF IInv
<1>2. /\ Ready /\ frameFeedbackActive
      /\ decoded' = decoded \cup pending /\ pending' = {}
      /\ UNCHANGED <<machineVars, toMerge, display, frameFeedbackActive>>
  BY DEF MergeSends
<1>3. display \in SyncIds BY <1>1, <1>2 DEF IInv, SendingFollows, TypeOK
<1>4. decoded' \subseteq Ids BY <1>1, <1>2 DEF TypeOK
<1>5. PICK first \in Tiles(NumTile[display]), last \in Tiles(NumTile[display]), op \in MergeOps :
        /\ merged' = [t \in AllTiles |-> IF t \in first .. last THEN decoded' ELSE merged[t]]
        /\ \/ FeedbackIfDue(tracker \o Decodes \o Merges(op, first .. last))
           \/ decoded' = {} /\ FeedbackIfDue(tracker)
  BY DEF MergeSends
<1>6. merged' \in [AllTiles -> SUBSET Ids] BY <1>1, <1>4, <1>5 DEF TypeOK
<1>7. tracker \in Seq(Actions) /\ InOrder(tracker) /\ \A i : Named(i, tracker) <=> Noted(i)
  BY <1>1 DEF TypeOK, IInv, NotedInOrder, Noted
<1>8. CASE decoded' = {} /\ FeedbackIfDue(tracker)
  <2>1. pending = {} BY <1>2, <1>8
  <2> QED BY <1>2, <1>3, <1>6, <1>7, <1>8, <2>1, RecordsKeepsIInv
<1>9. CASE FeedbackIfDue(tracker \o Decodes \o Merges(op, first .. last))
  <2> DEFINE L == tracker \o Decodes \o Merges(op, first .. last)
             M == Merges(op, first .. last)
             decode == [op |-> IF Cardinality(pending) = 1 THEN "DECODE_SINGLE" ELSE "DECODE_RANGE",
                        ids |-> pending, tiles |-> {}]
             merge == [op |-> op, ids |-> {}, tiles |-> IF op = "MERGE_ALL_TILES" THEN {} ELSE first .. last]
  <2>1. decode \in Actions /\ decode.ids = pending
    <3>1. pending \in SUBSET Ids BY <1>1 DEF TypeOK
    <3>2. decode.op \in DecodeOps BY DEF DecodeOps
    <3> QED BY <3>1, <3>2 DEF Actions
  <2>2. Decodes = (IF pending = {} THEN <<>> ELSE <<decode>>) BY DEF Decodes
  <2> HIDE DEF decode
  <2>3. Decodes \in Seq(Actions) /\ InOrder(Decodes) /\ \A i : Named(i, Decodes) <=> i \in pending
    BY <2>1, <2>2 DEF InOrder, Named
  <2>4. merge \in Actions /\ merge.ids = {}
    <3>1. first .. last \subseteq Nat BY <1>3, <1>5 DEF Tiles
    <3>2. merge.tiles \in SUBSET Nat /\ merge.op \in MergeOps /\ merge.ids \in {{}} BY <3>1
    <3> QED BY <3>2 DEF Actions
  <2>5. M = <<merge>> BY DEF Merges
  <2> HIDE DEF merge, M
  <2>6. M \in Seq(Actions) /\ InOrder(M) /\ \A i : ~Named(i, M) BY <2>4, <2>5 DEF InOrder, Named
  <2>7. /\ tracker \o Decodes \in Seq(Actions)
        /\ \A i : Named(i, tracker \o Decodes) <=> Noted(i) \/ i \in pending
        /\ InOrder(tracker \o Decodes)
    <3>1. \A i, j \in Ids : Named(i, tracker) /\ Named(j, Decodes) => i < j
      BY <1>7, <2>3 DEF IInv, PassedInOrder
    <3>2. tracker \o Decodes \in Seq(Actions) BY <1>7, <2>3
    <3> QED BY <1>7, <2>3, <3>1, <3>2, NamedConcat
  <2> DEFINE B == tracker \o Decodes
  <2>8. L = B \o M BY DEF M
  <2>9. B \in Seq(Actions) /\ InOrder(B) /\ \A i : Named(i, B) <=> Noted(i) \/ i \in pending BY <2>7
  <2> HIDE DEF L, B
  <2>10. L \in Seq(Actions) /\ InOrder(L) /\ \A i : Named(i, L) <=> Noted(i) \/ i \in pending
    <3>1. \A i, j \in Ids : Named(i, B) /\ Named(j, M) => i < j BY <2>6
    <3>2. B \o M \in Seq(Actions) BY <2>6, <2>9
    <3> QED BY <2>6, <2>8, <2>9, <3>1, <3>2, NamedConcat
  <2>11. FeedbackIfDue(L) BY <1>9 DEF L
  <2> QED BY <1>2, <1>3, <1>6, <2>10, <2>11, RecordsKeepsIInv
<1> QED BY <1>5, <1>8, <1>9

(***************************************************************************)
(* The invariant and what follows from it.                                 *)
(***************************************************************************)

LEMMA StutterKeepsIInv == IInv /\ UNCHANGED vars => IInv'
<1> SUFFICES ASSUME IInv, UNCHANGED vars PROVE IInv' OBVIOUS
<1> USE DEF vars, machineVars, mergeVars, mergeFrame, mergeFeedback, frame, cache, evaluation
<1>1. TypeOK' BY DEF IInv, TypeOK, MachineTypeOK
<1>2. /\ \A i : (Told(i)' <=> Told(i)) /\ (Noted(i)' <=> Noted(i)) /\ (OnTheWay(i)' <=> OnTheWay(i))
      /\ ToldInOrder' /\ NotedInOrder'
  BY ToldKept, NotedKept, OnTheWayKept DEF IInv
<1>3. FeedbackOfOneFrame' /\ OneStartPerFrame' BY DEF IInv, FeedbackOfOneFrame, OneStartPerFrame
<1> QED BY <1>1, <1>2, <1>3, IdsUntouched

(* IInv is an invariant: the ids pass the session in their order, and the cache knows
   about each of the frame what the merge will yet tell. *)
THEOREM Invariance == Spec => []IInv
<1>1. IInv /\ [Next]_vars => IInv'
  BY StartsKeepsIInv, SendsKeepsIInv, ReceivesKeepsIInv, EvaluatesKeepsIInv, OtherKeepsIInv,
     MergeReceivesKeepsIInv, MergeSendsKeepsIInv, StutterKeepsIInv
  DEF Next
<1> QED BY InitIInv, <1>1, PTL DEF Spec

(* No image of the frame is lost for the minus-one image: each is in the cache or was
   decoded, however the merge skips, groups and delays what it tells. *)
THEOREM NothingIsPassedOver == Spec => []FrameIsWhole
<1>1. IInv => FrameIsWhole BY DEF IInv
<1> QED BY Invariance, <1>1, PTL

(* The machine never decodes more of its frame than the merge has. *)
THEOREM FollowsTheMerge == Spec => []NeverAhead
<1>1. IInv => NeverAhead BY DEF IInv
<1> QED BY Invariance, <1>1, PTL

(* When feedback is evaluated mFeedbackFb holds one frame only. *)
THEOREM FeedbackIsPure == Spec => []FeedbackOfOneFrame
<1>1. IInv => FeedbackOfOneFrame BY DEF IInv
<1> QED BY Invariance, <1>1, PTL

(***************************************************************************)
(* The replay of a sequence of actions, and of a sequence of feedback.     *)
(***************************************************************************)

(* Without actions a tile stays as it is. *)
LEMMA GivesNothing ==
  ASSUME NEW n, NEW D, NEW v, NEW t, NEW r
  PROVE  Gives(<<>>, n, D, v, t, r) <=> r = v
BY DEF Gives

(* The ids a sequence of actions names up to some point. *)
NamedIn(A, p) == {i \in Ids : \E q \in 1 .. p : i \in A[q].ids}

(* The first action done, the others replay on what it has left. *)
LEMMA GivesTail ==
  ASSUME NEW A \in Seq(Actions), A # <<>>, NEW n, NEW D, NEW v, NEW t, NEW r,
         Gives(A, n, D, v, t, r)
  PROVE  Gives(Tail(A), n, D \cup Head(A).ids, IF Covers(Head(A), n, t) THEN D \cup Head(A).ids ELSE v, t, r)
<1> DEFINE B == Tail(A)
           E == D \cup Head(A).ids
<1>1. /\ B \in Seq(Actions) /\ Len(A) \in Nat /\ Len(A) >= 1 /\ Len(B) = Len(A) - 1 /\ Head(A) = A[1] /\ Head(A) \in Actions
      /\ \A k \in 1 .. Len(B) : B[k] = A[k + 1] /\ k + 1 \in 1 .. Len(A)
      /\ \A k \in 1 .. Len(A) : k # 1 => k - 1 \in 1 .. Len(B) /\ A[k] = B[k - 1]
  BY TailFacts
<1>2. Head(A).ids \subseteq Ids BY <1>1 DEF Actions
<1>3. 1 \in 1 .. Len(A) BY <1>1
<1> HIDE DEF B, E
<1>4. CASE r = v /\ \A p \in 1 .. Len(A) : ~Covers(A[p], n, t)
  <2>1. \A p \in 1 .. Len(B) : ~Covers(B[p], n, t) BY <1>1, <1>4
  <2>2. ~Covers(Head(A), n, t) BY <1>1, <1>3, <1>4
  <2> QED BY <1>4, <2>1, <2>2 DEF Gives, B
<1>5. ASSUME NEW p \in 1 .. Len(A), Covers(A[p], n, t), \A q \in p + 1 .. Len(A) : ~Covers(A[q], n, t),
             r = D \cup NamedIn(A, p)
      PROVE  Gives(B, n, E, IF Covers(Head(A), n, t) THEN E ELSE v, t, r)
  <2>1. CASE p = 1
    <3>1. \A q \in 1 .. Len(B) : ~Covers(B[q], n, t)
      <4> TAKE q \in 1 .. Len(B)
      <4>1. q + 1 \in p + 1 .. Len(A) BY <1>1, <2>1
      <4> QED BY <1>1, <1>5, <4>1
    <3>2. NamedIn(A, 1) = Head(A).ids BY <1>1, <1>2 DEF NamedIn
    <3>3. r = E BY <1>5, <2>1, <3>2 DEF E
    <3>4. Covers(Head(A), n, t) BY <1>1, <1>5, <2>1
    <3> QED BY <3>1, <3>3, <3>4 DEF Gives
  <2>2. CASE p # 1
    <3>1. p - 1 \in 1 .. Len(B) /\ B[p - 1] = A[p] /\ p \in Int BY <1>1, <2>2
    <3>2. \A q \in (p - 1) + 1 .. Len(B) : ~Covers(B[q], n, t)
      <4> TAKE q \in (p - 1) + 1 .. Len(B)
      <4>1. q \in 1 .. Len(B) /\ q + 1 \in p + 1 .. Len(A) BY <1>1, <3>1
      <4> QED BY <1>1, <1>5, <4>1
    <3>3. NamedIn(A, p) = Head(A).ids \cup NamedIn(B, p - 1)
      <4>1. ASSUME NEW i \in NamedIn(A, p) PROVE i \in Head(A).ids \cup NamedIn(B, p - 1)
        <5>1. PICK q \in 1 .. p : i \in A[q].ids BY DEF NamedIn
        <5>2. CASE q = 1 BY <1>1, <5>1, <5>2
        <5>3. CASE q # 1
          <6>1. q - 1 \in 1 .. p - 1 /\ q \in 1 .. Len(A) BY <1>1, <3>1, <5>3
          <6>2. i \in B[q - 1].ids BY <1>1, <5>1, <5>3, <6>1
          <6> QED BY <6>1, <6>2, <4>1 DEF NamedIn
        <5> QED BY <5>2, <5>3
      <4>2. ASSUME NEW i \in Head(A).ids PROVE i \in NamedIn(A, p)
        <5>1. 1 \in 1 .. p BY <3>1
        <5> QED BY <1>1, <1>2, <5>1 DEF NamedIn
      <4>3. ASSUME NEW i \in NamedIn(B, p - 1) PROVE i \in NamedIn(A, p)
        <5>1. PICK q \in 1 .. p - 1 : i \in B[q].ids BY DEF NamedIn
        <5>2. q \in 1 .. Len(B) /\ q + 1 \in 1 .. p BY <1>1, <3>1
        <5>3. i \in A[q + 1].ids BY <1>1, <5>1, <5>2
        <5> QED BY <4>3, <5>2, <5>3 DEF NamedIn
      <4> QED BY <4>1, <4>2, <4>3
    <3>4. r = E \cup NamedIn(B, p - 1) BY <1>5, <3>3 DEF E
    <3> QED BY <1>5, <3>1, <3>2, <3>4 DEF Gives, NamedIn
  <2> QED BY <2>1, <2>2
<1>6. \/ r = v /\ \A p \in 1 .. Len(A) : ~Covers(A[p], n, t)
      \/ \E p \in 1 .. Len(A) : /\ Covers(A[p], n, t) /\ \A q \in p + 1 .. Len(A) : ~Covers(A[q], n, t)
                                /\ r = D \cup NamedIn(A, p)
  BY DEF Gives, NamedIn
<1> QED BY <1>4, <1>5, <1>6 DEF B, E

(* One more action. *)
LEMMA GivesAppend ==
  ASSUME NEW A \in Seq(Actions), NEW a \in Actions, NEW n, NEW D, NEW v, NEW t, NEW r,
         Gives(A, n, D, v, t, r)
  PROVE  Gives(Append(A, a), n, D, v, t,
               IF Covers(a, n, t) THEN D \cup {i \in Ids : Named(i, A)} \cup a.ids ELSE r)
<1> DEFINE B == Append(A, a)
           m == Len(A)
<1>1. /\ B \in Seq(Actions) /\ m \in Nat /\ Len(B) = m + 1 /\ B[m + 1] = a
      /\ \A k \in 1 .. m : B[k] = A[k]
  BY AppendFacts
<1>2. a.ids \subseteq Ids BY DEF Actions
<1> HIDE DEF B, m
<1>3. CASE Covers(a, n, t)
  <2>1. m + 1 \in 1 .. Len(B) /\ Covers(B[m + 1], n, t) BY <1>1, <1>3
  <2>2. \A q \in (m + 1) + 1 .. Len(B) : ~Covers(B[q], n, t) BY <1>1
  <2>3. {i \in Ids : Named(i, A)} \cup a.ids = NamedIn(B, m + 1)
    <3>1. ASSUME NEW i \in NamedIn(B, m + 1) PROVE i \in {j \in Ids : Named(j, A)} \cup a.ids
      <4>1. PICK q \in 1 .. m + 1 : i \in B[q].ids BY DEF NamedIn
      <4>2. CASE q = m + 1 BY <1>1, <4>1, <4>2
      <4>3. CASE q \in 1 .. m BY <1>1, <3>1, <4>1, <4>3 DEF Named, NamedIn, m
      <4> QED BY <1>1, <4>2, <4>3
    <3>2. ASSUME NEW i \in Ids, Named(i, A) PROVE i \in NamedIn(B, m + 1)
      <4>1. PICK q \in 1 .. m : i \in A[q].ids BY <3>2 DEF Named, m
      <4>2. q \in 1 .. m + 1 /\ i \in B[q].ids BY <1>1, <4>1
      <4> QED BY <4>2 DEF NamedIn
    <3>3. ASSUME NEW i \in a.ids PROVE i \in NamedIn(B, m + 1)
      <4>1. m + 1 \in 1 .. m + 1 BY <1>1
      <4> QED BY <1>1, <1>2, <4>1 DEF NamedIn
    <3> QED BY <3>1, <3>2, <3>3
  <2>4. D \cup {i \in Ids : Named(i, A)} \cup a.ids = D \cup NamedIn(B, m + 1) BY <2>3
  <2> QED BY <1>3, <2>1, <2>2, <2>4 DEF Gives, NamedIn, B
<1>4. CASE ~Covers(a, n, t)
  <2>1. \A q \in 1 .. Len(B) : q \in 1 .. m \/ q = m + 1 BY <1>1
  <2>2. CASE r = v /\ \A p \in 1 .. m : ~Covers(A[p], n, t)
    <3>1. \A p \in 1 .. Len(B) : ~Covers(B[p], n, t) BY <1>1, <1>4, <2>1, <2>2
    <3> QED BY <1>4, <2>2, <3>1 DEF Gives, B
  <2>3. ASSUME NEW p \in 1 .. m, Covers(A[p], n, t), \A q \in p + 1 .. m : ~Covers(A[q], n, t),
               r = D \cup NamedIn(A, p)
        PROVE  Gives(B, n, D, v, t, r)
    <3>1. p \in 1 .. Len(B) /\ Covers(B[p], n, t) BY <1>1, <2>3
    <3>2. \A q \in p + 1 .. Len(B) : ~Covers(B[q], n, t)
      <4> TAKE q \in p + 1 .. Len(B)
      <4>0. p \in Int /\ p >= 1 /\ q \in Int /\ q >= p + 1 /\ q <= m + 1 BY <1>1
      <4>1. q = m + 1 \/ (q \in p + 1 .. m /\ q \in 1 .. m) BY <1>1, <4>0
      <4> QED BY <1>1, <1>4, <2>3, <4>1
    <3>3. \A q \in 1 .. p : B[q] = A[q] BY <1>1
    <3>4. NamedIn(B, p) = NamedIn(A, p) BY <3>3 DEF NamedIn
    <3>5. r = D \cup {i \in Ids : \E q \in 1 .. p : i \in B[q].ids} BY <2>3, <3>4 DEF NamedIn
    <3> QED BY <3>1, <3>2, <3>5 DEF Gives
  <2>4. \/ r = v /\ \A p \in 1 .. m : ~Covers(A[p], n, t)
        \/ \E p \in 1 .. m : /\ Covers(A[p], n, t) /\ \A q \in p + 1 .. m : ~Covers(A[q], n, t)
                             /\ r = D \cup NamedIn(A, p)
    BY DEF Gives, NamedIn, m
  <2> QED BY <1>4, <2>2, <2>3, <2>4 DEF B
<1> QED BY <1>3, <1>4 DEF B

(* A feedback is done: the rest replays on the tiles it gave. *)
LEMMA ReplaysTail ==
  ASSUME NEW W \in Seq(Feedbacks), W # <<>>, W[1].actions = <<>>, NEW s, NEW D, NEW M, NEW N,
         N = Shown(W[1], s) \/ \A k \in 1 .. Len(W) : k # 1 => W[k].syncId # s
  PROVE  /\ \A k \in 1 .. Len(W) : DecodedBefore(Tail(W), s, D, k) = DecodedBefore(W, s, D, k + 1)
         /\ Replays(W, s, D, M) => Replays(Tail(W), s, D, N)
<1> DEFINE V == Tail(W)
<1>1. /\ V \in Seq(Feedbacks) /\ Len(W) \in Nat /\ Len(W) >= 1 /\ Len(V) = Len(W) - 1
      /\ \A k \in 1 .. Len(V) : V[k] = W[k + 1] /\ k + 1 \in 1 .. Len(W)
      /\ \A k \in 1 .. Len(W) : k # 1 => k - 1 \in 1 .. Len(V) /\ W[k] = V[k - 1]
  BY TailFacts
<1> HIDE DEF V
<1>2. ASSUME NEW k \in 1 .. Len(W) PROVE DecodedBefore(V, s, D, k) = DecodedBefore(W, s, D, k + 1)
  <2>1. ASSUME NEW i, NEW l \in 1 .. k - 1, V[l].syncId = s, Named(i, V[l].actions)
        PROVE  \E p \in 1 .. (k + 1) - 1 : W[p].syncId = s /\ Named(i, W[p].actions)
    <3>1. l \in 1 .. Len(V) /\ l + 1 \in 1 .. (k + 1) - 1 BY <1>1
    <3>2. W[l + 1] = V[l] BY <1>1, <3>1
    <3> QED BY <2>1, <3>1, <3>2
  <2>2. ASSUME NEW i, NEW l \in 1 .. (k + 1) - 1, W[l].syncId = s, Named(i, W[l].actions)
        PROVE  \E p \in 1 .. k - 1 : V[p].syncId = s /\ Named(i, V[p].actions)
    <3>1. l # 1
      <4>1. ~Named(i, W[1].actions) BY DEF Named
      <4> QED BY <2>2, <4>1
    <3>2. l \in 1 .. Len(W) /\ l - 1 \in 1 .. k - 1 BY <1>1, <3>1
    <3>3. V[l - 1] = W[l] BY <1>1, <3>1, <3>2
    <3> QED BY <2>2, <3>2, <3>3
  <2> QED BY <2>1, <2>2 DEF DecodedBefore
<1>3. ASSUME Replays(W, s, D, M) PROVE Replays(V, s, D, N)
  <2> SUFFICES ASSUME NEW k \in 1 .. Len(V), V[k].syncId = s, NEW t \in AllTiles
               PROVE  Gives(V[k].actions, NumTile[s], DecodedBefore(V, s, D, k), ShownBefore(V, s, N, k)[t], t, V[k].merged[t])
    BY DEF Replays
  <2>1. k + 1 \in 1 .. Len(W) /\ W[k + 1] = V[k] /\ k \in 1 .. Len(W) /\ k + 1 # 1 /\ (k + 1) - 1 = k /\ k \in Int BY <1>1
  <2>2. Gives(W[k + 1].actions, NumTile[s], DecodedBefore(W, s, D, k + 1), ShownBefore(W, s, M, k + 1)[t], t, W[k + 1].merged[t])
    BY <1>3, <2>1 DEF Replays
  <2>3. DecodedBefore(V, s, D, k) = DecodedBefore(W, s, D, k + 1) BY <1>2, <2>1
  <2>4. ShownBefore(W, s, M, k + 1) = Shown(W[k], s) BY <2>1 DEF ShownBefore
  <2>5. ShownBefore(V, s, N, k) = Shown(W[k], s)
    <3>1. CASE k = 1
      <4>1. W[k + 1].syncId = s /\ k + 1 # 1 BY <2>1
      <4>2. N = Shown(W[1], s) BY <2>1, <4>1
      <4> QED BY <3>1, <4>2 DEF ShownBefore
    <3>2. CASE k # 1
      <4>1. V[k - 1] = W[k] BY <1>1, <2>1, <3>2
      <4> QED BY <3>2, <4>1 DEF ShownBefore
    <3> QED BY <3>1, <3>2
  <2> QED BY <2>1, <2>2, <2>3, <2>4, <2>5
<1> QED BY <1>2, <1>3 DEF V

(* V is W after the first action of its first feedback: from the deltas D and the tiles M
   it leads to E and N. *)
HeadDone(W, V, s, D, M, E, N) ==
  /\ W \in Seq(Feedbacks) /\ V \in Seq(Feedbacks) /\ Len(V) = Len(W) /\ W # <<>>
  /\ W[1].actions # <<>> /\ V[1].actions = Tail(W[1].actions)
  /\ V[1].syncId = W[1].syncId /\ V[1].merged = W[1].merged
  /\ \A k \in 1 .. Len(W) : k # 1 => V[k] = W[k]
  /\ W[1].syncId # s => E = D
  /\ W[1].syncId = s =>
       /\ E = D \cup Head(W[1].actions).ids
       /\ \A t \in AllTiles : N[t] = IF Covers(Head(W[1].actions), NumTile[s], t) THEN E ELSE M[t]

LEMMA ReplaysHead ==
  ASSUME NEW W, NEW V, NEW s, NEW D, NEW M, NEW E, NEW N, HeadDone(W, V, s, D, M, E, N)
  PROVE  /\ \A k \in 1 .. Len(W) : k # 1 => DecodedBefore(V, s, E, k) = DecodedBefore(W, s, D, k)
         /\ DecodedBefore(V, s, E, Len(W) + 1) = DecodedBefore(W, s, D, Len(W) + 1)
         /\ Replays(W, s, D, M) => Replays(V, s, E, N)
<1> USE DEF HeadDone
<1> DEFINE A == W[1].actions
<1>1. Len(W) \in Nat /\ Len(W) >= 1 /\ 1 \in 1 .. Len(W) OBVIOUS
<1>2. A \in Seq(Actions)
  <2>1. W[1] \in Feedbacks BY <1>1, ElementFacts
  <2> QED BY <2>1 DEF Feedbacks
<1> HIDE DEF A
<1>3. Head(A) \in Actions /\ (\A i : Named(i, A) <=> i \in Head(A).ids \/ Named(i, Tail(A)))
  BY <1>2, NamedTail, TailFacts DEF A
<1>4. Head(A).ids \subseteq Ids BY <1>3 DEF Actions
<1>5. ASSUME NEW k \in 1 .. Len(W) + 1, k # 1 PROVE DecodedBefore(V, s, E, k) = DecodedBefore(W, s, D, k)
  <2>0. 1 \in 1 .. k - 1 /\ \A l \in 1 .. k - 1 : l \in 1 .. Len(W) BY <1>1, <1>5
  <2>1. ASSUME NEW i \in DecodedBefore(V, s, E, k) PROVE i \in DecodedBefore(W, s, D, k)
    <3>1. CASE i \in D BY <3>1 DEF DecodedBefore
    <3>2. CASE W[1].syncId = s /\ i \in Head(A).ids
      <4>1. Named(i, W[1].actions) /\ i \in Ids BY <1>3, <1>4, <3>2 DEF A
      <4> QED BY <2>0, <3>2, <4>1 DEF DecodedBefore
    <3>3. CASE i \in Ids /\ \E l \in 1 .. k - 1 : V[l].syncId = s /\ Named(i, V[l].actions)
      <4>1. PICK l \in 1 .. k - 1 : V[l].syncId = s /\ Named(i, V[l].actions) BY <3>3
      <4>2. CASE l = 1
        <5>1. Named(i, W[1].actions) BY <1>3, <4>1, <4>2 DEF A
        <5> QED BY <2>0, <3>3, <4>1, <4>2, <5>1 DEF DecodedBefore
      <4>3. CASE l # 1 BY <2>0, <3>3, <4>1, <4>3 DEF DecodedBefore
      <4> QED BY <4>2, <4>3
    <3>4. i \in E \/ (i \in Ids /\ \E l \in 1 .. k - 1 : V[l].syncId = s /\ Named(i, V[l].actions))
      BY <2>1 DEF DecodedBefore
    <3>5. i \in E => i \in D \/ (W[1].syncId = s /\ i \in Head(A).ids) BY DEF A
    <3> QED BY <3>1, <3>2, <3>3, <3>4, <3>5
  <2>2. ASSUME NEW i \in DecodedBefore(W, s, D, k) PROVE i \in DecodedBefore(V, s, E, k)
    <3>0. D \subseteq E OBVIOUS
    <3>1. CASE i \in D BY <3>0, <3>1 DEF DecodedBefore
    <3>2. ASSUME i \in Ids, NEW l \in 1 .. k - 1, W[l].syncId = s, Named(i, W[l].actions)
          PROVE  i \in DecodedBefore(V, s, E, k)
      <4>1. CASE l = 1
        <5>1. i \in Head(A).ids \/ Named(i, V[1].actions) BY <1>3, <3>2, <4>1 DEF A
        <5>2. i \in Head(A).ids => i \in E BY <3>2, <4>1 DEF A
        <5> QED BY <3>2, <4>1, <5>1, <5>2 DEF DecodedBefore
      <4>2. CASE l # 1
        <5>1. V[l] = W[l] BY <2>0, <4>2
        <5> QED BY <3>2, <5>1 DEF DecodedBefore
      <4> QED BY <4>1, <4>2
    <3>3. i \in D \/ (i \in Ids /\ \E l \in 1 .. k - 1 : W[l].syncId = s /\ Named(i, W[l].actions))
      BY <2>2 DEF DecodedBefore
    <3> QED BY <3>1, <3>2, <3>3
  <2> QED BY <2>1, <2>2
<1>6. ASSUME Replays(W, s, D, M) PROVE Replays(V, s, E, N)
  <2> SUFFICES ASSUME NEW k \in 1 .. Len(W), V[k].syncId = s, NEW t \in AllTiles
               PROVE  Gives(V[k].actions, NumTile[s], DecodedBefore(V, s, E, k), ShownBefore(V, s, N, k)[t], t, V[k].merged[t])
    BY DEF Replays
  <2>1. W[k].syncId = s BY <1>1
  <2>2. Gives(W[k].actions, NumTile[s], DecodedBefore(W, s, D, k), ShownBefore(W, s, M, k)[t], t, W[k].merged[t])
    BY <1>6, <2>1 DEF Replays
  <2>3. CASE k = 1
    <3>1. DecodedBefore(W, s, D, 1) = D /\ DecodedBefore(V, s, E, 1) = E BY DEF DecodedBefore
    <3>2. ShownBefore(W, s, M, 1)[t] = M[t] /\ ShownBefore(V, s, N, 1)[t] = N[t] BY DEF ShownBefore
    <3>3. Gives(A, NumTile[s], D, M[t], t, W[1].merged[t]) BY <2>2, <2>3, <3>1, <3>2 DEF A
    <3>4. E = D \cup Head(A).ids BY <2>1, <2>3 DEF A
    <3>5. N[t] = IF Covers(Head(A), NumTile[s], t) THEN E ELSE M[t] BY <2>1, <2>3 DEF A
    <3>6. Gives(Tail(A), NumTile[s], E, N[t], t, W[1].merged[t])
      <4>1. A # <<>> BY DEF A
      <4>2. Gives(Tail(A), NumTile[s], D \cup Head(A).ids,
                  IF Covers(Head(A), NumTile[s], t) THEN D \cup Head(A).ids ELSE M[t], t, W[1].merged[t])
        BY <1>2, <3>3, <4>1, GivesTail
      <4> QED BY <3>4, <3>5, <4>2
    <3> QED BY <2>3, <3>1, <3>2, <3>6 DEF A
  <2>4. CASE k # 1
    <3>1. V[k] = W[k] BY <2>4
    <3>2. DecodedBefore(V, s, E, k) = DecodedBefore(W, s, D, k) BY <1>1, <1>5, <2>4
    <3>3. k - 1 \in 1 .. Len(W) BY <1>1, <2>4
    <3>4. Shown(V[k - 1], s) = Shown(W[k - 1], s)
      <4>1. CASE k - 1 = 1 BY <4>1 DEF Shown
      <4>2. CASE k - 1 # 1 BY <3>3, <4>2 DEF Shown
      <4> QED BY <4>1, <4>2
    <3> QED BY <2>2, <2>4, <3>1, <3>2, <3>4 DEF ShownBefore
  <2> QED BY <2>3, <2>4
<1> QED
  <2>1. Len(W) + 1 \in 1 .. Len(W) + 1 /\ Len(W) + 1 # 1 BY <1>1
  <2>2. \A k \in 1 .. Len(W) : k \in 1 .. Len(W) + 1 BY <1>1
  <2> QED BY <1>5, <1>6, <2>1, <2>2

(* V is W with another last feedback, which of the frame s gives what it has. *)
LastReplaced(W, V, n, s, D, M) ==
  /\ W \in Seq(Feedbacks) /\ V \in Seq(Feedbacks) /\ n \in Nat /\ Len(W) = n + 1 /\ Len(V) = n + 1
  /\ \A k \in 1 .. n : V[k] = W[k]
  /\ V[n + 1].syncId = s => \A t \in AllTiles :
       Gives(V[n + 1].actions, NumTile[s], DecodedBefore(W, s, D, n + 1), ShownBefore(W, s, M, n + 1)[t], t,
             V[n + 1].merged[t])

LEMMA ReplaysLast ==
  ASSUME NEW W, NEW V, NEW n, NEW s, NEW D, NEW M, LastReplaced(W, V, n, s, D, M)
  PROVE  /\ \A k \in 1 .. n + 1 : DecodedBefore(V, s, D, k) = DecodedBefore(W, s, D, k)
         /\ Replays(W, s, D, M) => Replays(V, s, D, M)
<1> USE DEF LastReplaced
<1>1. ASSUME NEW k \in 1 .. n + 1 PROVE DecodedBefore(V, s, D, k) = DecodedBefore(W, s, D, k)
  <2>1. \A l \in 1 .. k - 1 : V[l] = W[l] OBVIOUS
  <2> QED BY <2>1 DEF DecodedBefore
<1>2. ASSUME NEW k \in 1 .. n + 1 PROVE ShownBefore(V, s, M, k) = ShownBefore(W, s, M, k)
  <2>1. CASE k = 1 BY <2>1 DEF ShownBefore
  <2>2. CASE k # 1
    <3>1. k - 1 \in 1 .. n BY <2>2
    <3>2. V[k - 1] = W[k - 1] BY <3>1
    <3> QED BY <2>2, <3>2 DEF ShownBefore
  <2> QED BY <2>1, <2>2
<1>3. ASSUME Replays(W, s, D, M) PROVE Replays(V, s, D, M)
  <2> SUFFICES ASSUME NEW k \in 1 .. n + 1, V[k].syncId = s, NEW t \in AllTiles
               PROVE  Gives(V[k].actions, NumTile[s], DecodedBefore(V, s, D, k), ShownBefore(V, s, M, k)[t], t, V[k].merged[t])
    BY DEF Replays
  <2>1. CASE k = n + 1 BY <1>1, <1>2, <2>1
  <2>2. CASE k \in 1 .. n
    <3>1. V[k] = W[k] /\ k \in 1 .. Len(W) BY <2>2
    <3>2. Gives(W[k].actions, NumTile[s], DecodedBefore(W, s, D, k), ShownBefore(W, s, M, k)[t], t, W[k].merged[t])
      BY <1>3, <3>1 DEF Replays
    <3> QED BY <1>1, <1>2, <3>1, <3>2
  <2> QED BY <2>1, <2>2
<1> QED BY <1>1, <1>3

(* A feedback without actions that has the tiles of the one before it. *)
LEMMA ReplaysAppend ==
  ASSUME NEW W \in Seq(Feedbacks), NEW r \in Feedbacks, r.actions = <<>>, W # <<>>, NEW s, NEW D, NEW M,
         r.syncId = s => r.merged = Shown(W[Len(W)], s)
  PROVE  /\ \A k \in 1 .. Len(W) + 1 : DecodedBefore(Append(W, r), s, D, k) = DecodedBefore(W, s, D, k)
         /\ DecodedBefore(Append(W, r), s, D, Len(W) + 2) = DecodedBefore(W, s, D, Len(W) + 1)
         /\ Replays(W, s, D, M) => Replays(Append(W, r), s, D, M)
<1> DEFINE V == Append(W, r)
           n == Len(W)
<1>1. /\ V \in Seq(Feedbacks) /\ n \in Nat /\ n >= 1 /\ Len(V) = n + 1 /\ V[n + 1] = r
      /\ \A k \in 1 .. n : V[k] = W[k]
  <2>1. Len(W) # 0 OBVIOUS
  <2> QED BY <2>1, AppendFacts
<1> HIDE DEF V, n
<1>2. ASSUME NEW k \in 1 .. n + 1 PROVE DecodedBefore(V, s, D, k) = DecodedBefore(W, s, D, k)
  <2>1. \A l \in 1 .. k - 1 : V[l] = W[l] BY <1>1
  <2> QED BY <2>1 DEF DecodedBefore
<1>3. DecodedBefore(V, s, D, n + 2) = DecodedBefore(W, s, D, n + 1)
  <2>1. \A i : ~Named(i, V[n + 1].actions) BY <1>1 DEF Named
  <2>2. ASSUME NEW i PROVE (\E l \in 1 .. (n + 2) - 1 : V[l].syncId = s /\ Named(i, V[l].actions))
                             <=> (\E l \in 1 .. (n + 1) - 1 : W[l].syncId = s /\ Named(i, W[l].actions))
    <3>1. \A l \in 1 .. (n + 2) - 1 : l = n + 1 \/ l \in 1 .. n BY <1>1
    <3>2. \A l \in 1 .. (n + 1) - 1 : l \in 1 .. n /\ l \in 1 .. (n + 2) - 1 BY <1>1
    <3>3. 1 .. (n + 1) - 1 = 1 .. n BY <1>1
    <3> QED BY <1>1, <2>1, <3>1, <3>2, <3>3
  <2> QED BY <2>2 DEF DecodedBefore
<1>4. ASSUME NEW k \in 1 .. n PROVE ShownBefore(V, s, M, k) = ShownBefore(W, s, M, k)
  <2>1. CASE k = 1 BY <2>1 DEF ShownBefore
  <2>2. CASE k # 1
    <3>1. k - 1 \in 1 .. n BY <1>1, <2>2
    <3>2. V[k - 1] = W[k - 1] BY <1>1, <3>1
    <3> QED BY <2>2, <3>2 DEF ShownBefore
  <2> QED BY <2>1, <2>2
<1>5. ASSUME Replays(W, s, D, M) PROVE Replays(V, s, D, M)
  <2> SUFFICES ASSUME NEW k \in 1 .. n + 1, V[k].syncId = s, NEW t \in AllTiles
               PROVE  Gives(V[k].actions, NumTile[s], DecodedBefore(V, s, D, k), ShownBefore(V, s, M, k)[t], t, V[k].merged[t])
    BY <1>1 DEF Replays
  <2>1. CASE k = n + 1
    <3>1. n + 1 # 1 /\ (n + 1) - 1 = n /\ n \in 1 .. n BY <1>1
    <3>2. ShownBefore(V, s, M, n + 1) = Shown(V[n], s) BY <3>1 DEF ShownBefore
    <3>3. V[n] = W[n] BY <1>1, <3>1
    <3>4. r.merged = Shown(W[n], s) BY <1>1, <2>1 DEF n
    <3>5. ShownBefore(V, s, M, k) = V[k].merged BY <1>1, <2>1, <3>2, <3>3, <3>4
    <3>6. V[k].actions = <<>> BY <1>1, <2>1
    <3> QED BY <3>5, <3>6, GivesNothing
  <2>2. CASE k \in 1 .. n
    <3>1. V[k] = W[k] BY <1>1, <2>2
    <3>2. Gives(W[k].actions, NumTile[s], DecodedBefore(W, s, D, k), ShownBefore(W, s, M, k)[t], t, W[k].merged[t])
      BY <1>5, <2>2, <3>1 DEF Replays, n
    <3>3. DecodedBefore(V, s, D, k) = DecodedBefore(W, s, D, k) BY <1>2
    <3> QED BY <1>4, <2>2, <3>1, <3>2, <3>3
  <2> QED BY <1>1, <2>1, <2>2
<1> QED BY <1>2, <1>3, <1>5 DEF V, n

(* Of the actions that cover a tile there is a last one. *)
LEMMA LastCover ==
  ASSUME NEW A \in Seq(Actions), NEW n, NEW t, \E p \in 1 .. Len(A) : Covers(A[p], n, t)
  PROVE  \E p \in 1 .. Len(A) : Covers(A[p], n, t) /\ \A q \in p + 1 .. Len(A) : ~Covers(A[q], n, t)
<1> DEFINE m == Len(A)
           S == {j \in Nat : j <= m /\ Covers(A[m - j], n, t) /\ j < m}
<1>1. m \in Nat OBVIOUS
<1> HIDE DEF m
<1>2. PICK p \in 1 .. m : Covers(A[p], n, t) BY DEF m
<1>3. m - p \in Nat /\ m - (m - p) = p /\ m - p < m BY <1>1
<1>4. m - p \in S BY <1>1, <1>2, <1>3
<1>5. PICK j \in S : \A i \in S : ~(i < j)
  <2> DEFINE R == OpToRel(<, Nat)
  <2>1. IsWellFoundedOn(R, Nat) BY NatLessThanWellFounded
  <2>2. \A x, y \in Nat : <<x, y>> \in R <=> x < y BY DEF OpToRel
  <2>3. S \subseteq Nat OBVIOUS
  <2> HIDE DEF R, S
  <2>4. PICK j \in S : \A i \in S : ~ (<<i, j>> \in R) BY <1>4, <2>1, <2>3, WFMin
  <2> QED BY <2>2, <2>3, <2>4
<1>6. j \in Nat /\ j < m /\ Covers(A[m - j], n, t) /\ m - j \in 1 .. m BY <1>1, <1>5
<1>7. ASSUME NEW q \in (m - j) + 1 .. m, Covers(A[q], n, t) PROVE FALSE
  <2>1. m - q \in Nat /\ m - (m - q) = q /\ m - q < m /\ m - q < j BY <1>1, <1>6
  <2>2. m - q \in S BY <1>1, <1>7, <2>1
  <2> QED BY <1>5, <2>1, <2>2
<1> QED BY <1>6, <1>7 DEF m

(* A frame that has just begun: what is told of it names no image and gives nothing. *)
LEMMA ReplaysBlank ==
  ASSUME NEW W \in Seq(Feedbacks), NEW s,
         \A k \in 1 .. Len(W) : W[k].syncId = s =>
           W[k].merged = Blank /\ \A i \in Ids : ~Named(i, W[k].actions)
  PROVE  /\ Replays(W, s, {}, Blank)
         /\ \A k \in 1 .. Len(W) + 1 : DecodedBefore(W, s, {}, k) = {}
<1>1. ASSUME NEW k \in 1 .. Len(W) + 1 PROVE DecodedBefore(W, s, {}, k) = {}
  <2>1. \A l \in 1 .. k - 1 : l \in 1 .. Len(W) OBVIOUS
  <2> QED BY <2>1 DEF DecodedBefore
<1>2. ASSUME NEW k \in 1 .. Len(W), W[k].syncId = s, NEW t \in AllTiles
      PROVE  Gives(W[k].actions, NumTile[s], DecodedBefore(W, s, {}, k), ShownBefore(W, s, Blank, k)[t], t, W[k].merged[t])
  <2> DEFINE A == W[k].actions
  <2>1. DecodedBefore(W, s, {}, k) = {} BY <1>1
  <2>2. W[k].merged[t] = {} BY <1>2 DEF Blank
  <2>3. ShownBefore(W, s, Blank, k)[t] = {}
    <3>1. Blank[t] = {} BY DEF Blank
    <3>2. CASE k = 1 BY <3>1, <3>2 DEF ShownBefore
    <3>3. CASE k # 1
      <4>1. k - 1 \in 1 .. Len(W) BY <3>3
      <4> QED BY <3>1, <3>3, <4>1 DEF ShownBefore, Shown
    <3> QED BY <3>2, <3>3
  <2>4. A \in Seq(Actions)
    <3>1. W[k] \in Feedbacks BY ElementFacts
    <3> QED BY <3>1 DEF Feedbacks
  <2>5. \A i \in Ids : ~Named(i, A) BY <1>2
  <2> HIDE DEF A
  <2>6. CASE \A p \in 1 .. Len(A) : ~Covers(A[p], NumTile[s], t)
    <3>1. Gives(A, NumTile[s], {}, {}, t, {}) BY <2>6 DEF Gives
    <3> QED BY <2>1, <2>2, <2>3, <3>1 DEF A
  <2>7. CASE \E p \in 1 .. Len(A) : Covers(A[p], NumTile[s], t)
    <3>1. PICK p \in 1 .. Len(A) : /\ Covers(A[p], NumTile[s], t)
                                   /\ \A q \in p + 1 .. Len(A) : ~Covers(A[q], NumTile[s], t)
      BY <2>4, <2>7, LastCover
    <3>2. {i \in Ids : \E q \in 1 .. p : i \in A[q].ids} = {}
      <4>1. Len(A) \in Nat BY <2>4
      <4>2. \A q \in 1 .. p : q \in 1 .. Len(A) BY <4>1
      <4> QED BY <2>5, <4>2 DEF Named
    <3>3. Gives(A, NumTile[s], {}, {}, t, {}) BY <3>1, <3>2 DEF Gives
    <3> QED BY <2>1, <2>2, <2>3, <3>3 DEF A
  <2> QED BY <2>6, <2>7
<1> QED BY <1>1, <1>2 DEF Replays

(***************************************************************************)
(* The feedback under way.                                                 *)
(***************************************************************************)

LEMMA FeedbackTypes ==
  /\ \A m \in Messages : m \in Feedbacks /\ m # NoMessage
  /\ \A q \in Seq(Messages) : q \in Seq(Feedbacks)
<1>1. \A m \in Messages : m \in Feedbacks BY DEF Messages, Feedbacks
<1>2. \A m \in Messages : m # NoMessage
  <2> SUFFICES ASSUME NEW m \in Messages, m = NoMessage PROVE FALSE OBVIOUS
  <2>1. m.syncId \in SyncIds BY DEF Messages
  <2>2. m.syncId = -1 BY DEF NoMessage, UNDEFINED
  <2> QED BY <2>1, <2>2, SyncIdFacts
<1>3. Messages \subseteq Feedbacks BY <1>1
<1> HIDE DEF Messages, Feedbacks
<1>4. \A q \in Seq(Messages) : q \in Seq(Feedbacks) BY <1>3
<1> QED BY <1>1, <1>2, <1>4

LEMMA UnevaluatedFacts ==
  ASSUME NEW m \in Messages \cup {NoMessage}, NEW q \in Seq(Messages)
  PROVE  /\ Unevaluated(m, q) \in Seq(Feedbacks)
         /\ m = NoMessage => Unevaluated(m, q) = q
         /\ m # NoMessage => /\ Len(Unevaluated(m, q)) = Len(q) + 1
                             /\ Unevaluated(m, q)[1] = m
                             /\ \A k \in 1 .. Len(q) : Unevaluated(m, q)[k + 1] = q[k]
                             /\ Tail(Unevaluated(m, q)) = q
<1>1. q \in Seq(Feedbacks) BY FeedbackTypes
<1>2. CASE m = NoMessage BY <1>1, <1>2 DEF Unevaluated
<1>3. CASE m # NoMessage
  <2>1. m \in Feedbacks BY <1>3, FeedbackTypes
  <2>2. Unevaluated(m, q) = <<m>> \o q BY <1>3 DEF Unevaluated
  <2> HIDE DEF Unevaluated, Feedbacks
  <2>3. <<m>> \o q \in Seq(Feedbacks) /\ Len(<<m>> \o q) = Len(q) + 1 /\ (<<m>> \o q)[1] = m
        /\ \A k \in 1 .. Len(q) : (<<m>> \o q)[k + 1] = q[k]
    BY <1>1, <2>1
  <2>4. Tail(<<m>> \o q) = q BY <1>1, <2>1
  <2> QED BY <1>3, <2>2, <2>3, <2>4
<1> QED BY <1>2, <1>3

LEMMA RecordedType ==
  ASSUME TypeOK
  PROVE  Recorded \in Feedbacks
<1>1. feedbackIsStarted \in BOOLEAN BY DEF feedbackIsStarted, TypeOK
<1> QED BY <1>1 DEF TypeOK, Feedbacks, Recorded

LEMMA UnderwayFacts ==
  ASSUME TypeOK
  PROVE  LET U == Unevaluated(message, toMcrt)
         IN /\ message \in Messages \cup {NoMessage} /\ toMcrt \in Seq(Messages)
            /\ U \in Seq(Feedbacks) /\ Recorded \in Feedbacks /\ Underway = Append(U, Recorded)
            /\ Underway \in Seq(Feedbacks) /\ Len(U) \in Nat /\ Len(Underway) = Len(U) + 1
            /\ Underway[Len(U) + 1] = Recorded
            /\ \A k \in 1 .. Len(U) : Underway[k] = U[k]
            /\ \A k \in 1 .. Len(U) : \A i : Named(i, U[k].actions) => Told(i)
            /\ \A k \in 1 .. Len(Underway) : Underway[k].syncId \in Int
<1> DEFINE U == Unevaluated(message, toMcrt)
<1>1. message \in Messages \cup {NoMessage} /\ toMcrt \in Seq(Messages) BY DEF TypeOK, MachineTypeOK
<1>2. U \in Seq(Feedbacks) BY <1>1, UnevaluatedFacts
<1>3. Recorded \in Feedbacks BY RecordedType
<1>4. Underway = Append(U, Recorded) BY DEF Underway
<1>5. ASSUME NEW k \in 1 .. Len(U), NEW i, Named(i, U[k].actions) PROVE Told(i)
  <2>1. CASE message = NoMessage
    <3>1. U = toMcrt BY <1>1, <2>1, UnevaluatedFacts
    <3> QED BY <1>5, <3>1 DEF Told
  <2>2. CASE message # NoMessage
    <3>1. Len(U) = Len(toMcrt) + 1 /\ U[1] = message /\ \A l \in 1 .. Len(toMcrt) : U[l + 1] = toMcrt[l]
      BY <1>1, <2>2, UnevaluatedFacts
    <3>2. Len(toMcrt) \in Nat BY <1>1
    <3> HIDE DEF U
    <3>3. CASE k = 1 BY <1>5, <3>1, <3>3 DEF Told
    <3>4. CASE k # 1
      <4>1. k - 1 \in 1 .. Len(toMcrt) /\ (k - 1) + 1 = k BY <3>1, <3>2, <3>4
      <4>2. U[k] = toMcrt[k - 1] BY <3>1, <4>1
      <4> QED BY <1>5, <4>1, <4>2 DEF Told
    <3> QED BY <3>3, <3>4
  <2> QED BY <2>1, <2>2
<1> HIDE DEF U
<1>6. /\ Underway \in Seq(Feedbacks) /\ Len(U) \in Nat /\ Len(Underway) = Len(U) + 1
      /\ Underway[Len(U) + 1] = Recorded
      /\ \A k \in 1 .. Len(U) : Underway[k] = U[k]
  BY <1>2, <1>3, <1>4, AppendFacts
<1>7. \A k \in 1 .. Len(Underway) : Underway[k].syncId \in Int
  <2> TAKE k \in 1 .. Len(Underway)
  <2>1. Underway[k] \in Feedbacks BY <1>6, ElementFacts
  <2>2. Underway[k].syncId \in SyncIds \cup {-1} BY <2>1 DEF Feedbacks, UNDEFINED
  <2> QED BY <2>2, SyncIdFacts
<1> QED BY <1>1, <1>2, <1>3, <1>4, <1>5, <1>6, <1>7 DEF U

(* What is under way is told or noted. *)
LEMMA NamedUnderway ==
  ASSUME TypeOK, NEW k \in 1 .. Len(Underway), NEW i, Named(i, Underway[k].actions)
  PROVE  Told(i) \/ Noted(i)
<1> DEFINE n == Len(Unevaluated(message, toMcrt))
<1>1. /\ n \in Nat /\ Len(Underway) = n + 1 /\ Underway[n + 1] = Recorded
      /\ \A l \in 1 .. n : Underway[l] = Unevaluated(message, toMcrt)[l]
      /\ \A l \in 1 .. n : \A j : Named(j, Unevaluated(message, toMcrt)[l].actions) => Told(j)
  BY UnderwayFacts
<1> HIDE DEF n
<1>2. CASE k = n + 1
  <2>1. Named(i, tracker) BY <1>1, <1>2 DEF Recorded
  <2> QED BY <2>1 DEF Noted
<1>3. CASE k \in 1 .. n BY <1>1, <1>3
<1> QED BY <1>1, <1>2, <1>3

LEMMA FitsTail ==
  ASSUME NEW W \in Seq(Feedbacks), W # <<>>, InSyncOrder(W),
         NEW s, NEW first, NEW begun, NEW isFresh,
         \A k \in 1 .. Len(W) : IdsFit(W[k], s, first, begun, isFresh)
  PROVE  InSyncOrder(Tail(W)) /\ \A k \in 1 .. Len(Tail(W)) : IdsFit(Tail(W)[k], s, first, begun, isFresh)
<1>1. /\ Len(Tail(W)) = Len(W) - 1 /\ Len(W) \in Nat
      /\ \A k \in 1 .. Len(Tail(W)) : Tail(W)[k] = W[k + 1] /\ k + 1 \in 1 .. Len(W)
  BY TailFacts
<1>2. ASSUME NEW k \in 1 .. Len(Tail(W)), NEW l \in 1 .. Len(Tail(W)), k < l
      PROVE  Tail(W)[k].syncId <= Tail(W)[l].syncId
  <2>1. k + 1 \in 1 .. Len(W) /\ l + 1 \in 1 .. Len(W) /\ k + 1 < l + 1 BY <1>1, <1>2
  <2>2. W[k + 1].syncId <= W[l + 1].syncId BY <2>1 DEF InSyncOrder
  <2> QED BY <1>1, <2>2
<1>3. \A k \in 1 .. Len(Tail(W)) : IdsFit(Tail(W)[k], s, first, begun, isFresh) BY <1>1
<1> QED BY <1>2, <1>3 DEF InSyncOrder

LEMMA MergedType == TypeOK => Merged \in [AllTiles -> SUBSET Ids]
  BY DEF TypeOK, MachineTypeOK, Merged

LEMMA NothingMerged ==
  ASSUME decodedFb = {}, mergedFb = Blank
  PROVE  Merged = Blank
BY DEF Merged, Blank

(* When the first feedback is done the machine has the tiles the merge had, or there is
   nothing of the machine's frame behind it. *)
LEMMA FrameDoneIsExact ==
  ASSUME ReplayInv, feedbackActiveRuntime, fresh, evicted = {}, Underway # <<>>, Underway[1].actions = <<>>,
         Underway[1].syncId = syncId
  PROVE  Merged = Underway[1].merged
<1> DEFINE W == Underway
<1>1. TypeOK BY DEF ReplayInv, IInv
<1>2. W \in Seq(Feedbacks) /\ 1 \in 1 .. Len(W)
  <2>1. W \in Seq(Feedbacks) BY <1>1, UnderwayFacts
  <2> HIDE DEF W
  <2>2. W # <<>> BY DEF W
  <2> QED BY <2>1, <2>2
<1>3. \A t \in AllTiles : Gives(W[1].actions, NumTile[syncId], DecodedBefore(W, syncId, decodedFb, 1),
                                ShownBefore(W, syncId, Merged, 1)[t], t, W[1].merged[t])
  BY <1>2 DEF ReplayInv, ReplayIsExact, Replays
<1>4. \A t \in AllTiles : W[1].merged[t] = Merged[t]
  <2>1. ShownBefore(W, syncId, Merged, 1) = Merged BY DEF ShownBefore
  <2> QED BY <1>3, <2>1, GivesNothing
<1>5. Merged \in [AllTiles -> SUBSET Ids] BY <1>1, MergedType
<1>6. W[1].merged \in [AllTiles -> SUBSET Ids]
  <2>1. W[1] \in Feedbacks BY <1>2, ElementFacts
  <2> QED BY <2>1 DEF Feedbacks
<1> QED BY <1>4, <1>5, <1>6

LEMMA DoneIsExact ==
  ASSUME ReplayInv, feedbackActiveRuntime, fresh, evicted = {}, Underway[1].actions = <<>>, Underway # <<>>
  PROVE  \/ Merged = Shown(Underway[1], syncId)
         \/ \A k \in 1 .. Len(Underway) : k # 1 => Underway[k].syncId # syncId
<1> DEFINE W == Underway
<1>1. TypeOK BY DEF ReplayInv, IInv
<1>2. W \in Seq(Feedbacks) /\ (\A k \in 1 .. Len(W) : W[k].syncId \in Int) /\ 1 \in 1 .. Len(W) /\ Len(W) \in Nat
  <2>1. W \in Seq(Feedbacks) /\ \A k \in 1 .. Len(W) : W[k].syncId \in Int BY <1>1, UnderwayFacts
  <2> HIDE DEF W
  <2>2. W # <<>> BY DEF W
  <2> QED BY <2>1, <2>2
<1>3. syncId \in Int BY <1>1, Numbers
<1>4. CASE W[1].syncId = syncId
  <2>1. Merged = W[1].merged BY <1>4, FrameDoneIsExact
  <2> QED BY <1>4, <2>1 DEF Shown
<1>5. CASE W[1].syncId < syncId
  <2>1. decodedFb = {} /\ mergedFb = Blank BY <1>2, <1>5 DEF ReplayInv, OldFindsNothing
  <2>2. Merged = Blank BY <2>1, NothingMerged
  <2>3. W[1].syncId # syncId BY <1>2, <1>3, <1>5
  <2> QED BY <2>2, <2>3 DEF Shown
<1>6. CASE W[1].syncId > syncId
  <2>1. \A k \in 1 .. Len(W) : k # 1 => W[1].syncId <= W[k].syncId
    <3>1. \A k \in 1 .. Len(W) : k # 1 => 1 < k BY <1>2
    <3> QED BY <1>2, <3>1 DEF ReplayInv, IdsOfTheirFrame, InSyncOrder
  <2> QED BY <1>2, <1>3, <1>6, <2>1
<1> QED BY <1>2, <1>3, <1>4, <1>5, <1>6

(***************************************************************************)
(* The machine begins a frame, sends an image, receives feedback.          *)
(***************************************************************************)

LEMMA StartsKeepsReplay == ReplayInv /\ MachineStarts => ReplayInv'
<1> SUFFICES ASSUME ReplayInv, MachineStarts PROVE ReplayInv' OBVIOUS
<1>1. IInv /\ IInv' /\ TypeOK BY StartsKeepsIInv DEF ReplayInv, IInv
<1>2. /\ newest \in Int /\ display \in Int /\ sendImageActionId \in Nat
      /\ Ids \subseteq Nat /\ \A k \in 1 .. Len(toMerge) : toMerge[k].id \in Ids /\ toMerge[k].syncId \in SyncIds
  BY <1>1, Numbers
<1>3. PICK s \in SyncIds, n \in Sizes :
        Begins(s, n) /\ IF feedbackActiveRuntime' THEN reset(n) ELSE UNCHANGED cache
  BY DEF MachineStarts, startFrame
<1>4. /\ syncId' = s /\ s \in Int /\ newest' \in Int /\ newest' >= newest
      /\ fresh' \in BOOLEAN /\ (fresh' => s > newest /\ newest' = s /\ n = NumTile[s])
      /\ firstId' = sendImageActionId /\ feedbackActiveRuntime' \in BOOLEAN
  BY <1>1, <1>3, BeginsFacts
<1>5. /\ feedbackActiveRuntime' => decodedFb' = {} /\ mergedFb' = Blank /\ numTile' = n
      /\ message = NoMessage
      /\ UNCHANGED <<message, lastAction, tileTbl, toMcrt, tracker, toMerge, display, pending, decoded, merged,
                     feedbackInitialized, lastSentFeedbackSyncId>>
  BY <1>3 DEF MachineStarts, startFrame, Ready, evaluation, reset, mergeVars, mergeFrame, mergeFeedback
<1>6. PICK W : W = Underway OBVIOUS
<1>7. Underway' = W BY <1>5, <1>6 DEF Underway, Recorded, feedbackIsStarted
<1>8. W \in Seq(Feedbacks) /\ \A k \in 1 .. Len(W) : W[k].syncId \in Int BY <1>1, <1>6, UnderwayFacts
<1>9. ASSUME NEW k \in 1 .. Len(W), NEW i \in Ids, Named(i, W[k].actions)
      PROVE  i < sendImageActionId /\ W[k].syncId <= newest
  <2>1. Told(i) \/ Noted(i) BY <1>1, <1>6, <1>9, NamedUnderway
  <2>2. i < sendImageActionId BY <1>1, <2>1 DEF IInv, PassedInOrder
  <2>3. ~(W[k].syncId > newest) BY <1>6, <1>9 DEF ReplayInv, IdsOfTheirFrame, IdsFit
  <2> QED BY <1>2, <1>8, <2>2, <2>3
<1>10. \A k \in 1 .. Len(W) : W[k].syncId > newest => W[k].merged = Blank
  BY <1>6 DEF ReplayInv, IdsOfTheirFrame, IdsFit
<1>11. IdsOfTheirFrame'
  <2>1. InSyncOrder(W) BY <1>6 DEF ReplayInv, IdsOfTheirFrame
  <2>2. ASSUME NEW k \in 1 .. Len(W) PROVE IdsFit(W[k], s, sendImageActionId, newest', fresh')
    <3>1. W[k].syncId \in Int BY <1>8
    <3>2. \A i \in Ids : Named(i, W[k].actions) => i < sendImageActionId /\ W[k].syncId <= newest BY <1>9
    <3>3. W[k].syncId > newest' => W[k].merged = Blank /\ \A i \in Ids : ~Named(i, W[k].actions)
      BY <1>2, <1>4, <1>10, <3>1, <3>2
    <3>4. fresh' => \A i \in Ids : Named(i, W[k].actions) => W[k].syncId < s /\ i < sendImageActionId
      BY <1>2, <1>4, <3>1, <3>2
    <3>5. fresh' => \A i \in Ids : Named(i, W[k].actions) => ~(W[k].syncId = s) BY <1>4, <3>1, <3>4
    <3> QED BY <3>3, <3>4, <3>5 DEF IdsFit
  <2>3. ASSUME fresh', NEW k \in 1 .. Len(toMerge) PROVE toMerge[k].syncId # s
    <3>1. toMerge[k].syncId <= newest BY <1>1 DEF IInv, ImagesInOrder
    <3>2. toMerge[k].syncId \in Int BY <1>2, SyncIdFacts
    <3> QED BY <1>2, <1>4, <2>3, <3>1, <3>2
  <2>4. fresh' /\ display = s => pending = {} BY <1>1, <1>2, <1>4 DEF IInv, AheadIsEmpty
  <2> QED BY <1>4, <1>5, <1>7, <2>1, <2>2, <2>3, <2>4 DEF IdsOfTheirFrame
<1>12. MergedIsDecoded' BY <1>5 DEF ReplayInv, MergedIsDecoded
<1>13. EvaluationAgrees' BY <1>4, <1>5 DEF ReplayInv, EvaluationAgrees
<1>14. ASSUME feedbackActiveRuntime', fresh' PROVE OldFindsNothing' /\ ReplayIsExact'
  <2>1. OldFindsNothing' BY <1>5, <1>14 DEF OldFindsNothing
  <2>2. lastAction = "EOD" BY <1>5 DEF ReplayInv, EvaluationAgrees
  <2>3. Merged' = Blank
    <3>1. Merged' = [t \in AllTiles |-> mergedFb'[t]] BY <1>5, <2>2 DEF Merged, priorActionWasMerge, MergeOps
    <3> QED BY <1>5, <1>14, <3>1 DEF Blank
  <2>4. \A k \in 1 .. Len(W) : W[k].syncId = s => W[k].merged = Blank /\ \A i \in Ids : ~Named(i, W[k].actions)
    BY <1>2, <1>4, <1>9, <1>10, <1>14
  <2>5. Replays(W, s, {}, Blank) /\ \A k \in 1 .. Len(W) + 1 : DecodedBefore(W, s, {}, k) = {}
    BY <1>8, <2>4, ReplaysBlank
  <2>6. display = s => decoded = {} BY <1>1, <1>2, <1>4, <1>14 DEF IInv, AheadIsEmpty
  <2>7. Len(W) + 1 \in 1 .. Len(W) + 1 BY <1>8
  <2> QED BY <1>4, <1>5, <1>7, <1>14, <2>1, <2>3, <2>5, <2>6, <2>7 DEF ReplayIsExact
<1> QED BY <1>1, <1>11, <1>12, <1>13, <1>14 DEF ReplayInv

LEMMA SendsKeepsReplay == ReplayInv /\ MachineSends => ReplayInv'
<1> SUFFICES ASSUME ReplayInv, MachineSends PROVE ReplayInv' OBVIOUS
<1> DEFINE id == sendImageActionId
           m == [id |-> id, syncId |-> syncId]
<1>1. IInv /\ IInv' /\ TypeOK BY SendsKeepsIInv DEF ReplayInv, IInv
<1>2. /\ syncId \in Int /\ display \in Int /\ id \in Nat /\ firstId \in Nat
  BY <1>1, Numbers
<1>3. PICK isStarted \in BOOLEAN :
        /\ SendImage(isStarted) \/ SendImageAnew(isStarted)
        /\ toMerge' = Append(toMerge, m) /\ UNCHANGED <<toMcrt, mergeVars>>
  BY DEF MachineSends
<1>4a. SendsFacts(id, isStarted) BY <1>1, <1>3, SendingFacts
<1>4. /\ newest' = newest /\ fresh' \in BOOLEAN
      /\ fresh' => fresh /\ UNCHANGED <<firstId, feedbackActiveRuntime>>
      /\ UNCHANGED <<syncId, message, lastAction, tileTbl, toMcrt, tracker, display, pending, decoded, merged,
                     feedbackInitialized, lastSentFeedbackSyncId>>
  BY <1>4a DEF SendsFacts
<1>5. \/ ~feedbackActiveRuntime' /\ (fresh' => UNCHANGED <<numTile, evicted>>)
      \/ /\ firstId' = id
         /\ fresh' => UNCHANGED <<numTile, evicted>>
         /\ decodedFb' = {} /\ mergedFb' = Blank
      \/ \E keep \in 0 .. id :
           LET old == {i \in sentData : i < keep}
           IN /\ DecodeItems(old)
              /\ evicted' = evicted \cup old
              /\ UNCHANGED <<started, numTile>>
  BY <1>4a DEF SendsFacts
<1>6. PICK W : W = Underway OBVIOUS
<1>7. Underway' = W BY <1>4, <1>6 DEF Underway, Recorded, feedbackIsStarted
<1>8. IdsOfTheirFrame'
  <2>1. ASSUME fresh', NEW k \in 1 .. Len(toMerge') PROVE toMerge'[k].syncId = syncId => firstId <= toMerge'[k].id
    <3>1. /\ Len(toMerge') = Len(toMerge) + 1 /\ Len(toMerge) \in Nat
          /\ \A l \in 1 .. Len(toMerge) : toMerge'[l] = toMerge[l]
          /\ toMerge'[Len(toMerge) + 1].id = id
      BY <1>1, <1>3 DEF TypeOK
    <3>2. firstId <= id BY <1>1 DEF IInv, SendingFollows
    <3>3. CASE k \in 1 .. Len(toMerge) BY <1>4, <2>1, <3>1, <3>3 DEF ReplayInv, IdsOfTheirFrame
    <3>4. CASE k = Len(toMerge) + 1 BY <3>1, <3>2, <3>4
    <3> QED BY <3>1, <3>3, <3>4
  <2>2. ASSUME NEW k \in 1 .. Len(W) PROVE IdsFit(W[k], syncId, firstId', newest, fresh')
    <3>1. IdsFit(W[k], syncId, firstId, newest, fresh) BY <1>6 DEF ReplayInv, IdsOfTheirFrame
    <3> QED BY <1>4, <3>1 DEF IdsFit
  <2>3. InSyncOrder(W) BY <1>6 DEF ReplayInv, IdsOfTheirFrame
  <2>4. fresh' /\ display = syncId => \A i \in pending : firstId <= i BY <1>4 DEF ReplayInv, IdsOfTheirFrame
  <2> QED BY <1>4, <1>7, <2>1, <2>2, <2>3, <2>4 DEF IdsOfTheirFrame
<1>9. MergedIsDecoded' BY <1>4 DEF ReplayInv, MergedIsDecoded
<1>10. EvaluationAgrees'
  <2>1. feedbackActiveRuntime' /\ fresh' => numTile' = numTile BY <1>5
  <2>2. /\ message = NoMessage => lastAction = "EOD"
        /\ lastAction = "EOD" => tileTbl = {}
        /\ feedbackActiveRuntime /\ fresh => numTile = NumTile[syncId]
    BY DEF ReplayInv, EvaluationAgrees
  <2> QED BY <1>4, <2>1, <2>2 DEF EvaluationAgrees
<1>11. ASSUME feedbackActiveRuntime', fresh', evicted' = {}
       PROVE  feedbackActiveRuntime /\ fresh /\ evicted = {} /\ decodedFb' = decodedFb /\ mergedFb' = mergedFb
  <2>0. feedbackActiveRuntime /\ fresh /\ firstId' = firstId BY <1>4, <1>11
  <2>1. CASE firstId' = id /\ decodedFb' = {} /\ mergedFb' = Blank /\ evicted' = evicted
    <3>1. decodedFb \subseteq firstId .. (id - 1) BY <1>1, <2>0 DEF IInv, FrameIsWhole
    <3>2. firstId .. (id - 1) = {} BY <1>2, <2>0, <2>1
    <3>3. decodedFb = {} BY <3>1, <3>2
    <3>4. mergedFb = Blank BY <1>11, <2>0, <2>1, <3>3 DEF ReplayInv, OldFindsNothing
    <3> QED BY <1>11, <2>0, <2>1, <3>3, <3>4
  <2>2. ASSUME NEW old, DecodeItems(old), evicted' = evicted \cup old
        PROVE  evicted = {} /\ decodedFb' = decodedFb /\ mergedFb' = mergedFb
    <3>1. old = {} /\ evicted = {} BY <1>11, <2>2
    <3> QED BY <2>2, <3>1 DEF DecodeItems
  <2> QED BY <1>5, <1>11, <2>0, <2>1, <2>2
<1>12. ASSUME feedbackActiveRuntime', fresh', evicted' = {} PROVE OldFindsNothing' /\ ReplayIsExact'
  <2>1. OldFindsNothing /\ ReplayIsExact BY <1>11, <1>12 DEF ReplayInv
  <2>2. OldFindsNothing' BY <1>4, <1>6, <1>7, <1>11, <1>12, <2>1 DEF OldFindsNothing
  <2>3. Merged' = Merged BY <1>4, <1>11, <1>12 DEF Merged, priorActionWasMerge
  <2> QED BY <1>4, <1>6, <1>7, <1>11, <1>12, <2>1, <2>2, <2>3 DEF ReplayIsExact
<1> QED BY <1>1, <1>8, <1>9, <1>10, <1>12 DEF ReplayInv

(* The first feedback is done, and has left the tiles as they are. *)
LEMMA DoneKeepsReplay ==
  ASSUME ReplayInv, IInv', EvaluationAgrees', Len(Underway) >= 2, Underway[1].actions = <<>>,
         Underway' = Tail(Underway), Merged' = Merged, mergedFb' = mergedFb \/ mergedFb' = Merged,
         UNCHANGED <<feedbackActiveRuntime, syncId, newest, fresh, firstId, decodedFb, evicted, toMerge, display, pending, decoded,
                     merged>>
  PROVE  ReplayInv'
<1>1. TypeOK BY DEF ReplayInv, IInv
<1>2. PICK W : W = Underway OBVIOUS
<1>3. W \in Seq(Feedbacks) /\ Len(W) >= 2 /\ W # <<>> /\ W[1].actions = <<>> /\ Underway' = Tail(W)
  <2>1. W \in Seq(Feedbacks) BY <1>1, <1>2, UnderwayFacts
  <2> QED BY <1>2, <2>1
<1>4. /\ Len(Tail(W)) = Len(W) - 1 /\ Len(W) \in Nat
      /\ \A k \in 1 .. Len(Tail(W)) : Tail(W)[k] = W[k + 1] /\ k + 1 \in 1 .. Len(W)
  BY <1>3, TailFacts
<1>5. IdsOfTheirFrame'
  <2>1. InSyncOrder(W) /\ \A k \in 1 .. Len(W) : IdsFit(W[k], syncId, firstId, newest, fresh)
    BY <1>2 DEF ReplayInv, IdsOfTheirFrame
  <2>2. InSyncOrder(Tail(W)) /\ \A k \in 1 .. Len(Tail(W)) : IdsFit(Tail(W)[k], syncId, firstId, newest, fresh)
    BY <1>3, <2>1, FitsTail
  <2> QED BY <1>3, <2>2 DEF ReplayInv, IdsOfTheirFrame
<1>6. MergedIsDecoded' BY DEF ReplayInv, MergedIsDecoded
<1>7. ASSUME feedbackActiveRuntime, fresh, evicted = {} PROVE OldFindsNothing' /\ ReplayIsExact'
  <2>1. OldFindsNothing /\ ReplayIsExact BY <1>7 DEF ReplayInv
  <2>2. OldFindsNothing'
    <3>1. decodedFb = {} => mergedFb' = Blank BY <2>1, NothingMerged DEF OldFindsNothing
    <3>2. \A k \in 1 .. Len(Tail(W)) : Tail(W)[k].syncId < syncId => decodedFb = {}
      BY <1>2, <1>4, <2>1 DEF OldFindsNothing
    <3> QED BY <1>3, <3>1, <3>2 DEF OldFindsNothing
  <2>3. Replays(W, syncId, decodedFb, Merged) BY <1>2, <2>1 DEF ReplayIsExact
  <2>4. Merged = Shown(W[1], syncId) \/ \A k \in 1 .. Len(W) : k # 1 => W[k].syncId # syncId
    BY <1>2, <1>3, <1>7, DoneIsExact
  <2>5. PICK s, D, M : s = syncId /\ D = decodedFb /\ M = Merged OBVIOUS
  <2>6. /\ \A k \in 1 .. Len(W) : DecodedBefore(Tail(W), s, D, k) = DecodedBefore(W, s, D, k + 1)
        /\ Replays(Tail(W), s, D, M)
    BY <1>3, <2>3, <2>4, <2>5, ReplaysTail
  <2>7. DecodedBefore(Tail(W), s, D, Len(Tail(W)) + 1) = DecodedBefore(W, s, D, Len(W) + 1)
    <3>1. Len(Tail(W)) + 1 = Len(W) /\ Len(W) \in 1 .. Len(W) BY <1>3, <1>4
    <3> QED BY <2>6, <3>1
  <2>8. display = syncId => decoded = DecodedBefore(W, s, D, Len(W) + 1) BY <1>2, <2>1, <2>5 DEF ReplayIsExact
  <2>9. Underway' = Tail(W) /\ syncId' = s /\ decodedFb' = D /\ Merged' = M BY <1>3, <2>5
  <2>10. ReplayIsExact'
    <3>1. Replays(Underway', syncId', decodedFb', Merged') BY <2>6, <2>9
    <3>2. display' = syncId' => decoded' = DecodedBefore(Underway', syncId', decodedFb', Len(Underway') + 1)
      BY <2>7, <2>8, <2>9
    <3> QED BY <3>1, <3>2 DEF ReplayIsExact
  <2> QED BY <2>2, <2>10
<1> QED BY <1>5, <1>6, <1>7 DEF ReplayInv

LEMMA ReceivesKeepsReplay == ReplayInv /\ MachineReceives => ReplayInv'
<1> SUFFICES ASSUME ReplayInv, MachineReceives PROVE ReplayInv' OBVIOUS
<1>1. IInv /\ IInv' /\ TypeOK /\ TypeOK' BY ReceivesKeepsIInv DEF ReplayInv, IInv
<1>2. toMcrt \in Seq(Messages) /\ toMcrt # <<>> /\ toMcrt' = Tail(toMcrt) BY <1>1 DEF TypeOK, MachineReceives
<1>3. PICK msg : msg = Head(toMcrt) OBVIOUS
<1>4. msg \in Messages /\ msg # NoMessage /\ msg = toMcrt[1] BY <1>2, <1>3, TailFacts, FeedbackTypes
<1>5. /\ message = NoMessage
      /\ message' = IF msg.actions = <<>> THEN NoMessage ELSE msg
      /\ UNCHANGED <<feedbackActiveRuntime, frame, cache, lastAction, tileTbl, evicted, toMerge, mergeVars>>
  <2>1. evalProgressiveFeedbackMessage(msg) BY <1>3 DEF MachineReceives
  <2>2. message = NoMessage BY <2>1 DEF evalProgressiveFeedbackMessage, Ready
  <2>3. message' = IF msg.actions = <<>> THEN NoMessage ELSE msg
    BY <2>1, <2>2 DEF evalProgressiveFeedbackMessage
  <2> QED BY <2>1, <2>2, <2>3 DEF evalProgressiveFeedbackMessage, MachineReceives
<1>6. /\ UNCHANGED <<feedbackActiveRuntime, syncId, newest, fresh, firstId, decodedFb, mergedFb, numTile, lastAction, tileTbl, evicted,
                     toMerge, display, pending, decoded, merged, tracker, feedbackInitialized, lastSentFeedbackSyncId>>
      /\ Merged' = Merged /\ Recorded' = Recorded
  BY <1>5 DEF frame, cache, mergeVars, mergeFrame, mergeFeedback, Merged, priorActionWasMerge, Recorded, feedbackIsStarted
<1>7. Unevaluated(message, toMcrt) = toMcrt BY <1>5 DEF Unevaluated
<1>8. Underway = Append(toMcrt, Recorded) BY <1>7 DEF Underway
<1>9. EvaluationAgrees'
  <2>1. lastAction = "EOD" /\ tileTbl = {} BY <1>5 DEF ReplayInv, EvaluationAgrees
  <2> QED BY <1>6, <2>1 DEF ReplayInv, EvaluationAgrees
<1>10. CASE msg.actions = <<>>
  <2>1. Unevaluated(message', toMcrt') = Tail(toMcrt) BY <1>2, <1>5, <1>10 DEF Unevaluated
  <2>2. Underway' = Append(Tail(toMcrt), Recorded) BY <1>6, <2>1 DEF Underway
  <2>3. toMcrt \in Seq(Feedbacks) /\ Recorded \in Feedbacks BY <1>1, <1>2, FeedbackTypes, RecordedType
  <2>4. /\ Tail(Append(toMcrt, Recorded)) = Append(Tail(toMcrt), Recorded)
        /\ Len(Append(toMcrt, Recorded)) >= 2
        /\ Append(toMcrt, Recorded)[1] = toMcrt[1]
    <3>1. PICK r : r = Recorded OBVIOUS
    <3> HIDE DEF Recorded, Feedbacks
    <3> QED BY <1>2, <2>3, <3>1
  <2> QED BY <1>1, <1>4, <1>6, <1>8, <1>9, <1>10, <2>2, <2>4, DoneKeepsReplay
<1>11. CASE msg.actions # <<>>
  <2>1. Unevaluated(message', toMcrt') = <<msg>> \o Tail(toMcrt) BY <1>2, <1>4, <1>5, <1>11 DEF Unevaluated
  <2>2. <<msg>> \o Tail(toMcrt) = toMcrt BY <1>2, <1>3
  <2>3. Underway' = Underway BY <1>6, <1>8, <2>1, <2>2 DEF Underway
  <2>4. IdsOfTheirFrame' /\ MergedIsDecoded'
    BY <1>6, <2>3 DEF ReplayInv, IdsOfTheirFrame, MergedIsDecoded
  <2>5. ASSUME feedbackActiveRuntime, fresh, evicted = {} PROVE OldFindsNothing' /\ ReplayIsExact'
    BY <1>6, <2>3, <2>5 DEF ReplayInv, OldFindsNothing, ReplayIsExact
  <2> QED BY <1>1, <1>6, <1>9, <2>4, <2>5 DEF ReplayInv
<1> QED BY <1>10, <1>11

(***************************************************************************)
(* The callbacks of decodeLoop().                                          *)
(***************************************************************************)

LEMMA EodKeepsReplay == ReplayInv /\ eodFunc /\ UNCHANGED <<toMerge, toMcrt, mergeVars>> => ReplayInv'
<1> SUFFICES ASSUME ReplayInv, eodFunc, UNCHANGED <<toMerge, toMcrt, mergeVars>> PROVE ReplayInv' OBVIOUS
<1>1. IInv /\ IInv' /\ TypeOK /\ TypeOK' BY EodKeepsIInv DEF ReplayInv, IInv
<1>2. /\ message # NoMessage /\ message.actions = <<>> /\ message' = NoMessage
      /\ UNCHANGED <<feedbackActiveRuntime, syncId, newest, fresh, firstId, decodedFb, numTile, evicted,
                     toMerge, toMcrt, display, pending, decoded, merged, tracker, feedbackInitialized,
                     lastSentFeedbackSyncId>>
      /\ mergedFb' = Merged /\ lastAction' = "EOD" /\ tileTbl' = {}
  BY DEF eodFunc, frame, mergeVars, mergeFrame, mergeFeedback
<1>3. Merged' = Merged
  <2>1. Merged' = [t \in AllTiles |-> mergedFb'[t]] BY <1>2 DEF Merged
  <2>2. Merged \in [AllTiles -> SUBSET Ids] BY <1>1, MergedType
  <2>3. [t \in AllTiles |-> Merged[t]] = Merged BY <2>2
  <2> QED BY <1>2, <2>1, <2>3
<1>4. Recorded' = Recorded BY <1>2 DEF Recorded, feedbackIsStarted
<1>5. /\ Unevaluated(message', toMcrt') = toMcrt
      /\ message \in Messages /\ toMcrt \in Seq(Messages)
  BY <1>1, <1>2 DEF Unevaluated, TypeOK, MachineTypeOK
<1>6. /\ Unevaluated(message, toMcrt) \in Seq(Feedbacks)
      /\ Len(Unevaluated(message, toMcrt)) = Len(toMcrt) + 1
      /\ Unevaluated(message, toMcrt)[1] = message
      /\ Tail(Unevaluated(message, toMcrt)) = toMcrt
  BY <1>2, <1>5, UnevaluatedFacts
<1>7. Recorded \in Feedbacks BY <1>1, RecordedType
<1>8. Underway' = Tail(Underway) /\ Len(Underway) >= 2 /\ Underway[1] = message
  <2>1. PICK U : U = Unevaluated(message, toMcrt) OBVIOUS
  <2>2. PICK r : r = Recorded OBVIOUS
  <2>3. Underway = Append(U, r) /\ Underway' = Append(toMcrt, r) BY <1>4, <1>5, <2>1, <2>2 DEF Underway
  <2>4. Tail(Append(U, r)) = Append(Tail(U), r) /\ Len(Append(U, r)) >= 2 /\ Append(U, r)[1] = U[1]
    <3>1. U \in Seq(Feedbacks) /\ r \in Feedbacks /\ Len(U) = Len(toMcrt) + 1 /\ Len(toMcrt) \in Nat
      BY <1>5, <1>6, <1>7, <2>1, <2>2
    <3> HIDE DEF Feedbacks
    <3> QED BY <3>1
  <2> QED BY <1>6, <2>1, <2>3, <2>4
<1>9. EvaluationAgrees' BY <1>2 DEF ReplayInv, EvaluationAgrees
<1> QED BY <1>1, <1>2, <1>3, <1>8, <1>9, DoneKeepsReplay

(* What every callback but the last does to the replay: the head of the first feedback's
   actions is done. *)
LEMMA HeadKeepsReplay ==
  ASSUME ReplayInv, IInv', EvaluationAgrees', NEW op, Evaluating(op),
         UNCHANGED <<feedbackActiveRuntime, syncId, newest, fresh, firstId, evicted, toMerge, toMcrt, display, pending, decoded, merged,
                     tracker, feedbackInitialized, lastSentFeedbackSyncId>>,
         feedbackActiveRuntime /\ fresh /\ evicted = {} =>
           /\ decodedFb' = {} => mergedFb' = Blank
           /\ IF message.syncId = syncId
              THEN /\ decodedFb' = decodedFb \cup Head(message.actions).ids
                   /\ \A t \in AllTiles : Merged'[t] = IF Covers(Head(message.actions), NumTile[syncId], t)
                                                       THEN decodedFb' ELSE Merged[t]
              ELSE decodedFb' = decodedFb
  PROVE  ReplayInv'
<1>1. TypeOK /\ TypeOK' BY DEF ReplayInv, IInv
<1>2. /\ message # NoMessage /\ message.actions # <<>>
      /\ message' = [message EXCEPT !.actions = Tail(@)]
  BY DEF Evaluating
<1>3. message \in Messages /\ toMcrt \in Seq(Messages) BY <1>1, <1>2 DEF TypeOK, MachineTypeOK
<1>4. message.actions \in Seq(Actions) BY <1>3 DEF Messages
<1>5. /\ message'.actions = Tail(message.actions) /\ message'.syncId = message.syncId
      /\ message'.merged = message.merged /\ message' \in Messages
  <2>1. Tail(message.actions) \in Seq(Actions) BY <1>2, <1>4, TailFacts
  <2> QED BY <1>2, <1>3, <2>1 DEF Messages
<1>6. message' # NoMessage BY <1>5, FeedbackTypes
<1>7. Recorded' = Recorded /\ Recorded \in Feedbacks BY <1>1, RecordedType DEF Recorded, feedbackIsStarted
<1>8. PICK U, V, r, n, m, w :
        U = Unevaluated(message, toMcrt) /\ V = Unevaluated(message', toMcrt) /\ r = Recorded /\ n = Len(toMcrt)
        /\ m = message /\ w = message'
  OBVIOUS
<1>9. /\ U \in Seq(Feedbacks) /\ Len(U) = n + 1 /\ U[1] = m /\ \A k \in 1 .. n : U[k + 1] = toMcrt[k]
      /\ n \in Nat
  BY <1>2, <1>3, <1>8, UnevaluatedFacts
<1>10. /\ V \in Seq(Feedbacks) /\ Len(V) = n + 1 /\ V[1] = w /\ \A k \in 1 .. n : V[k + 1] = toMcrt[k]
  BY <1>3, <1>5, <1>6, <1>8, UnevaluatedFacts
<1>11. PICK W, X : W = Append(U, r) /\ X = Append(V, r) OBVIOUS
<1>12. Underway = W /\ Underway' = X BY <1>7, <1>8, <1>11 DEF Underway
<1>13. /\ W \in Seq(Feedbacks) /\ X \in Seq(Feedbacks) /\ Len(W) = n + 2 /\ Len(X) = n + 2
       /\ W[1] = m /\ X[1] = w /\ W[n + 2] = r /\ X[n + 2] = r
       /\ \A k \in 1 .. n + 1 : W[k] = U[k] /\ X[k] = V[k]
  <2>1. r \in Feedbacks BY <1>7, <1>8
  <2>2. /\ Append(U, r) \in Seq(Feedbacks) /\ Len(Append(U, r)) = (n + 1) + 1 /\ Append(U, r)[(n + 1) + 1] = r
        /\ \A k \in 1 .. n + 1 : Append(U, r)[k] = U[k]
    BY <1>9, <2>1, AppendFacts
  <2>3. /\ Append(V, r) \in Seq(Feedbacks) /\ Len(Append(V, r)) = (n + 1) + 1 /\ Append(V, r)[(n + 1) + 1] = r
        /\ \A k \in 1 .. n + 1 : Append(V, r)[k] = V[k]
    BY <1>10, <2>1, AppendFacts
  <2>4. (n + 1) + 1 = n + 2 /\ 1 \in 1 .. n + 1 BY <1>9
  <2> HIDE DEF Feedbacks
  <2> QED BY <1>9, <1>10, <1>11, <2>2, <2>3, <2>4
<1>14. \A k \in 1 .. Len(W) : k # 1 => X[k] = W[k]
  <2> TAKE k \in 1 .. Len(W)
  <2>1. CASE k = n + 2 BY <1>13, <2>1
  <2>2. CASE k # n + 2 /\ k # 1
    <3>1. k \in 1 .. n + 1 /\ k - 1 \in 1 .. n /\ (k - 1) + 1 = k BY <1>9, <1>13, <2>2
    <3>2. U[k] = toMcrt[k - 1] /\ V[k] = toMcrt[k - 1] BY <1>9, <1>10, <3>1
    <3> QED BY <1>13, <3>1, <3>2
  <2> QED BY <2>1, <2>2
<1>15. /\ X[1].syncId = W[1].syncId /\ X[1].merged = W[1].merged
       /\ W[1].actions # <<>> /\ X[1].actions = Tail(W[1].actions)
  BY <1>2, <1>5, <1>8, <1>13
<1>16. \A k \in 1 .. Len(W) : X[k].syncId = W[k].syncId
  <2> TAKE k \in 1 .. Len(W)
  <2> QED BY <1>14, <1>15
<1>17. \A i : Named(i, X[1].actions) => Named(i, W[1].actions)
  BY <1>2, <1>4, <1>8, <1>13, <1>15, NamedTail
<1>18. Len(W) = Len(X) BY <1>13
<1>19. IdsOfTheirFrame'
  <2>1. InSyncOrder(W) /\ \A k \in 1 .. Len(W) : IdsFit(W[k], syncId, firstId, newest, fresh)
    BY <1>12 DEF ReplayInv, IdsOfTheirFrame
  <2>2. InSyncOrder(X) BY <1>16, <1>18, <2>1 DEF InSyncOrder
  <2>3. ASSUME NEW k \in 1 .. Len(X) PROVE IdsFit(X[k], syncId, firstId, newest, fresh)
    <3>1. IdsFit(W[k], syncId, firstId, newest, fresh) BY <1>18, <2>1
    <3>2. CASE k = 1 BY <1>15, <1>17, <3>1, <3>2 DEF IdsFit
    <3>3. CASE k # 1 BY <1>14, <1>18, <3>1, <3>3
    <3> QED BY <3>2, <3>3
  <2> QED BY <1>12, <2>2, <2>3 DEF ReplayInv, IdsOfTheirFrame
<1>20. MergedIsDecoded' BY DEF ReplayInv, MergedIsDecoded
<1>21. ASSUME feedbackActiveRuntime, fresh, evicted = {} PROVE OldFindsNothing' /\ ReplayIsExact'
  <2>1. OldFindsNothing /\ ReplayIsExact BY <1>21 DEF ReplayInv
  <2>2. PICK s, D, M, E, N : s = syncId /\ D = decodedFb /\ M = Merged /\ E = decodedFb' /\ N = Merged' OBVIOUS
  <2>3. /\ W[1].syncId # s => E = D
        /\ W[1].syncId = s => E = D \cup Head(W[1].actions).ids
        /\ W[1].syncId = s =>
             \A t \in AllTiles : N[t] = IF Covers(Head(W[1].actions), NumTile[s], t) THEN E ELSE M[t]
    BY <1>8, <1>13, <1>21, <2>2
  <2>4. W # <<>>
    <3>1. Len(W) # 0 BY <1>9, <1>13
    <3> QED BY <3>1
  <2>5. /\ DecodedBefore(X, s, E, Len(W) + 1) = DecodedBefore(W, s, D, Len(W) + 1)
        /\ Replays(W, s, D, M) => Replays(X, s, E, N)
    <3>1. W \in Seq(Feedbacks) /\ X \in Seq(Feedbacks) /\ Len(X) = Len(W) BY <1>13
    <3>2. HeadDone(W, X, s, D, M, E, N) BY <1>14, <1>15, <2>3, <2>4, <3>1 DEF HeadDone
    <3> QED BY <3>2, ReplaysHead
  <2>6. ReplayIsExact'
    <3>1. Replays(W, s, D, M) /\ (display = s => decoded = DecodedBefore(W, s, D, Len(W) + 1))
      BY <1>12, <2>1, <2>2 DEF ReplayIsExact
    <3>2. Replays(X, s, E, N) /\ (display' = s => decoded' = DecodedBefore(X, s, E, Len(X) + 1))
      BY <1>18, <2>5, <3>1
    <3> QED BY <1>12, <2>2, <3>2 DEF ReplayIsExact
  <2>7. OldFindsNothing'
    <3>1. decodedFb' = {} => mergedFb' = Blank BY <1>21
    <3>2. ASSUME NEW k \in 1 .. Len(X), X[k].syncId < syncId PROVE decodedFb' = {}
      <4>1. W[k].syncId < syncId /\ k \in 1 .. Len(W) BY <1>16, <1>18, <3>2
      <4>2. decodedFb = {} BY <1>12, <2>1, <4>1 DEF OldFindsNothing
      <4>3. W[1].syncId <= W[k].syncId
        <5>0. 1 \in 1 .. Len(W) /\ k \in Int /\ 1 <= k BY <1>9, <1>13
        <5>1. CASE k = 1
          <6>1. W[1].syncId \in Int BY <1>1, <1>12, <5>0, UnderwayFacts
          <6> QED BY <5>1, <6>1
        <5>2. CASE k # 1
          <6>1. 1 < k BY <5>0, <5>2
          <6> QED BY <1>12, <4>1, <5>0, <6>1 DEF ReplayInv, IdsOfTheirFrame, InSyncOrder
        <5> QED BY <5>1, <5>2
      <4>4. W[1].syncId # syncId
        <5>1. W[1].syncId \in Int /\ W[k].syncId \in Int
          <6>1. 1 \in 1 .. Len(W) BY <1>9, <1>13
          <6> QED BY <1>1, <1>12, <4>1, <6>1, UnderwayFacts
        <5>2. syncId \in Int BY <1>1, Numbers
        <5> QED BY <4>1, <4>3, <5>1, <5>2
      <4> QED BY <2>2, <2>3, <4>2, <4>4
    <3> QED BY <1>12, <3>1, <3>2 DEF OldFindsNothing
  <2> QED BY <2>6, <2>7
<1> QED BY <1>19, <1>20, <1>21 DEF ReplayInv

LEMMA DecodeKeepsReplay ==
  ASSUME ReplayInv, NEW op \in DecodeOps, DecodeFunc(op), UNCHANGED <<toMerge, toMcrt, mergeVars>>
  PROVE  ReplayInv'
<1> DEFINE N == Head(message.actions).ids
           found == Found(N)
<1>1. IInv /\ IInv' /\ TypeOK BY DecodeKeepsIInv DEF ReplayInv, IInv
<1>2. /\ syncId \in Int /\ sendImageActionId \in Nat /\ firstId \in Nat /\ Ids \subseteq Nat /\ sentData \subseteq Ids
  BY <1>1, Numbers DEF TypeOK, MachineTypeOK
<1>3. /\ Evaluating(op) /\ lastAction' = op
      /\ found = sentData \cap N
      /\ decodedFb' = IF started \in found THEN found ELSE decodedFb \cup found
      /\ mergedFb' = IF started \in found THEN Blank ELSE Merged
      /\ UNCHANGED <<feedbackActiveRuntime, syncId, newest, fresh, firstId, numTile, tileTbl, evicted, toMerge, toMcrt,
                     display, pending, decoded, merged, tracker, feedbackInitialized, lastSentFeedbackSyncId>>
  BY DEF DecodeFunc, decodeItemsById, Found, MergedBefore, frame, mergeVars, mergeFrame, mergeFeedback
<1>4. /\ Head(message.actions) \in Actions /\ Head(message.actions).op = op
      /\ \A i \in N : Told(i)
      /\ message' \in Messages
  <2>1. UNCHANGED <<feedbackFb>> BY DEF DecodeFunc
  <2> QED BY <1>1, <1>3, <2>1, HeadIsDone
<1>5. N \subseteq Ids /\ Head(message.actions).tiles = {} BY <1>4 DEF Actions, MergeOps, DecodeOps
<1>6. op # "EOD" /\ op \notin MergeOps /\ op # "MERGE_ALL_TILES" BY DEF DecodeOps, MergeOps
<1>7. EvaluationAgrees'
  <2>1. message' # NoMessage BY <1>4, FeedbackTypes
  <2> QED BY <1>3, <1>6, <2>1 DEF ReplayInv, EvaluationAgrees
<1>8. \A t : ~Covers(Head(message.actions), NumTile[syncId], t) BY <1>4, <1>5, <1>6 DEF Covers
<1>9. Merged' = [t \in AllTiles |-> mergedFb'[t]] BY <1>3, <1>6 DEF Merged, priorActionWasMerge
<1>10. IdsFit(message, syncId, firstId, newest, fresh) /\ \A i \in N : Named(i, message.actions)
  <2>1. message \in Messages \cup {NoMessage} /\ message # NoMessage /\ toMcrt \in Seq(Messages)
        /\ message.actions # <<>>
    BY <1>1, <1>3 DEF TypeOK, MachineTypeOK, Evaluating
  <2>2. Unevaluated(message, toMcrt)[1] = message /\ Len(Unevaluated(message, toMcrt)) = Len(toMcrt) + 1
    BY <2>1, UnevaluatedFacts
  <2>3. Underway[1] = message /\ 1 \in 1 .. Len(Underway)
    <3>1. 1 \in 1 .. Len(Unevaluated(message, toMcrt)) BY <2>1, <2>2
    <3>2. /\ Len(Underway) = Len(Unevaluated(message, toMcrt)) + 1 /\ Len(Unevaluated(message, toMcrt)) \in Nat
          /\ \A k \in 1 .. Len(Unevaluated(message, toMcrt)) : Underway[k] = Unevaluated(message, toMcrt)[k]
      BY <1>1, UnderwayFacts
    <3> QED BY <2>2, <3>1, <3>2
  <2>4. message.actions \in Seq(Actions) BY <2>1 DEF Messages
  <2> QED BY <2>1, <2>3, <2>4, NamedTail DEF ReplayInv, IdsOfTheirFrame
<1>11. ASSUME feedbackActiveRuntime, fresh, evicted = {}
       PROVE  /\ decodedFb' = {} => mergedFb' = Blank
              /\ IF message.syncId = syncId
                 THEN /\ decodedFb' = decodedFb \cup N
                      /\ \A t \in AllTiles : Merged'[t] = IF Covers(Head(message.actions), NumTile[syncId], t)
                                                          THEN decodedFb' ELSE Merged[t]
                 ELSE decodedFb' = decodedFb
  <2>1. OldFindsNothing BY <1>11 DEF ReplayInv
  <2>2. started \in found => decodedFb = {} BY <1>1, <1>3, <1>11 DEF IInv, StartedIsFirst
  <2>3. decodedFb' = decodedFb \cup found BY <1>3, <2>2
  <2>4. decodedFb = {} => Merged = Blank BY <2>1, NothingMerged DEF OldFindsNothing
  <2>5. mergedFb' = Merged
    <3>1. CASE started \in found BY <1>3, <2>2, <2>4, <3>1
    <3>2. CASE started \notin found BY <1>3, <3>2
    <3> QED BY <3>1, <3>2
  <2>6. Merged' = Merged
    <3>1. Merged \in [AllTiles -> SUBSET Ids] BY <1>1, MergedType
    <3> QED BY <1>9, <2>5, <3>1
  <2>7. decodedFb' = {} => mergedFb' = Blank BY <2>3, <2>4, <2>5
  <2>8. sentData \cup decodedFb = firstId .. (sendImageActionId - 1) BY <1>1, <1>11 DEF IInv, FrameIsWhole
  <2>9. CASE message.syncId = syncId
    <3>1. \A i \in N : i \in Nat /\ firstId <= i BY <1>2, <1>5, <1>10, <1>11, <2>9 DEF IdsFit
    <3>2. \A i \in N : i < sendImageActionId BY <1>1, <1>4, <1>5 DEF IInv, PassedInOrder
    <3>3. N \subseteq sentData \cup decodedFb BY <1>2, <2>8, <3>1, <3>2
    <3>4. decodedFb' = decodedFb \cup N BY <1>3, <2>3, <3>3
    <3> QED BY <1>8, <2>6, <2>7, <2>9, <3>4
  <2>10. CASE message.syncId # syncId
    <3>1. \A i \in N : i \in Nat /\ i < firstId BY <1>2, <1>5, <1>10, <1>11, <2>10 DEF IdsFit
    <3>2. \A i \in sentData : i \in Nat /\ firstId <= i BY <1>2, <2>8
    <3>3. found = {}
      <4>1. ASSUME NEW i \in found PROVE FALSE
        <5>1. i \in N /\ i \in sentData BY <1>3
        <5> QED BY <1>2, <3>1, <3>2, <5>1
      <4> QED BY <4>1
    <3> QED BY <2>3, <2>7, <2>10, <3>3
  <2> QED BY <2>9, <2>10
<1> HIDE DEF found
<1> QED BY <1>1, <1>3, <1>7, <1>11, HeadKeepsReplay DEF ReplayInv

LEMMA MergeTileKeepsReplay ==
  ASSUME ReplayInv, NEW op \in MergeOps, NEW tiles \in SUBSET Nat, MergeTileFunc(op, tiles),
         tiles = IF op = "MERGE_ALL_TILES" THEN Tiles(numTile) ELSE Head(message.actions).tiles,
         UNCHANGED <<toMerge, toMcrt, mergeVars>>
  PROVE  ReplayInv'
<1>1. IInv /\ IInv' /\ TypeOK BY MergeTileKeepsIInv DEF ReplayInv, IInv
<1>2. /\ Evaluating(op) /\ lastAction' = op
      /\ tileTbl' = tiles \cup (IF priorActionWasDecode THEN {} ELSE tileTbl)
      /\ UNCHANGED <<feedbackActiveRuntime, syncId, newest, fresh, firstId, numTile, decodedFb, mergedFb, evicted, toMerge, toMcrt,
                     display, pending, decoded, merged, tracker, feedbackInitialized, lastSentFeedbackSyncId>>
  BY DEF MergeTileFunc, frame, cache, mergeVars, mergeFrame, mergeFeedback
<1>3. /\ Head(message.actions) \in Actions /\ Head(message.actions).op = op
      /\ message' \in Messages
  <2>1. UNCHANGED <<feedbackFb>> BY DEF MergeTileFunc
  <2> QED BY <1>1, <1>2, <2>1, HeadIsDone
<1>4. Head(message.actions).ids = {} BY <1>3 DEF Actions, MergeOps, DecodeOps
<1>5. op # "EOD" BY DEF MergeOps
<1>6. EvaluationAgrees'
  <2>1. message' # NoMessage BY <1>3, FeedbackTypes
  <2> QED BY <1>2, <1>5, <2>1 DEF ReplayInv, EvaluationAgrees
<1>7. \A t \in AllTiles : Merged'[t] = IF t \in tiles THEN decodedFb ELSE Merged[t]
  <2>1. Merged' = [t \in AllTiles |-> IF t \in tileTbl' THEN decodedFb ELSE mergedFb[t]]
    BY <1>2 DEF Merged, priorActionWasMerge
  <2>2. lastAction \in DecodeOps \cup MergeOps \cup {"EOD"} BY <1>1 DEF TypeOK, MachineTypeOK
  <2>3. CASE lastAction \in MergeOps
    <3>1. tileTbl' = tiles \cup tileTbl BY <1>2, <2>3 DEF priorActionWasDecode, MergeOps, DecodeOps
    <3> QED BY <2>1, <2>3, <3>1 DEF Merged, priorActionWasMerge
  <2>4. CASE lastAction \notin MergeOps
    <3>1. tileTbl' = tiles
      <4>1. lastAction = "EOD" => tileTbl = {} BY DEF ReplayInv, EvaluationAgrees
      <4> QED BY <1>2, <2>2, <2>4, <4>1 DEF priorActionWasDecode
    <3> QED BY <2>1, <2>4, <3>1 DEF Merged, priorActionWasMerge
  <2> QED BY <2>3, <2>4
<1>8. ASSUME feedbackActiveRuntime, fresh, evicted = {}
      PROVE  /\ decodedFb' = {} => mergedFb' = Blank
             /\ IF message.syncId = syncId
                THEN /\ decodedFb' = decodedFb \cup Head(message.actions).ids
                     /\ \A t \in AllTiles : Merged'[t] = IF Covers(Head(message.actions), NumTile[syncId], t)
                                                         THEN decodedFb' ELSE Merged[t]
                ELSE decodedFb' = decodedFb
  <2>1. OldFindsNothing BY <1>8 DEF ReplayInv
  <2>2. decodedFb' = {} => mergedFb' = Blank BY <1>2, <2>1 DEF OldFindsNothing
  <2>3. numTile = NumTile[syncId] BY <1>8 DEF ReplayInv, EvaluationAgrees
  <2>4. \A t : Covers(Head(message.actions), NumTile[syncId], t) <=> t \in tiles BY <1>3, <2>3 DEF Covers
  <2>5. decodedFb' = decodedFb \cup Head(message.actions).ids /\ decodedFb' = decodedFb BY <1>2, <1>4
  <2> QED BY <1>7, <2>2, <2>4, <2>5
<1> QED BY <1>1, <1>2, <1>6, <1>8, HeadKeepsReplay

LEMMA EvaluatesKeepsReplay == ReplayInv /\ MachineEvaluates => ReplayInv'
<1> SUFFICES ASSUME ReplayInv, MachineEvaluates PROVE ReplayInv' OBVIOUS
<1>1. UNCHANGED <<toMerge, toMcrt, mergeVars>> /\ decodeMessage BY DEF MachineEvaluates
<1>2. CASE decodeSingleFunc BY <1>1, <1>2, DecodeKeepsReplay DEF decodeSingleFunc, DecodeOps
<1>3. CASE decodeRangeFunc BY <1>1, <1>3, DecodeKeepsReplay DEF decodeRangeFunc, DecodeOps
<1>4. ASSUME NEW op, Evaluating(op) PROVE Head(message.actions).tiles \in SUBSET Nat
  <2>1. message \in Messages BY <1>4 DEF ReplayInv, IInv, TypeOK, MachineTypeOK, Evaluating
  <2>2. message.actions \in Seq(Actions) /\ message.actions # <<>> BY <1>4, <2>1 DEF Messages, Evaluating
  <2>3. Head(message.actions) \in Actions BY <2>2, TailFacts
  <2> QED BY <2>3 DEF Actions
<1>5. CASE mergeTileSingleFunc
  <2>1. Evaluating("MERGE_TILE_SINGLE") BY <1>5 DEF mergeTileSingleFunc, MergeTileFunc
  <2> QED BY <1>1, <1>4, <1>5, <2>1, MergeTileKeepsReplay DEF mergeTileSingleFunc, MergeOps
<1>6. CASE mergeTileRangeFunc
  <2>1. Evaluating("MERGE_TILE_RANGE") BY <1>6 DEF mergeTileRangeFunc, MergeTileFunc
  <2> QED BY <1>1, <1>4, <1>6, <2>1, MergeTileKeepsReplay DEF mergeTileRangeFunc, MergeOps
<1>7. CASE mergeAllTilesFunc
  <2>1. Tiles(numTile) \in SUBSET Nat BY DEF ReplayInv, IInv, TypeOK, MachineTypeOK, Tiles
  <2> QED BY <1>1, <1>7, <2>1, MergeTileKeepsReplay DEF mergeAllTilesFunc, MergeOps
<1>8. CASE eodFunc BY <1>1, <1>8, EodKeepsReplay
<1> QED BY <1>1, <1>2, <1>3, <1>5, <1>6, <1>7, <1>8 DEF decodeMessage

(***************************************************************************)
(* The merge.                                                              *)
(***************************************************************************)

LEMMA NewFrameKeepsReplay ==
  ASSUME ReplayInv, IInv', NEW s \in SyncIds, NEW ids, NewFrame(s, ids), UNCHANGED <<machineVars, toMcrt>>,
         fresh => /\ \A k \in 1 .. Len(toMerge') : toMerge'[k].syncId = syncId => firstId <= toMerge'[k].id
                  /\ s = syncId => \A i \in ids : firstId <= i
  PROVE  ReplayInv'
<1>1. TypeOK /\ TypeOK' BY DEF ReplayInv, IInv
<1>2. syncId \in Int /\ display \in Int /\ s \in Int BY <1>1, Numbers, SyncIdFacts
<1>3. /\ display' = s /\ display < s
      /\ pending' = ids /\ decoded' = {} /\ merged' = Blank /\ tracker' = <<>>
      /\ UNCHANGED <<feedbackActiveRuntime, syncId, newest, fresh, firstId, decodedFb, mergedFb, numTile, lastAction, tileTbl, evicted,
                     message, toMcrt>>
  BY <1>2 DEF NewFrame, machineVars, frame, cache, evaluation
<1>4. PICK U, n, W, X, r : /\ U = Unevaluated(message, toMcrt) /\ n = Len(U) /\ W = Underway
                           /\ X = Underway' /\ r = Recorded'
  OBVIOUS
<1>5. /\ U \in Seq(Feedbacks) /\ n \in Nat /\ W \in Seq(Feedbacks) /\ Len(W) = n + 1 /\ W[n + 1] = Recorded
      /\ \A k \in 1 .. n : W[k] = U[k]
      /\ \A k \in 1 .. Len(W) : W[k].syncId \in Int
  BY <1>1, <1>4, UnderwayFacts
<1>6. r \in Feedbacks /\ r.syncId = s /\ r.actions = <<>> /\ r.merged = Blank
  <2>1. Recorded' \in Feedbacks
    <3>1. feedbackInitialized' \in BOOLEAN /\ lastSentFeedbackSyncId' \in Nat BY <1>1 DEF TypeOK
    <3>2. feedbackIsStarted' \in BOOLEAN BY <3>1 DEF feedbackIsStarted
    <3>3. display' \in SyncIds \cup {UNDEFINED} /\ tracker' \in Seq(Actions) /\ merged' \in [AllTiles -> SUBSET Ids]
      BY <1>1 DEF TypeOK
    <3> QED BY <3>2, <3>3 DEF Feedbacks, Recorded
  <2> QED BY <1>3, <1>4, <2>1 DEF Recorded
<1>7. X = Append(U, r) BY <1>3, <1>4 DEF Underway
<1>8. /\ X \in Seq(Feedbacks) /\ Len(X) = n + 1 /\ X[n + 1] = r /\ \A k \in 1 .. n : X[k] = U[k]
  BY <1>4, <1>5, <1>6, <1>7, AppendFacts
<1>9. \A k \in 1 .. n : X[k] = W[k] BY <1>5, <1>8
<1>10. \A k \in 1 .. Len(X) : k = n + 1 \/ k \in 1 .. n BY <1>5, <1>8
<1>11. \A k \in 1 .. n : W[k].syncId <= display /\ W[k].syncId \in Int
  <2> TAKE k \in 1 .. n
  <2>1. k \in 1 .. Len(W) /\ n + 1 \in 1 .. Len(W) /\ k < n + 1 BY <1>5
  <2>2. W[k].syncId <= W[n + 1].syncId BY <1>4, <2>1 DEF ReplayInv, IdsOfTheirFrame, InSyncOrder
  <2> QED BY <1>5, <2>1, <2>2 DEF Recorded
<1>12. IdsOfTheirFrame'
  <2>1. InSyncOrder(X)
    <3> SUFFICES ASSUME NEW k \in 1 .. Len(X), NEW l \in 1 .. Len(X), k < l PROVE X[k].syncId <= X[l].syncId
      BY DEF InSyncOrder
    <3>1. k \in 1 .. n BY <1>5, <1>8
    <3>2. CASE l = n + 1 BY <1>2, <1>3, <1>6, <1>8, <1>9, <1>11, <3>1, <3>2
    <3>3. CASE l \in 1 .. n
      <4>1. k \in 1 .. Len(W) /\ l \in 1 .. Len(W) BY <1>5, <3>1, <3>3
      <4>2. W[k].syncId <= W[l].syncId BY <1>4, <4>1 DEF ReplayInv, IdsOfTheirFrame, InSyncOrder
      <4> QED BY <1>9, <3>1, <3>3, <4>2
    <3> QED BY <1>10, <3>2, <3>3
  <2>2. ASSUME NEW k \in 1 .. Len(X) PROVE IdsFit(X[k], syncId, firstId, newest, fresh)
    <3>1. CASE k = n + 1
      <4>1. \A i : ~Named(i, <<>>) BY DEF Named
      <4> QED BY <1>6, <1>8, <3>1, <4>1 DEF IdsFit
    <3>2. CASE k \in 1 .. n
      <4>1. k \in 1 .. Len(W) BY <1>5, <3>2
      <4> QED BY <1>4, <1>9, <3>2, <4>1 DEF ReplayInv, IdsOfTheirFrame
    <3> QED BY <1>10, <3>1, <3>2
  <2> QED BY <1>3, <1>4, <2>1, <2>2 DEF IdsOfTheirFrame
<1>13. MergedIsDecoded' BY <1>3 DEF MergedIsDecoded, Blank
<1>14. EvaluationAgrees' BY <1>3 DEF ReplayInv, EvaluationAgrees
<1>15. ASSUME feedbackActiveRuntime, fresh, evicted = {} PROVE OldFindsNothing' /\ ReplayIsExact'
  <2>1. OldFindsNothing /\ ReplayIsExact BY <1>15 DEF ReplayInv
  <2>2. display < syncId => decodedFb = {}
    <3>1. n + 1 \in 1 .. Len(W) /\ W[n + 1].syncId = display BY <1>5 DEF Recorded
    <3> QED BY <1>4, <2>1, <3>1 DEF OldFindsNothing
  <2>3. OldFindsNothing'
    <3>1. ASSUME NEW k \in 1 .. Len(X), X[k].syncId < syncId PROVE decodedFb = {}
      <4>1. CASE k = n + 1 BY <1>2, <1>3, <1>6, <1>8, <2>2, <3>1, <4>1
      <4>2. CASE k \in 1 .. n
        <5>1. k \in 1 .. Len(W) /\ W[k].syncId < syncId BY <1>5, <1>9, <3>1, <4>2
        <5> QED BY <1>4, <2>1, <5>1 DEF OldFindsNothing
      <4> QED BY <1>10, <4>1, <4>2
    <3>2. decodedFb = {} => mergedFb = Blank BY <2>1 DEF OldFindsNothing
    <3> QED BY <1>3, <1>4, <3>1, <3>2 DEF OldFindsNothing
  <2>4. Merged' = Merged BY <1>3 DEF Merged, priorActionWasMerge
  <2>5. PICK c, D, M : c = syncId /\ D = decodedFb /\ M = Merged OBVIOUS
  <2>6. CASE s = syncId
    <3>1. D = {} /\ M = Blank
      <4>1. decodedFb = {} /\ mergedFb = Blank BY <1>2, <1>3, <2>1, <2>2, <2>6 DEF OldFindsNothing
      <4> QED BY <2>5, <4>1, NothingMerged
    <3>2. \A k \in 1 .. Len(X) : X[k].syncId = c => X[k].merged = Blank /\ \A i \in Ids : ~Named(i, X[k].actions)
      <4> SUFFICES ASSUME NEW k \in 1 .. Len(X), X[k].syncId = c
                   PROVE  X[k].merged = Blank /\ \A i \in Ids : ~Named(i, X[k].actions)
        OBVIOUS
      <4>1. k = n + 1
        <5>1. SUFFICES ASSUME k \in 1 .. n PROVE FALSE BY <1>10
        <5>2. W[k].syncId <= display /\ W[k].syncId \in Int /\ X[k] = W[k] BY <1>9, <1>11, <5>1
        <5> QED BY <1>2, <1>3, <2>5, <2>6, <5>2
      <4>2. \A i : ~Named(i, <<>>) BY DEF Named
      <4> QED BY <1>6, <1>8, <4>1, <4>2
    <3>3. Replays(X, c, {}, Blank) /\ \A k \in 1 .. Len(X) + 1 : DecodedBefore(X, c, {}, k) = {}
      BY <1>8, <3>2, ReplaysBlank
    <3>4. Len(X) + 1 \in 1 .. Len(X) + 1 BY <1>5, <1>8
    <3>5. Replays(X, c, D, M) /\ decoded' = DecodedBefore(X, c, D, Len(X) + 1) BY <1>3, <3>1, <3>3, <3>4
    <3>6. Underway' = X /\ syncId' = c /\ decodedFb' = D /\ Merged' = M BY <1>3, <1>4, <2>4, <2>5
    <3>7. Replays(Underway', syncId', decodedFb', Merged')
          /\ decoded' = DecodedBefore(Underway', syncId', decodedFb', Len(Underway') + 1)
      BY <3>5, <3>6
    <3> QED BY <2>3, <3>7 DEF ReplayIsExact
  <2>7. CASE s # syncId
    <3>1. X[n + 1].syncId # c BY <1>6, <1>8, <2>5, <2>7
    <3>2. Replays(W, c, D, M) BY <1>4, <2>1, <2>5 DEF ReplayIsExact
    <3>3. Replays(X, c, D, M)
      <4>1. LastReplaced(W, X, n, c, D, M) BY <1>5, <1>8, <1>9, <3>1 DEF LastReplaced
      <4> QED BY <3>2, <4>1, ReplaysLast
    <3>4. Underway' = X /\ syncId' = c /\ decodedFb' = D /\ Merged' = M BY <1>3, <1>4, <2>4, <2>5
    <3>5. Replays(Underway', syncId', decodedFb', Merged') BY <3>3, <3>4
    <3>6. display' # syncId' BY <1>3, <2>7
    <3> QED BY <2>3, <3>5, <3>6 DEF ReplayIsExact
  <2> QED BY <2>3, <2>6, <2>7
<1> QED BY <1>3, <1>12, <1>13, <1>14, <1>15 DEF ReplayInv

LEMMA OtherKeepsReplay == ReplayInv /\ OtherMachine => ReplayInv'
<1> SUFFICES ASSUME ReplayInv, OtherMachine PROVE ReplayInv' OBVIOUS
<1>1. IInv' BY OtherKeepsIInv DEF ReplayInv
<1>2. PICK s \in SyncIds : NewFrame(s, {}) BY DEF OtherMachine
<1>3. UNCHANGED <<machineVars, toMcrt, toMerge>> BY DEF OtherMachine
<1>4. fresh => \A k \in 1 .. Len(toMerge') : toMerge'[k].syncId = syncId => firstId <= toMerge'[k].id
  BY <1>3 DEF ReplayInv, IdsOfTheirFrame
<1>5. PICK ids : ids = {} OBVIOUS
<1>6. NewFrame(s, ids) /\ \A i \in ids : firstId <= i BY <1>2, <1>5
<1> QED BY <1>1, <1>3, <1>4, <1>6, NewFrameKeepsReplay

LEMMA MergeReceivesKeepsReplay == ReplayInv /\ MergeReceives => ReplayInv'
<1> SUFFICES ASSUME ReplayInv, MergeReceives PROVE ReplayInv' OBVIOUS
<1>1. IInv /\ IInv' /\ TypeOK BY MergeReceivesKeepsIInv DEF ReplayInv, IInv
<1>2. /\ toMerge \in Seq([id : Ids, syncId : SyncIds]) /\ toMerge # <<>> /\ toMerge' = Tail(toMerge)
      /\ UNCHANGED <<machineVars, toMcrt>>
  BY <1>1 DEF TypeOK, MergeReceives
<1>3. PICK msg : msg = Head(toMerge) OBVIOUS
<1>4. /\ msg = toMerge[1] /\ msg.syncId \in SyncIds /\ 1 \in 1 .. Len(toMerge)
      /\ \A k \in 1 .. Len(toMerge') : toMerge'[k] = toMerge[k + 1] /\ k + 1 \in 1 .. Len(toMerge)
  <2> DEFINE R == [id : Ids, syncId : SyncIds]
  <2>1. toMerge \in Seq(R) BY <1>2
  <2>2. msg = toMerge[1] /\ msg \in R /\ 1 \in 1 .. Len(toMerge)
        /\ \A k \in 1 .. Len(toMerge') : toMerge'[k] = toMerge[k + 1] /\ k + 1 \in 1 .. Len(toMerge)
    <3> HIDE DEF R
    <3> QED BY <1>2, <1>3, <2>1, TailFacts
  <2> QED BY <2>2
<1>5. fresh /\ msg.syncId = syncId => firstId <= msg.id BY <1>4 DEF ReplayInv, IdsOfTheirFrame
<1>6. fresh => \A k \in 1 .. Len(toMerge') : toMerge'[k].syncId = syncId => firstId <= toMerge'[k].id
  BY <1>4 DEF ReplayInv, IdsOfTheirFrame
<1>7. \/ NewFrame(msg.syncId, {msg.id})
      \/ /\ msg.syncId = display
         /\ pending' = pending \cup {msg.id}
         /\ UNCHANGED <<display, frameFeedbackActive, decoded, merged, tracker, mergeFeedback>>
      \/ /\ msg.syncId < display
         /\ UNCHANGED <<mergeFrame, mergeFeedback>>
  BY <1>3 DEF MergeReceives
<1>8. CASE NewFrame(msg.syncId, {msg.id})
  <2>1. PICK ids : ids = {msg.id} OBVIOUS
  <2>2. NewFrame(msg.syncId, ids) /\ (fresh /\ msg.syncId = syncId => \A i \in ids : firstId <= i) BY <1>5, <1>8, <2>1
  <2> QED BY <1>1, <1>2, <1>4, <1>6, <2>2, NewFrameKeepsReplay
<1>9. ASSUME \/ /\ msg.syncId = display
                /\ pending' = pending \cup {msg.id}
                /\ UNCHANGED <<display, frameFeedbackActive, decoded, merged, tracker, mergeFeedback>>
             \/ /\ msg.syncId < display
                /\ UNCHANGED <<mergeFrame, mergeFeedback>>
      PROVE  ReplayInv'
  <2>1. UNCHANGED <<display, decoded, merged, tracker, feedbackInitialized, lastSentFeedbackSyncId,
                    feedbackActiveRuntime, syncId, newest, fresh, firstId, decodedFb, mergedFb, numTile, lastAction, tileTbl, evicted,
                    message, toMcrt>>
    BY <1>2, <1>9 DEF mergeFrame, mergeFeedback, machineVars, frame, cache, evaluation
  <2>2. Underway' = Underway BY <2>1 DEF Underway, Recorded, feedbackIsStarted
  <2>3. fresh' /\ display' = syncId' => \A i \in pending' : firstId' <= i
    BY <1>5, <1>9, <2>1 DEF ReplayInv, IdsOfTheirFrame, mergeFrame
  <2>4. IdsOfTheirFrame' BY <1>6, <2>1, <2>2, <2>3 DEF ReplayInv, IdsOfTheirFrame
  <2>5. MergedIsDecoded' /\ EvaluationAgrees' BY <2>1 DEF ReplayInv, MergedIsDecoded, EvaluationAgrees
  <2>6. ASSUME feedbackActiveRuntime, fresh, evicted = {} PROVE OldFindsNothing' /\ ReplayIsExact'
    <3>1. Merged' = Merged BY <2>1 DEF Merged, priorActionWasMerge
    <3> QED BY <2>1, <2>2, <2>6, <3>1 DEF ReplayInv, OldFindsNothing, ReplayIsExact
  <2> QED BY <1>1, <2>1, <2>4, <2>5, <2>6 DEF ReplayInv
<1> QED BY <1>7, <1>8, <1>9

LEMMA NamedAppend ==
  ASSUME NEW A \in Seq(Actions), NEW a \in Actions
  PROVE  Append(A, a) \in Seq(Actions) /\ \A i : Named(i, Append(A, a)) <=> Named(i, A) \/ i \in a.ids
<1>1. PICK B, m : B = Append(A, a) /\ m = Len(A) OBVIOUS
<1>2. /\ B \in Seq(Actions) /\ m \in Nat /\ Len(B) = m + 1 /\ B[m + 1] = a
      /\ \A k \in 1 .. m : B[k] = A[k]
  BY <1>1, AppendFacts
<1>3. m + 1 \in 1 .. m + 1 /\ \A k \in 1 .. m + 1 : k = m + 1 \/ k \in 1 .. m BY <1>2
<1>4. \A k \in 1 .. m : k \in 1 .. m + 1 BY <1>2
<1> QED BY <1>1, <1>2, <1>3, <1>4 DEF Named

LEMMA DecodedNext ==
  ASSUME NEW w, NEW s, NEW D, NEW k \in Nat, k >= 1
  PROVE  DecodedBefore(w, s, D, k + 1) =
           DecodedBefore(w, s, D, k) \cup (IF w[k].syncId = s THEN {i \in Ids : Named(i, w[k].actions)} ELSE {})
<1>1. \A l \in 1 .. (k + 1) - 1 : l = k \/ l \in 1 .. k - 1 OBVIOUS
<1>2. k \in 1 .. (k + 1) - 1 /\ \A l \in 1 .. k - 1 : l \in 1 .. (k + 1) - 1 OBVIOUS
<1> QED BY <1>1, <1>2 DEF DecodedBefore

(* Feedback that the merge keeps or sends: it names in L what it had noted and what it
   decodes now, and gives the tiles merged now. *)
LEMMA RecordsKeepsReplay ==
  ASSUME ReplayInv, IInv', Ready, display \in SyncIds, NEW L \in Seq(Actions), FeedbackIfDue(L),
         \A i : Named(i, L) <=> Noted(i) \/ i \in pending,
         decoded' = decoded \cup pending, pending' = {}, \A t \in AllTiles : merged'[t] \subseteq decoded',
         feedbackActiveRuntime /\ fresh /\ evicted = {} /\ display = syncId =>
           \A t \in AllTiles :
             Gives(L, NumTile[syncId], DecodedBefore(Underway, syncId, decodedFb, Len(Underway)),
                   ShownBefore(Underway, syncId, Merged, Len(Underway))[t], t, merged'[t]),
         UNCHANGED <<machineVars, toMerge, display, frameFeedbackActive>>
  PROVE  ReplayInv'
<1>1. IInv /\ TypeOK /\ TypeOK' BY DEF ReplayInv, IInv
<1>2. syncId \in Int /\ display \in Int /\ newest \in Int /\ firstId \in Nat BY <1>1, Numbers
<1>3. UNCHANGED <<feedbackActiveRuntime, syncId, newest, fresh, firstId, decodedFb, mergedFb, numTile, lastAction, tileTbl, evicted,
                  message, toMerge, display>>
  BY DEF machineVars, frame, cache, evaluation
<1>4. message = NoMessage BY DEF Ready
<1>5. PICK U, n, W, D, M, c, X : /\ U = toMcrt /\ n = Len(U) /\ W = Underway /\ D = decodedFb /\ M = Merged
                                 /\ c = syncId /\ X = Underway'
  OBVIOUS
<1>6. Unevaluated(message, toMcrt) = U BY <1>4, <1>5 DEF Unevaluated
<1>7. /\ U \in Seq(Feedbacks) /\ n \in Nat /\ W \in Seq(Feedbacks) /\ Len(W) = n + 1 /\ W[n + 1] = Recorded
      /\ \A k \in 1 .. n : W[k] = U[k]
      /\ \A k \in 1 .. Len(W) : W[k].syncId \in Int
  BY <1>1, <1>5, <1>6, UnderwayFacts
<1>8. Recorded' \in Feedbacks
  <2>1. feedbackInitialized' \in BOOLEAN /\ lastSentFeedbackSyncId' \in Nat BY <1>1 DEF TypeOK
  <2>2. feedbackIsStarted' \in BOOLEAN BY <2>1 DEF feedbackIsStarted
  <2>3. display' \in SyncIds \cup {UNDEFINED} /\ tracker' \in Seq(Actions) /\ merged' \in [AllTiles -> SUBSET Ids]
    BY <1>1 DEF TypeOK
  <2> QED BY <2>2, <2>3 DEF Feedbacks, Recorded
<1>9. PICK q, r : /\ r = Recorded'
                  /\ q = [syncId |-> display, isStarted |-> feedbackIsStarted, actions |-> L, merged |-> merged']
  OBVIOUS
<1>10. /\ q \in Feedbacks /\ q.syncId = display /\ q.actions = L /\ q.merged = merged'
       /\ r \in Feedbacks /\ r.syncId = display /\ r.merged = merged'
  <2>1. feedbackIsStarted \in BOOLEAN BY <1>1 DEF feedbackIsStarted, TypeOK
  <2>2. merged' \in [AllTiles -> SUBSET Ids] BY <1>1 DEF TypeOK
  <2> QED BY <1>3, <1>8, <1>9, <2>1, <2>2 DEF Feedbacks, Recorded
(* What is under way but for the new or longer feedback at its end. *)
<1>11. PICK V : V = Append(U, q) OBVIOUS
<1>12. /\ V \in Seq(Feedbacks) /\ Len(V) = n + 1 /\ V[n + 1] = q /\ \A k \in 1 .. n : V[k] = U[k]
  BY <1>5, <1>7, <1>10, <1>11, AppendFacts
<1>13. \A k \in 1 .. n : V[k] = W[k] BY <1>7, <1>12
<1>14. \A k \in 1 .. n + 1 : V[k].syncId = W[k].syncId
  <2> TAKE k \in 1 .. n + 1
  <2>1. W[n + 1].syncId = display BY <1>7 DEF Recorded
  <2>2. CASE k = n + 1 BY <1>10, <1>12, <2>1, <2>2
  <2>3. CASE k \in 1 .. n BY <1>13, <2>3
  <2> QED BY <1>7, <2>2, <2>3
<1>15. InSyncOrder(V)
  <2>1. InSyncOrder(W) BY <1>5 DEF ReplayInv, IdsOfTheirFrame
  <2> QED BY <1>7, <1>12, <1>14, <2>1 DEF InSyncOrder
<1>16. display > newest => merged' = Blank /\ \A i \in Ids : ~Named(i, L)
  <2> SUFFICES ASSUME display > newest PROVE merged' = Blank /\ \A i \in Ids : ~Named(i, L) OBVIOUS
  <2>0. \A i \in Ids : ~Named(i, L) BY <1>1 DEF IInv, AheadIsEmpty
  <2>1. decoded' = {} BY <1>1 DEF IInv, AheadIsEmpty
  <2>2. merged' \in [AllTiles -> SUBSET Ids] BY <1>1 DEF TypeOK
  <2>3. \A t \in AllTiles : merged'[t] = {} BY <2>1
  <2> QED BY <2>0, <2>2, <2>3 DEF Blank
<1>17. \A k \in 1 .. Len(W) : IdsFit(W[k], syncId, firstId, newest, fresh) BY <1>5 DEF ReplayInv, IdsOfTheirFrame
<1>18. IdsFit(q, syncId, firstId, newest, fresh)
  <2>1. ASSUME fresh, NEW i \in Ids, Named(i, L)
        PROVE  IF display = syncId THEN firstId <= i ELSE display < syncId /\ i < firstId
    <3>1. CASE Noted(i)
      <4>1. n + 1 \in 1 .. Len(W) BY <1>7
      <4>2. Recorded.syncId = display /\ Named(i, Recorded.actions) BY <3>1 DEF Recorded, Noted
      <4> QED BY <1>7, <1>17, <2>1, <4>1, <4>2 DEF IdsFit
    <3>2. CASE i \in pending
      <4>1. display = syncId => firstId <= i BY <2>1, <3>2 DEF ReplayInv, IdsOfTheirFrame
      <4>2. display <= syncId
        <5>1. ~(display > newest) /\ syncId = newest BY <1>1, <2>1, <3>2 DEF IInv, AheadIsEmpty, SendingFollows
        <5> QED BY <1>2, <5>1
      <4>3. i \in firstId .. (MaxImages - 1) => display = syncId BY <1>1, <3>2 DEF IInv, ToldIsDecoded
      <4>4. i \in Int /\ i <= MaxImages - 1 BY DEF Ids
      <4> QED BY <1>2, <4>1, <4>2, <4>3, <4>4
    <3> QED BY <2>1, <3>1, <3>2
  <2> QED BY <1>10, <1>16, <2>1 DEF IdsFit
<1>19. ASSUME NEW k \in 1 .. n + 1 PROVE IdsFit(V[k], syncId, firstId, newest, fresh)
  <2>1. CASE k = n + 1 BY <1>12, <1>18, <2>1
  <2>2. CASE k \in 1 .. n BY <1>7, <1>13, <1>17, <2>2
  <2> QED BY <1>7, <2>1, <2>2
<1>20. ASSUME feedbackActiveRuntime, fresh, evicted = {}
       PROVE  /\ decodedFb = {} => mergedFb = Blank
              /\ \A k \in 1 .. n + 1 : V[k].syncId < syncId => decodedFb = {}
              /\ Replays(V, c, D, M)
              /\ display = c => decoded' = DecodedBefore(V, c, D, n + 2)
  <2>1. OldFindsNothing /\ ReplayIsExact BY <1>20 DEF ReplayInv
  <2>2. \A k \in 1 .. n + 1 : V[k].syncId < syncId => decodedFb = {}
    BY <1>5, <1>7, <1>14, <2>1 DEF OldFindsNothing
  <2>3. display = c => \A t \in AllTiles :
          Gives(V[n + 1].actions, NumTile[c], DecodedBefore(W, c, D, n + 1), ShownBefore(W, c, M, n + 1)[t], t,
                V[n + 1].merged[t])
    BY <1>5, <1>7, <1>10, <1>12, <1>20
  <2>4. V[n + 1].syncId = c => display = c BY <1>10, <1>12
  <2>5. Replays(W, c, D, M) BY <1>5, <2>1 DEF ReplayIsExact
  <2>6. /\ \A k \in 1 .. n + 1 : DecodedBefore(V, c, D, k) = DecodedBefore(W, c, D, k)
        /\ Replays(V, c, D, M)
    <3>1. V[n + 1].syncId = c => \A t \in AllTiles :
            Gives(V[n + 1].actions, NumTile[c], DecodedBefore(W, c, D, n + 1), ShownBefore(W, c, M, n + 1)[t], t,
                  V[n + 1].merged[t])
      BY <2>3, <2>4
    <3>2. LastReplaced(W, V, n, c, D, M) BY <1>7, <1>12, <1>13, <3>1 DEF LastReplaced
    <3> QED BY <2>5, <3>2, ReplaysLast
  <2>7. ASSUME display = c PROVE decoded' = DecodedBefore(V, c, D, n + 2)
    <3>1. n + 1 \in Nat /\ n + 1 >= 1 /\ (n + 1) + 1 = n + 2 /\ n + 1 \in 1 .. n + 1 BY <1>7
    <3>2. DecodedBefore(V, c, D, n + 2) = DecodedBefore(V, c, D, n + 1) \cup {i \in Ids : Named(i, V[n + 1].actions)}
      <4>1. V[n + 1].syncId = c BY <1>10, <1>12, <2>7
      <4> QED BY <3>1, <4>1, DecodedNext
    <3>3. DecodedBefore(W, c, D, n + 2) = DecodedBefore(W, c, D, n + 1) \cup {i \in Ids : Named(i, W[n + 1].actions)}
      <4>1. W[n + 1].syncId = c BY <1>7, <2>7 DEF Recorded
      <4> QED BY <3>1, <4>1, DecodedNext
    <3>4. {i \in Ids : Named(i, W[n + 1].actions)} = {i \in Ids : Noted(i)} BY <1>7 DEF Recorded, Noted
    <3>5. {i \in Ids : Named(i, V[n + 1].actions)} = {i \in Ids : Noted(i)} \cup pending
      <4>1. pending \subseteq Ids BY <1>1 DEF TypeOK
      <4> QED BY <1>10, <1>12, <4>1
    <3>6. decoded = DecodedBefore(W, c, D, n + 2)
      <4>1. Len(W) + 1 = n + 2 BY <1>7
      <4> QED BY <1>5, <2>1, <2>7, <4>1 DEF ReplayIsExact
    <3>7. DecodedBefore(V, c, D, n + 1) = DecodedBefore(W, c, D, n + 1) BY <2>6, <3>1
    <3> QED BY <3>2, <3>3, <3>4, <3>5, <3>6, <3>7
  <2>8. decodedFb = {} => mergedFb = Blank BY <2>1 DEF OldFindsNothing
  <2> QED BY <2>2, <2>6, <2>7, <2>8
<1>21. MergedIsDecoded' BY DEF MergedIsDecoded
<1>22. EvaluationAgrees' BY <1>3 DEF ReplayInv, EvaluationAgrees
<1>23. Merged' = Merged BY <1>3 DEF Merged, priorActionWasMerge
<1>24. newest' = newest /\ fresh' = fresh /\ syncId' = c /\ decodedFb' = D /\ Merged' = M /\ Underway' = X /\ firstId' = firstId /\ display' = display
  BY <1>3, <1>5, <1>23
<1>25. ASSUME X \in Seq(Feedbacks), InSyncOrder(X), \A k \in 1 .. Len(X) : IdsFit(X[k], c, firstId, newest, fresh),
              feedbackActiveRuntime /\ fresh /\ evicted = {} =>
                /\ \A k \in 1 .. Len(X) : X[k].syncId < c => decodedFb = {}
                /\ Replays(X, c, D, M)
                /\ display = c => decoded' = DecodedBefore(X, c, D, Len(X) + 1)
       PROVE  ReplayInv'
  <2>1. IdsOfTheirFrame'
    <3>1. InSyncOrder(Underway') /\ \A k \in 1 .. Len(Underway') : IdsFit(Underway'[k], syncId', firstId', newest', fresh')
      BY <1>24, <1>25
    <3>2. fresh' => \A k \in 1 .. Len(toMerge') : toMerge'[k].syncId = syncId' => firstId' <= toMerge'[k].id
      BY <1>3 DEF ReplayInv, IdsOfTheirFrame
    <3>3. \A i \in pending' : firstId' <= i OBVIOUS
    <3> QED BY <3>1, <3>2, <3>3 DEF IdsOfTheirFrame
  <2>2. ASSUME feedbackActiveRuntime, fresh, evicted = {} PROVE OldFindsNothing' /\ ReplayIsExact'
    <3>1. decodedFb' = {} => mergedFb' = Blank BY <1>3, <1>20, <2>2
    <3>2. \A k \in 1 .. Len(Underway') : Underway'[k].syncId < syncId' => decodedFb' = {}
      BY <1>3, <1>5, <1>24, <1>25, <2>2
    <3>3. OldFindsNothing' BY <3>1, <3>2 DEF OldFindsNothing
    <3>4. Replays(Underway', syncId', decodedFb', Merged') BY <1>24, <1>25, <2>2
    <3>5. display' = syncId' => decoded' = DecodedBefore(Underway', syncId', decodedFb', Len(Underway') + 1)
      BY <1>24, <1>25, <2>2
    <3> QED BY <3>3, <3>4, <3>5 DEF ReplayIsExact
  <2> QED BY <1>3, <1>21, <1>22, <2>1, <2>2 DEF ReplayInv
<1>26. CASE processFeedback(L)
  <2>1. toMcrt' = Append(U, q) /\ tracker' = <<>> BY <1>5, <1>9, <1>26 DEF processFeedback
  <2>2. X = Append(V, r)
    <3>1. Unevaluated(message', toMcrt') = toMcrt' BY <1>3, <1>4 DEF Unevaluated
    <3> QED BY <1>5, <1>9, <1>11, <2>1, <3>1 DEF Underway
  <2>3. r.actions = <<>> BY <1>9, <2>1 DEF Recorded
  <2>4. /\ X \in Seq(Feedbacks) /\ Len(X) = n + 2 /\ X[n + 2] = r /\ \A k \in 1 .. n + 1 : X[k] = V[k]
    <3>1. /\ Append(V, r) \in Seq(Feedbacks) /\ Len(Append(V, r)) = (n + 1) + 1 /\ Append(V, r)[(n + 1) + 1] = r
          /\ \A k \in 1 .. n + 1 : Append(V, r)[k] = V[k]
      BY <1>10, <1>12, AppendFacts
    <3>2. (n + 1) + 1 = n + 2 BY <1>7
    <3> QED BY <2>2, <3>1, <3>2
  <2>5. \A k \in 1 .. Len(X) : k = n + 2 \/ k \in 1 .. n + 1 BY <1>7, <2>4
  <2>6. r.syncId = V[n + 1].syncId BY <1>10, <1>12
  <2>7. InSyncOrder(X)
    <3> SUFFICES ASSUME NEW k \in 1 .. Len(X), NEW l \in 1 .. Len(X), k < l PROVE X[k].syncId <= X[l].syncId
      BY DEF InSyncOrder
    <3>1. k \in 1 .. n + 1 BY <1>7, <2>4
    <3>2. CASE l \in 1 .. n + 1 BY <1>12, <1>15, <2>4, <3>1, <3>2 DEF InSyncOrder
    <3>3. CASE l = n + 2
      <4>1. CASE k = n + 1 BY <1>2, <1>10, <1>12, <2>4, <2>6, <3>1, <3>3, <4>1
      <4>2. CASE k # n + 1
        <5>1. n + 1 \in 1 .. Len(V) /\ k \in 1 .. Len(V) /\ k < n + 1 BY <1>7, <1>12, <3>1, <4>2
        <5>2. V[k].syncId <= V[n + 1].syncId BY <1>15, <5>1 DEF InSyncOrder
        <5> QED BY <2>4, <2>6, <3>1, <3>3, <5>2
      <4> QED BY <4>1, <4>2
    <3> QED BY <2>5, <3>2, <3>3
  <2>8. \A k \in 1 .. Len(X) : IdsFit(X[k], c, firstId, newest, fresh)
    <3>1. IdsFit(r, c, firstId, newest, fresh)
      <4>1. \A i : ~Named(i, <<>>) BY DEF Named
      <4> QED BY <1>5, <1>10, <1>16, <2>3, <4>1 DEF IdsFit
    <3> QED BY <1>5, <1>19, <2>4, <2>5, <3>1
  <2>9. ASSUME feedbackActiveRuntime, fresh, evicted = {}
        PROVE  /\ \A k \in 1 .. Len(X) : X[k].syncId < c => decodedFb = {}
               /\ Replays(X, c, D, M)
               /\ display = c => decoded' = DecodedBefore(X, c, D, Len(X) + 1)
    <3>1. \A k \in 1 .. Len(X) : X[k].syncId < c => decodedFb = {}
      <4> TAKE k \in 1 .. Len(X)
      <4>1. CASE k = n + 2
        <5>1. n + 1 \in 1 .. n + 1 BY <1>7
        <5> QED BY <1>5, <1>20, <2>4, <2>6, <2>9, <4>1, <5>1
      <4>2. CASE k \in 1 .. n + 1 BY <1>5, <1>20, <2>4, <2>9, <4>2
      <4> QED BY <2>5, <4>1, <4>2
    <3>2. V # <<>>
      <4>1. Len(V) # 0 BY <1>7, <1>12
      <4> QED BY <4>1
    <3>3. r.syncId = c => r.merged = Shown(V[Len(V)], c) BY <1>10, <1>12 DEF Shown
    <3>4. /\ DecodedBefore(Append(V, r), c, D, Len(V) + 2) = DecodedBefore(V, c, D, Len(V) + 1)
          /\ Replays(V, c, D, M) => Replays(Append(V, r), c, D, M)
      <4>1. V \in Seq(Feedbacks) /\ r \in Feedbacks BY <1>10, <1>12
      <4> HIDE DEF Feedbacks
      <4> QED BY <2>3, <3>2, <3>3, <4>1, ReplaysAppend
    <3>5. Len(V) + 2 = Len(X) + 1 /\ Len(V) + 1 = n + 2 BY <1>7, <1>12, <2>4
    <3> QED BY <1>20, <2>2, <2>9, <3>1, <3>4, <3>5
  <2> QED BY <1>25, <2>4, <2>7, <2>8, <2>9
<1>27. CASE toMcrt' = toMcrt /\ tracker' = L /\ UNCHANGED mergeFeedback
  <2>1. feedbackIsStarted' = feedbackIsStarted BY <1>3, <1>27 DEF feedbackIsStarted, mergeFeedback
  <2>2. Recorded' = q BY <1>3, <1>9, <1>27, <2>1 DEF Recorded
  <2>3. X = V
    <3>1. Unevaluated(message', toMcrt') = toMcrt' BY <1>3, <1>4 DEF Unevaluated
    <3> QED BY <1>5, <1>11, <1>27, <2>2, <3>1 DEF Underway
  <2>4. Len(X) + 1 = n + 2 /\ Len(X) = n + 1 BY <1>7, <1>12, <2>3
  <2>5. \A k \in 1 .. Len(X) : IdsFit(X[k], c, firstId, newest, fresh) BY <1>5, <1>19, <2>3, <2>4
  <2>6. feedbackActiveRuntime /\ fresh /\ evicted = {} =>
          /\ \A k \in 1 .. Len(X) : X[k].syncId < c => decodedFb = {}
          /\ Replays(X, c, D, M)
          /\ display = c => decoded' = DecodedBefore(X, c, D, Len(X) + 1)
    BY <1>5, <1>20, <2>3, <2>4
  <2> QED BY <1>12, <1>15, <1>25, <2>3, <2>5, <2>6
<1> QED BY <1>26, <1>27 DEF FeedbackIfDue

LEMMA MergeSendsKeepsReplay == ReplayInv /\ MergeSends => ReplayInv'
<1> SUFFICES ASSUME ReplayInv, MergeSends PROVE ReplayInv' OBVIOUS
<1>1. IInv /\ IInv' /\ TypeOK /\ TypeOK' BY MergeSendsKeepsIInv DEF ReplayInv, IInv
<1>2. /\ Ready /\ frameFeedbackActive
      /\ decoded' = decoded \cup pending /\ pending' = {}
      /\ UNCHANGED <<machineVars, toMerge, display, frameFeedbackActive>>
  BY DEF MergeSends
<1>3. display \in SyncIds BY <1>1, <1>2 DEF IInv, SendingFollows, TypeOK
<1>4. PICK first \in Tiles(NumTile[display]), last \in Tiles(NumTile[display]), op \in MergeOps :
        /\ Encodes(op, first .. last)
        /\ merged' = [t \in AllTiles |-> IF t \in first .. last THEN decoded' ELSE merged[t]]
        /\ \/ FeedbackIfDue(tracker \o Decodes \o Merges(op, first .. last))
           \/ decoded' = {} /\ FeedbackIfDue(tracker)
  BY DEF MergeSends
<1>5. tracker \in Seq(Actions) /\ \A i : Named(i, tracker) <=> Noted(i) BY <1>1 DEF TypeOK, Noted
<1>6. \A t \in AllTiles : merged[t] \subseteq decoded BY DEF ReplayInv, MergedIsDecoded
<1>7. \A t \in AllTiles : merged'[t] \subseteq decoded' BY <1>2, <1>4, <1>6
(* What is under way is exact so far. *)
<1>8. PICK n, D, M : n = NumTile[syncId] /\ D = DecodedBefore(Underway, syncId, decodedFb, Len(Underway))
                     /\ M = ShownBefore(Underway, syncId, Merged, Len(Underway))
  OBVIOUS
<1>9. ASSUME feedbackActiveRuntime, fresh, evicted = {}, display = syncId
      PROVE  /\ \A t \in AllTiles : Gives(tracker, n, D, M[t], t, merged[t])
             /\ decoded = D \cup {i \in Ids : Noted(i)}
  <2>1. ReplayIsExact BY <1>9 DEF ReplayInv
  <2>2. PICK m : m = Len(Underway) OBVIOUS
  <2>3. m \in Nat /\ m >= 1 /\ m \in 1 .. Len(Underway) /\ Underway[m] = Recorded
    <3>1. PICK k : k = Len(Unevaluated(message, toMcrt)) OBVIOUS
    <3>2. k \in Nat /\ Len(Underway) = k + 1 /\ Underway[k + 1] = Recorded BY <1>1, <3>1, UnderwayFacts
    <3> QED BY <2>2, <3>2
  <2>4. Recorded.syncId = syncId /\ Recorded.actions = tracker /\ Recorded.merged = merged BY <1>9 DEF Recorded
  <2>5. \A t \in AllTiles : Gives(tracker, n, D, M[t], t, merged[t])
    BY <1>8, <2>1, <2>2, <2>3, <2>4 DEF ReplayIsExact, Replays
  <2>6. decoded = DecodedBefore(Underway, syncId, decodedFb, m + 1) BY <1>9, <2>1, <2>2 DEF ReplayIsExact
  <2>7. DecodedBefore(Underway, syncId, decodedFb, m + 1) = D \cup {i \in Ids : Named(i, tracker)}
    BY <1>8, <2>2, <2>3, <2>4, DecodedNext
  <2> QED BY <1>5, <2>5, <2>6, <2>7
<1>10. CASE decoded' = {} /\ FeedbackIfDue(tracker)
  <2>1. pending = {} BY <1>2, <1>10
  <2>2. \A t \in AllTiles : merged'[t] = merged[t] BY <1>4, <1>6, <1>7, <1>10, <1>2
  <2>3. PICK L : L = tracker OBVIOUS
  <2>4. L \in Seq(Actions) /\ FeedbackIfDue(L) /\ \A i : Named(i, L) <=> Noted(i) \/ i \in pending
    BY <1>5, <1>10, <2>1, <2>3
  <2>5. feedbackActiveRuntime /\ fresh /\ evicted = {} /\ display = syncId =>
          \A t \in AllTiles : Gives(L, n, D, M[t], t, merged'[t])
    BY <1>9, <2>2, <2>3
  <2> QED BY <1>1, <1>2, <1>3, <1>7, <1>8, <2>4, <2>5, RecordsKeepsReplay
<1>11. CASE FeedbackIfDue(tracker \o Decodes \o Merges(op, first .. last))
  <2> DEFINE decode == [op |-> IF Cardinality(pending) = 1 THEN "DECODE_SINGLE" ELSE "DECODE_RANGE",
                        ids |-> pending, tiles |-> {}]
             merge == [op |-> op, ids |-> {}, tiles |-> IF op = "MERGE_ALL_TILES" THEN {} ELSE first .. last]
  <2>1. decode \in Actions /\ decode.ids = pending /\ decode.op \in DecodeOps /\ decode.tiles = {}
    <3>1. pending \in SUBSET Ids BY <1>1 DEF TypeOK
    <3>2. decode.op \in DecodeOps BY DEF DecodeOps
    <3> QED BY <3>1, <3>2 DEF Actions
  <2>2. Decodes = (IF pending = {} THEN <<>> ELSE <<decode>>) BY DEF Decodes
  <2>3. merge \in Actions /\ merge.ids = {} /\ merge.op = op
        /\ merge.tiles = IF op = "MERGE_ALL_TILES" THEN {} ELSE first .. last
    <3>1. first .. last \subseteq Nat BY <1>3, <1>4 DEF Tiles
    <3>2. merge.tiles \in SUBSET Nat /\ merge.op \in MergeOps /\ merge.ids \in {{}} BY <3>1
    <3> QED BY <3>2 DEF Actions
  <2>4. Merges(op, first .. last) = <<merge>> BY DEF Merges
  <2> HIDE DEF decode, merge
  <2>5. PICK B, L, a : /\ B = (IF pending = {} THEN tracker ELSE Append(tracker, decode))
                       /\ L = Append(B, a) /\ a = merge
    OBVIOUS
  <2>6. B \in Seq(Actions) /\ B = tracker \o Decodes
    <3>1. CASE pending = {} BY <1>5, <2>2, <2>5, <3>1
    <3>2. CASE pending # {}
      <4>1. Append(tracker, decode) = tracker \o <<decode>> /\ Append(tracker, decode) \in Seq(Actions)
        <5> HIDE DEF Actions
        <5> QED BY <1>5, <2>1
      <4> QED BY <2>2, <2>5, <3>2, <4>1
    <3> QED BY <3>1, <3>2
  <2>7. L = tracker \o Decodes \o Merges(op, first .. last)
    <3>1. Append(B, a) = B \o <<a>>
      <4> HIDE DEF Actions
      <4> QED BY <2>3, <2>5, <2>6
    <3> QED BY <2>4, <2>5, <2>6, <3>1
  <2>8. FeedbackIfDue(L) BY <1>11, <2>7
  <2>9. \A i : Named(i, B) <=> Noted(i) \/ i \in pending
    <3>1. CASE pending = {} BY <1>5, <2>5, <3>1
    <3>2. CASE pending # {} BY <1>5, <2>1, <2>5, <3>2, NamedAppend
    <3> QED BY <3>1, <3>2
  <2>10. L \in Seq(Actions) /\ \A i : Named(i, L) <=> Noted(i) \/ i \in pending
    BY <2>3, <2>5, <2>6, <2>9, NamedAppend
  <2>11. ASSUME feedbackActiveRuntime, fresh, evicted = {}, display = syncId, NEW t \in AllTiles
         PROVE  Gives(L, n, D, M[t], t, merged'[t])
    <3>1. Gives(tracker, n, D, M[t], t, merged[t]) /\ decoded = D \cup {i \in Ids : Noted(i)} BY <1>9, <2>11
    <3>2. Gives(B, n, D, M[t], t, merged[t])
      <4>1. CASE pending = {} BY <2>5, <3>1, <4>1
      <4>2. CASE pending # {}
        <5>1. ~Covers(decode, n, t) BY <2>1 DEF Covers, DecodeOps
        <5>2. Gives(Append(tracker, decode), n, D, M[t], t,
                    IF Covers(decode, n, t) THEN D \cup {i \in Ids : Named(i, tracker)} \cup decode.ids ELSE merged[t])
          BY <1>5, <2>1, <3>1, GivesAppend
        <5> QED BY <2>5, <4>2, <5>1, <5>2
      <4> QED BY <4>1, <4>2
    <3>3. decoded' = D \cup {i \in Ids : Named(i, B)} \cup a.ids
      <4>1. pending \subseteq Ids BY <1>1 DEF TypeOK
      <4>2. a.ids = {} BY <2>3, <2>5
      <4> QED BY <1>2, <2>9, <3>1, <4>1, <4>2
    <3>4. Covers(a, n, t) <=> t \in first .. last
      <4>1. CASE op = "MERGE_ALL_TILES"
        <5>1. first .. last = Tiles(n) BY <1>4, <1>8, <2>11, <4>1 DEF Encodes
        <5> QED BY <2>3, <2>5, <4>1, <5>1 DEF Covers
      <4>2. CASE op # "MERGE_ALL_TILES" BY <2>3, <2>5, <4>2 DEF Covers
      <4> QED BY <4>1, <4>2
    <3>5. Gives(Append(B, a), n, D, M[t], t,
                IF Covers(a, n, t) THEN D \cup {i \in Ids : Named(i, B)} \cup a.ids ELSE merged[t])
      <4>1. a \in Actions BY <2>3, <2>5
      <4> QED BY <2>6, <3>2, <4>1, GivesAppend
    <3>6. merged'[t] = IF Covers(a, n, t) THEN D \cup {i \in Ids : Named(i, B)} \cup a.ids ELSE merged[t]
      BY <1>4, <3>3, <3>4
    <3> QED BY <2>5, <3>5, <3>6
  <2> QED BY <1>1, <1>2, <1>3, <1>7, <1>8, <2>8, <2>10, <2>11, RecordsKeepsReplay
<1> QED BY <1>4, <1>10, <1>11

LEMMA StutterKeepsReplay == ReplayInv /\ UNCHANGED vars => ReplayInv'
<1> SUFFICES ASSUME ReplayInv, UNCHANGED vars PROVE ReplayInv' OBVIOUS
<1>1. IInv' BY StutterKeepsIInv DEF ReplayInv
<1>2. UNCHANGED <<display, decoded, merged, tracker, pending, feedbackInitialized, lastSentFeedbackSyncId,
                  feedbackActiveRuntime, syncId, newest, fresh, firstId, decodedFb, mergedFb, numTile, lastAction, tileTbl, evicted,
                  message, toMcrt, toMerge>>
  BY DEF vars, mergeVars, mergeFrame, mergeFeedback, machineVars, frame, cache, evaluation
<1>3. Underway' = Underway BY <1>2 DEF Underway, Recorded, feedbackIsStarted
<1>4. Merged' = Merged BY <1>2 DEF Merged, priorActionWasMerge
<1>5. IdsOfTheirFrame' /\ MergedIsDecoded' /\ EvaluationAgrees'
  BY <1>2, <1>3 DEF ReplayInv, IdsOfTheirFrame, MergedIsDecoded, EvaluationAgrees
<1>6. ASSUME feedbackActiveRuntime, fresh, evicted = {} PROVE OldFindsNothing' /\ ReplayIsExact'
  BY <1>2, <1>3, <1>4, <1>6 DEF ReplayInv, OldFindsNothing, ReplayIsExact
<1> QED BY <1>1, <1>2, <1>5, <1>6 DEF ReplayInv

LEMMA InitReplay == Init => ReplayInv
<1> SUFFICES ASSUME Init PROVE ReplayInv OBVIOUS
<1>1. IInv BY InitIInv
<1>2. TypeOK BY <1>1 DEF IInv
<1>3. /\ message = NoMessage /\ toMcrt = <<>> /\ toMerge = <<>> /\ display = UNDEFINED /\ syncId = UNDEFINED
      /\ firstId = 0 /\ pending = {} /\ merged = Blank /\ tracker = <<>> /\ lastAction = "EOD" /\ tileTbl = {}
      /\ feedbackActiveRuntime = FALSE
  BY DEF Init, MachineInit
<1>4. Underway = Append(<<>>, Recorded) BY <1>3 DEF Underway, Unevaluated
<1>5. Recorded \in Feedbacks BY <1>2, RecordedType
<1>6. PICK W, r : W = Underway /\ r = Recorded OBVIOUS
<1>7. Len(W) = 1 /\ W[1] = r BY <1>4, <1>6
<1>8. \A k \in 1 .. Len(W) : k = 1 BY <1>7
<1>9. InSyncOrder(W) BY <1>8 DEF InSyncOrder
<1>10. r.syncId = UNDEFINED /\ r.actions = <<>> /\ r.merged = Blank BY <1>3, <1>6 DEF Recorded
<1>11. IdsFit(r, syncId, firstId, newest, fresh) BY <1>3, <1>10 DEF IdsFit, Named
<1>12. IdsOfTheirFrame
  <2>1. \A k \in 1 .. Len(W) : IdsFit(W[k], syncId, firstId, newest, fresh) BY <1>7, <1>8, <1>11
  <2> QED BY <1>3, <1>6, <1>9, <2>1 DEF IdsOfTheirFrame
<1>13. MergedIsDecoded BY <1>3 DEF MergedIsDecoded, Blank
<1>14. EvaluationAgrees BY <1>3 DEF EvaluationAgrees
<1> QED BY <1>1, <1>3, <1>12, <1>13, <1>14 DEF ReplayInv

(***************************************************************************)
(* What is under way to a machine replays to what the merge had, from the  *)
(* machine's mDecodedFb and merged tiles on, in every reachable state.     *)
THEOREM ReplayInvariance == Spec => []ReplayInv
<1>1. ReplayInv /\ [Next]_vars => ReplayInv'
  BY StartsKeepsReplay, SendsKeepsReplay, ReceivesKeepsReplay, EvaluatesKeepsReplay, OtherKeepsReplay,
     MergeReceivesKeepsReplay, MergeSendsKeepsReplay, StutterKeepsReplay
  DEF Next
<1> QED BY InitReplay, <1>1, PTL DEF Spec

(* Only the end of data ends an evaluation. *)
LEMMA OnlyEodEnds ==
  ASSUME TypeOK, Next, message # NoMessage, message' = NoMessage
  PROVE  eodFunc
<1>1. message \in Messages BY DEF TypeOK, MachineTypeOK
<1>2. [message EXCEPT !.actions = Tail(@)] # NoMessage
  <2>0. PICK m : m = [message EXCEPT !.actions = Tail(@)] OBVIOUS
  <2>1. m.syncId = message.syncId BY <1>1, <2>0 DEF Messages
  <2>2. message.syncId \in Int /\ message.syncId >= 0 BY <1>1, SyncIdFacts DEF Messages
  <2>3. NoMessage.syncId = -1 BY DEF NoMessage, UNDEFINED
  <2>4. m # NoMessage BY <2>1, <2>2, <2>3
  <2> QED BY <2>0, <2>4
<1>3. ~Ready BY DEF Ready
<1>4. decodeMessage
  BY <1>3
  DEF Next, MachineEvaluates, MachineSends, MachineReceives, MachineStarts, OtherMachine, MergeReceives, MergeSends,
      SendImage, SendImageAnew, Sending, evalProgressiveFeedbackMessage, startFrame
<1>5. \A op : ~Evaluating(op) BY <1>2 DEF Evaluating
<1> QED
  BY <1>4, <1>5
  DEF decodeMessage, decodeSingleFunc, decodeRangeFunc, DecodeFunc, mergeTileSingleFunc, mergeTileRangeFunc,
      mergeAllTilesFunc, MergeTileFunc

(* When the evaluation of a feedback of the current frame is at its end, mMergedFb is
   tile by tile what the merge had in its image of this machine when it sent it. *)
THEOREM ReplayedExactly == Spec => MinusOneIsExact
<1> DEFINE Exact == message # NoMessage /\ message' = NoMessage /\ ~outOfTable'
                      /\ message.syncId = syncId /\ fresh /\ feedbackActiveRuntime /\ evicted = {}
                    => mergedFb' = message.merged
<1>1. ReplayInv /\ [Next]_vars => [Exact]_vars
  <2> SUFFICES ASSUME ReplayInv, Next, message # NoMessage, message' = NoMessage, message.syncId = syncId,
                      feedbackActiveRuntime, fresh, evicted = {}
               PROVE  mergedFb' = message.merged
    OBVIOUS
  <2>1. TypeOK BY DEF ReplayInv, IInv
  <2>2. eodFunc BY <2>1, OnlyEodEnds
  <2>3. mergedFb' = Merged /\ message.actions = <<>> BY <2>2 DEF eodFunc
  <2>4. Underway # <<>> /\ Underway[1] = message
    <3>1. PICK U, W : U = Unevaluated(message, toMcrt) /\ W = Underway OBVIOUS
    <3>2. Len(U) \in Nat /\ Len(W) = Len(U) + 1 /\ (\A k \in 1 .. Len(U) : W[k] = U[k])
          /\ message \in Messages \cup {NoMessage} /\ toMcrt \in Seq(Messages)
      BY <2>1, <3>1, UnderwayFacts
    <3>3. Len(U) = Len(toMcrt) + 1 /\ U[1] = message BY <3>1, <3>2, UnevaluatedFacts
    <3>4. Len(toMcrt) \in Nat BY <3>2
    <3>5. 1 \in 1 .. Len(U) /\ Len(W) # 0 BY <3>2, <3>3, <3>4
    <3> QED BY <3>1, <3>2, <3>3, <3>5
  <2>5. Merged = Underway[1].merged BY <2>3, <2>4, FrameDoneIsExact
  <2> QED BY <2>3, <2>4, <2>5
<1> QED BY ReplayInvariance, <1>1, PTL DEF Spec, MinusOneIsExact
===============================================================================
