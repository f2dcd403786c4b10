----------------------------- MODULE RenderSession -----------------------------
(***************************************************************************)
(* Several progmcrt computations and the merge computation, frame by       *)
(* frame.                                                                  *)
(*                                                                         *)
(* A machine renders the frames it is told to and may leave some out.  It  *)
(* may begin a frame again under the sync id it has (INVALIDATE_RESOURCES, *)
(* and ROI, VIEWPORT and START messages, the second in another size), and  *)
(* an RDL message may take it back to an older id.  What it sends is       *)
(* handled by the merge in the order it was sent, machine by machine; a    *)
(* machine whose messages are slow is a machine that lags.  The other way, *)
(* a completion waits in toMcrt[m] until machine m handles it, perhaps     *)
(* frames later.                                                           *)
(***************************************************************************)
EXTENDS ProgMcrtMergeComputation

CONSTANTS
  MaxProgress,     (* what one machine can contribute to a frame             *)
  MaxOwed,         (* bound: credits owed by the client                      *)
  MaxRestarts      (* bound: frames begun under an id that is not newer, for *)
                   (* each initial credit                                    *)

ASSUME SessionAssumption ==
  MaxProgress \in Nat /\ MaxOwed \in Nat /\ MaxRestarts \in [InitialCredits -> Nat]

VARIABLES
  mcrt,            (* what each machine renders and has sent of it           *)
  reached,         (* history: ids under which the total progress was enough *)
  restarts         (* history: frames begun under an id that is not newer    *)

session == <<mcrt, reached, restarts>>
vars == <<mergeVars, session>>

(* syncId is mSyncId; stop is requestStopRenderAtPassBoundary(). *)
IDLE == [syncId |-> UNDEFINED, status |-> "NONE", progress |-> 0, stop |-> FALSE]
States == [syncId : Ids, status : Statuses, progress : Nat, stop : BOOLEAN]

Init ==
  /\ MergeInit
  /\ mcrt = [m \in Machines |-> IDLE]
  /\ reached = {}
  /\ restarts = 0

TypeOK ==
  /\ MergeTypeOK
  /\ mcrt \in [Machines -> States]
  /\ reached \subseteq Ids
  /\ restarts \in Nat

(***************************************************************************)
(* A machine sends.                                                        *)
(***************************************************************************)

(* Bound: messages that may go out uncharged wait for the client. *)
Bounded == owed' > owed => owed' <= MaxOwed

(* sendProgressiveFrameMessage() with machine m in the given state.  The size is one
   that frames of this id begin in; which one m began in is not kept, for the merge
   looks at it in the first message of a frame only. *)
Sends(m, state) ==
  /\ mcrt' = [mcrt EXCEPT ![m] = state]
  /\ \E viewport \in ViewportsOf[state.syncId], forceUpdate \in BOOLEAN :
       onProgressiveFrame([machine |-> m, syncId |-> state.syncId, viewport |-> viewport,
                           status |-> state.status, progress |-> state.progress],
                          forceUpdate)
  /\ Bounded
  /\ reached' = IF Total' >= Target THEN reached \cup {display'} ELSE reached

(* What startFrame() leaves: stopFrame() has ended the frame before, and the new one
   has no progress and no request to stop, whatever its id. *)
Begun(syncId) == [syncId |-> syncId, status |-> "STARTED", progress |-> 0, stop |-> FALSE]

(* A frame begins, with a newer id as a rule. *)
Begins(m, syncId) ==
  \/ syncId > mcrt[m].syncId /\ UNCHANGED restarts
  \/ syncId <= mcrt[m].syncId /\ restarts < MaxRestarts[initialCredit] /\ restarts' = restarts + 1

(* The first image of a frame, whose id need not be newer than that of the last; a
   frame that is over by then is FINISHED instead of STARTED. *)
FirstImage(m) ==
  \E syncId \in SyncIds :
    /\ Begins(m, syncId)
    /\ \/ Sends(m, Begun(syncId))
       \/ Sends(m, [Begun(syncId) EXCEPT !.status = "FINISHED", !.progress = MaxProgress])

(* An image while rendering.  Progress stays below MaxProgress: a frame that
   adaptive sampling keeps going is ended by the merge only. *)
NextImage(m) ==
  /\ mcrt[m].status \in {"STARTED", "RENDERING"}
  /\ ~mcrt[m].stop
  /\ \E progress \in {mcrt[m].progress, mcrt[m].progress + 1} :
       /\ progress < MaxProgress
       /\ Sends(m, [mcrt[m] EXCEPT !.status = "RENDERING", !.progress = progress])
  /\ UNCHANGED restarts

(* isFrameComplete() or isFrameCompleteAtPassBoundary() *)
LastImage(m) ==
  /\ mcrt[m].status \in {"STARTED", "RENDERING"}
  /\ Sends(m, [mcrt[m] EXCEPT !.status = "FINISHED",
                              !.progress = IF mcrt[m].stop THEN @ ELSE MaxProgress])
  /\ UNCHANGED restarts

(***************************************************************************)
(* A machine handles a completion.                                         *)
(***************************************************************************)

(* Faulty variant: the sync id is not compared. *)
StopsAny(m) ==
  /\ toMcrt[m] # <<>>
  /\ mcrt[m].status \in {"STARTED", "RENDERING"}

(* evalRenderCompleteMultiMachine(): syncId and isFrameRendering() *)
Stops(m) ==
  /\ toMcrt[m] # <<>>
  /\ Head(toMcrt[m]) = mcrt[m].syncId
  /\ mcrt[m].status \in {"STARTED", "RENDERING"}

evalRenderCompleteMultiMachine(m) ==
  /\ toMcrt[m] # <<>>
  /\ toMcrt' = [toMcrt EXCEPT ![m] = Tail(@)]
  /\ mcrt' = [mcrt EXCEPT ![m].stop = @ \/ Stops(m)]
  /\ UNCHANGED <<config, frames, hasProgressiveFrame, recv, sent, flow, packetDue,
                 lastCompleteSyncId, completed, image, starved, reached, restarts>>

(***************************************************************************)
(* The session.                                                            *)
(***************************************************************************)

MergeStep ==
  \/ onIdle
  \/ IdleInfo /\ Bounded
  \/ onCreditUpdate
  \/ PacketTimer

Next ==
  \/ \E m \in Machines :
       FirstImage(m) \/ NextImage(m) \/ LastImage(m) \/ evalRenderCompleteMultiMachine(m)
  \/ MergeStep /\ UNCHANGED session

Spec == Init /\ [][Next]_vars

(* onIdle() is called again and again; the timer runs; a machine that renders
   ends its frame when it is asked to, and handles what it receives.  Nothing
   obliges the client to return credit. *)
FairSpec ==
  /\ Spec
  /\ WF_vars(onIdle /\ UNCHANGED session)
  /\ WF_vars(PacketTimer /\ UNCHANGED session)
  /\ \A m \in Machines :
       /\ WF_vars(NextImage(m))
       /\ WF_vars(mcrt[m].stop /\ LastImage(m))
       /\ WF_vars(evalRenderCompleteMultiMachine(m))

(***************************************************************************)
(* Properties.                                                             *)
(***************************************************************************)

(* The images the client gets, the merged ones and the quick updates that pass by
   onIdle(), never go back to an older frame, whichever machine lags, began first or
   went back itself; and each has a size in which frames of its id were begun: the
   size of the frame, unless it was begun again in another one. *)
ShownInOrder ==
  [][image' # image => /\ image'.syncId >= image.syncId
                       /\ image'.viewport \in ViewportsOf[image'.syncId]]_vars

(* sendCompleteToMcrt() announces the completion of a frame once, and never that of
   a frame older than one that was completed before. *)
CompletedOnce ==
  \A i, j \in 1 .. Len(completed) : i < j => completed[i] < completed[j]

(* A machine is stopped at a pass boundary only in a frame with an id under which all
   machines together have reached the target: a completion that arrives late, when the
   machine has gone on to another id or back to one, does not end that frame.  The code
   compares ids and no more: a frame begun again under its id may be stopped by the
   completion of the first, and the property lets it. *)
NoFrameIsCutShort ==
  \A m \in Machines : mcrt[m].stop => mcrt[m].syncId \in reached

(* No credit gets lost between the merge and the client, and none is made: what is
   not in mCredit is owed by the client, whether a message was charged or not. *)
CreditNeverLeaks ==
  enabled => /\ credit \in 0 .. initialCredit
             /\ credit + owed >= initialCredit

(* The last image has it all: nothing has come since that is not in it. *)
LastImageShown == image.syncId = display /\ image.status = "FINISHED" /\ ~received

(* When every machine has finished the frame on display the client gets its FINISHED
   image with all they sent, if credit allowed all images until then and no machine
   begins that frame again or a newer one. *)
LastImageIsShown == AllFinished ~> (~AllFinished \/ LastImageShown \/ starved)

Renders(m) == mcrt[m].syncId = display /\ mcrt[m].status = "RENDERING"

(* When the machines have reached the target together, one that is rendering on is told
   so and stops, if credit allowed all images and nobody begins the frame again.  It has
   to be at it before the completion is announced: one that comes later is not told. *)
OvershootIsStopped ==
  \A m \in Machines :
    (Total >= Target /\ lastCompleteSyncId # display /\ Renders(m))
      ~> (Total < Target \/ ~Renders(m) \/ starved)

(***************************************************************************)
(* The inductive invariant: what is on display, which frame the sizes were *)
(* set for, which completions were announced and which are on their way    *)
(* agree.                                                                  *)
(***************************************************************************)

ViewportFollows == display # UNDEFINED => rezedViewport \in ViewportsOf[display]
QuickUpdateFollows == ~parallelInitialFrame => currActiveRecvSyncId = display
ReceivedIsOnDisplay == received => display # UNDEFINED
NeverAhead == image.syncId <= display /\ lastCompleteSyncId <= display
LastIsNewest == \A i \in 1 .. Len(completed) : completed[i] <= lastCompleteSyncId
BegunIsNumbered ==
  \A m \in Machines : mcrt[m].status # "NONE" => mcrt[m].syncId \in SyncIds
TargetIsNoted == received /\ Total >= Target => display \in reached
CompletionsAreDue == \A m \in Machines : \A i \in 1 .. Len(toMcrt[m]) : toMcrt[m][i] \in reached

IInv ==
  /\ TypeOK
  /\ ViewportFollows /\ QuickUpdateFollows /\ ReceivedIsOnDisplay
  /\ NeverAhead /\ LastIsNewest /\ CompletedOnce
  /\ BegunIsNumbered /\ TargetIsNoted /\ CompletionsAreDue /\ NoFrameIsCutShort
  /\ CreditNeverLeaks
===============================================================================
