-------------------------- MODULE ProgMcrtComputation --------------------------
(***************************************************************************)
(* computation/progmcrt/ProgMcrtComputation.cc: when the computation may   *)
(* send, and when it handles what it receives.                             *)
(*                                                                         *)
(* Two threads step.  The arras thread runs onMessage() and onIdle(); the  *)
(* heartbeat thread of the driver sends info-only messages through the     *)
(* sendInfoOnly callback.  Both charge mCredit, a plain int, while holding *)
(* the driver's mMutexSendAction; onCreditUpdate() adds to it without.     *)
(* The merge computation returns one CreditUpdate for each message.        *)
(*                                                                         *)
(* ForceRenderStart defers all later messages until an image is sent;      *)
(* processDeferredMessage() handles them from within that send.  What a    *)
(* message does to the driver is not modelled here, only that it is        *)
(* handled: an UPDATE stands for every message but CreditUpdate and        *)
(* ForceRenderStart.                                                       *)
(***************************************************************************)
EXTENDS Integers, Sequences

CONSTANTS
  InitialCredits,  (* the values of the config item initialCredit tried      *)
  MaxCredit,       (* bound: credit and messages owing one, for the heartbeat *)
  MaxMsgs          (* bound: UPDATE and FORCE_START messages received        *)

ASSUME CreditAssumption ==
  /\ InitialCredits \subseteq Int
  /\ MaxCredit \in Int
  /\ MaxMsgs \in Nat

VARIABLES
  initialCredit,     (* mInitialCredit                                       *)
  credit,            (* mCredit                                              *)
  onMessageCache,    (* mOnMessageCache                                      *)
  deferredMsgQueue,  (* mDeferredMsgQueue                                    *)
  sendAction,        (* who holds mMutexSendAction                           *)
  apc, areg,         (* arras thread: where it is, the mCredit it has loaded *)
  hpc, hreg,         (* heartbeat thread: likewise                           *)
  owed,              (* history: messages whose credit has not been applied  *)
  returning,         (* of these, the ones the merge has yet to answer       *)
  uncharged,         (* history: messages sent at credit 0, until torn       *)
  torn,              (* history: an update of mCredit was overwritten        *)
  received,          (* history: UPDATEs and FORCE_STARTs received           *)
  handled            (* history: the number of the last one handled          *)

queue == <<onMessageCache, deferredMsgQueue>>
flow == <<owed, returning, uncharged>>
msgs == <<received, handled>>
vars == <<initialCredit, credit, queue, sendAction, apc, areg, hpc, hreg, flow,
          torn, msgs>>

Message == [type : {"CREDIT"}, id : {0}]
             \cup [type : {"UPDATE", "FORCE_START"}, id : 1 .. MaxMsgs]
CreditUpdate == [type |-> "CREDIT", id |-> 0]

Init ==
  /\ initialCredit \in InitialCredits
  /\ credit = initialCredit
  /\ onMessageCache = FALSE
  /\ deferredMsgQueue = <<>>
  /\ sendAction = "free"
  /\ apc = "idle" /\ areg = 0
  /\ hpc = "idle" /\ hreg = 0
  /\ owed = 0 /\ returning = 0 /\ uncharged = 0
  /\ torn = FALSE
  /\ received = 0 /\ handled = 0

enabled == initialCredit >= 0

(* A message goes out; with rate control off nobody counts. *)
Sent ==
  IF enabled
  THEN owed' = owed + 1 /\ returning' = returning + 1
  ELSE UNCHANGED <<owed, returning>>

Free == uncharged' = IF enabled /\ ~torn THEN uncharged + 1 ELSE uncharged

(* Faulty variant: the image is not charged. *)
ChargeNothing == UNCHANGED <<credit, uncharged>>

(* if (mCredit > 0) mCredit--, by the arras thread: only the heartbeat thread
   writes besides, and it waits for the mutex. *)
Charge ==
  IF credit > 0
  THEN credit' = credit - 1 /\ UNCHANGED uncharged
  ELSE Free /\ UNCHANGED credit

(* Bound: sending without a charge, or before it, ends here. *)
Bounded == enabled => credit + owed < MaxCredit

(***************************************************************************)
(* onMessage().                                                            *)
(***************************************************************************)

(* onMessageMain(), save for CreditUpdate. *)
Handle(m) ==
  /\ onMessageCache' = (onMessageCache \/ m.type = "FORCE_START")
  /\ handled' = m.id

(* onMessage(): in deferred mode a message waits, whatever it is. *)
Arrives(m) ==
  IF onMessageCache
  THEN /\ deferredMsgQueue' = Append(deferredMsgQueue, m)
       /\ UNCHANGED <<onMessageCache, handled>>
  ELSE /\ Handle(m)
       /\ UNCHANGED deferredMsgQueue

onMessage(type) ==
  /\ apc = "idle"
  /\ received < MaxMsgs
  /\ received' = received + 1
  /\ Arrives([type |-> type, id |-> received + 1])
  /\ UNCHANGED <<initialCredit, credit, sendAction, apc, areg, hpc, hreg, flow, torn>>

(* A CreditUpdate is deferred like everything else. *)
DeferCreditUpdate ==
  /\ apc = "idle"
  /\ returning > 0
  /\ onMessageCache
  /\ returning' = returning - 1
  /\ deferredMsgQueue' = Append(deferredMsgQueue, CreditUpdate)
  /\ UNCHANGED <<initialCredit, credit, onMessageCache, sendAction, apc, areg,
                 hpc, hreg, owed, uncharged, torn, msgs>>

(* Faulty variant: the handler forgets to store. *)
CreditStoreNot ==
  /\ apc = "creditStore"
  /\ owed' = owed - 1
  /\ areg' = 0
  /\ apc' = "idle"
  /\ UNCHANGED <<initialCredit, credit, queue, sendAction, torn, hpc, hreg,
                 returning, uncharged, msgs>>

(* onCreditUpdate(): applyTo() loads mCredit and stores it increased. *)
onCreditUpdate ==
  /\ apc = "idle"
  /\ returning > 0
  /\ ~onMessageCache
  /\ credit >= 0
  /\ returning' = returning - 1
  /\ areg' = credit
  /\ apc' = "creditStore"
  /\ UNCHANGED <<initialCredit, credit, queue, sendAction, hpc, hreg, owed,
                 uncharged, torn, msgs>>

CreditStore ==
  /\ apc = "creditStore"
  /\ credit' = areg + 1
  /\ torn' = (torn \/ credit # areg)
  /\ owed' = owed - 1
  /\ areg' = 0
  /\ apc' = "idle"
  /\ UNCHANGED <<initialCredit, queue, sendAction, hpc, hreg, returning,
                 uncharged, msgs>>

(***************************************************************************)
(* onIdle(): sendDelta() and its callback.                                 *)
(***************************************************************************)

onIdle ==
  /\ apc = "idle"
  /\ credit # 0
  /\ apc' = "sendDelta"
  /\ UNCHANGED <<initialCredit, credit, queue, sendAction, areg, hpc, hreg,
                 flow, torn, msgs>>

(* sendDelta() has nothing to send, or goes for mMutexSendAction with an image,
   or just with info. *)
SendDecide(kind) ==
  /\ apc = "sendDelta"
  /\ kind # "idle" => credit > 0 \/ Bounded
  /\ apc' = kind
  /\ UNCHANGED <<initialCredit, credit, queue, sendAction, areg, hpc, hreg,
                 flow, torn, msgs>>

(* Info goes through the same callback as the heartbeat's, ... *)
SendInfo ==
  /\ apc = "info"
  /\ sendAction = "free"
  /\ Sent
  /\ Charge
  /\ apc' = "idle"
  /\ UNCHANGED <<initialCredit, queue, sendAction, areg, hpc, hreg, torn, msgs>>

(* Faulty variant: the mode ends, the queue is not looked at. *)
SendImageOnly ==
  /\ apc = "image"
  /\ sendAction = "free"
  /\ Sent
  /\ Charge
  /\ onMessageCache' = FALSE
  /\ apc' = "idle"
  /\ UNCHANGED <<initialCredit, deferredMsgQueue, sendAction, areg, hpc, hreg, torn, msgs>>

(* ... the callback of an image goes on to the deferred messages. *)
SendImage ==
  /\ apc = "image"
  /\ sendAction = "free"
  /\ Sent
  /\ Charge
  /\ onMessageCache' = FALSE
  /\ IF onMessageCache
     THEN apc' = "deferred" /\ sendAction' = "arras"
     ELSE apc' = "idle" /\ UNCHANGED sendAction
  /\ UNCHANGED <<initialCredit, deferredMsgQueue, areg, hpc, hreg, torn, msgs>>

(* The message just handled was a ForceRenderStart. *)
DeferAgain == onMessageCache'

(* Faulty variant: the newest message first. *)
DeferredLast == deferredMsgQueue[Len(deferredMsgQueue)]

DeferredFirst == Head(deferredMsgQueue)

(* processDeferredMessage(): one turn of the loop.  The requestStop() that ends
   a turn concerns the RenderContext alone, see RequestStop in module
   RenderContextDriver. *)
DeferredNext ==
  /\ apc = "deferred"
  /\ deferredMsgQueue # <<>>
  /\ LET m == DeferredFirst IN
       IF m.type = "CREDIT"
       THEN /\ credit' = IF credit >= 0 THEN credit + 1 ELSE credit
            /\ owed' = owed - 1
            /\ UNCHANGED <<onMessageCache, handled>>
       ELSE /\ Handle(m)
            /\ UNCHANGED <<credit, owed>>
  /\ deferredMsgQueue' = Tail(deferredMsgQueue)
  /\ IF DeferAgain
     THEN apc' = "idle" /\ sendAction' = "free"
     ELSE UNCHANGED <<apc, sendAction>>
  /\ UNCHANGED <<initialCredit, areg, hpc, hreg, returning, uncharged, torn, received>>

DeferredEnd ==
  /\ apc = "deferred"
  /\ deferredMsgQueue = <<>>
  /\ apc' = "idle"
  /\ sendAction' = "free"
  /\ UNCHANGED <<initialCredit, credit, queue, areg, hpc, hreg, flow, torn, msgs>>

(***************************************************************************)
(* The heartbeat thread: sendProgressiveFrameMessageInfoOnly().            *)
(***************************************************************************)

(* Faulty variant: the heartbeat does not take mMutexSendAction. *)
HeartSendUnlocked ==
  /\ hpc = "idle"
  /\ Bounded
  /\ Sent
  /\ hpc' = "test"
  /\ UNCHANGED <<initialCredit, credit, queue, sendAction, apc, areg, hreg,
                 uncharged, torn, msgs>>

HeartSend ==
  /\ hpc = "idle"
  /\ sendAction = "free"
  /\ Bounded
  /\ Sent
  /\ sendAction' = "heartBeat"
  /\ hpc' = "test"
  /\ UNCHANGED <<initialCredit, credit, queue, apc, areg, hreg, uncharged, torn, msgs>>

HeartTest ==
  /\ hpc = "test"
  /\ IF credit > 0
     THEN hpc' = "load" /\ UNCHANGED <<sendAction, uncharged>>
     ELSE hpc' = "idle" /\ sendAction' = "free" /\ Free
  /\ UNCHANGED <<initialCredit, credit, queue, apc, areg, hreg, owed, returning,
                 torn, msgs>>

HeartLoad ==
  /\ hpc = "load"
  /\ hreg' = credit
  /\ hpc' = "store"
  /\ UNCHANGED <<initialCredit, credit, queue, sendAction, apc, areg, flow, torn, msgs>>

HeartStore ==
  /\ hpc = "store"
  /\ credit' = hreg - 1
  /\ torn' = (torn \/ credit # hreg)
  /\ hreg' = 0
  /\ hpc' = "idle"
  /\ sendAction' = "free"
  /\ UNCHANGED <<initialCredit, queue, apc, areg, flow, msgs>>

(***************************************************************************)
(* The specification.                                                      *)
(***************************************************************************)

Answer == DeferCreditUpdate \/ onCreditUpdate
ArrasInCall == CreditStore \/ DeferredNext \/ DeferredEnd
HeartInCall == HeartTest \/ HeartLoad \/ HeartStore

Next ==
  \/ onMessage("UPDATE") \/ onMessage("FORCE_START")
  \/ Answer
  \/ onIdle \/ (\E kind \in {"idle", "info", "image"} : SendDecide(kind))
  \/ SendInfo \/ SendImage
  \/ ArrasInCall
  \/ HeartSend \/ HeartInCall

Spec == Init /\ [][Next]_vars

(* The merge answers, handlers and callbacks end, and a thread that waits for
   the mutex gets it in the end.  Nothing is assumed of the send interval and
   of the renderer: there need not be another image. *)
FairSpec ==
  /\ Spec
  /\ WF_vars(ArrasInCall)
  /\ WF_vars(HeartInCall)
  /\ SF_vars(Answer)
  /\ WF_vars(\E kind \in {"idle", "info", "image"} : SendDecide(kind))
  /\ SF_vars(SendInfo \/ SendImage)

(***************************************************************************)
(* Properties.                                                             *)
(***************************************************************************)

TypeOK ==
  /\ initialCredit \in InitialCredits
  /\ credit \in Int
  /\ onMessageCache \in BOOLEAN
  /\ deferredMsgQueue \in Seq(Message)
  /\ sendAction \in {"free", "arras", "heartBeat"}
  /\ apc \in {"idle", "creditStore", "sendDelta", "info", "image", "deferred"}
  /\ hpc \in {"idle", "test", "load", "store"}
  /\ areg \in Int /\ hreg \in Int
  /\ owed \in Int /\ returning \in Int /\ uncharged \in Int
  /\ torn \in BOOLEAN
  /\ received \in Nat /\ handled \in Nat

(* A negative mCredit means no rate control at all: two threads that charge
   it must not take it from 0 to -1.  And without rate control it stays off. *)
RateControlStays ==
  IF enabled THEN credit >= 0 ELSE credit = initialCredit

(* The credit at hand and the messages yet to be credited make up the initial
   credit, plus what was sent for nothing at credit 0 and will be credited
   all the same.  It holds while no unlocked update of mCredit tears. *)
CreditConserved ==
  enabled /\ ~torn =>
    credit + owed =
      initialCredit + uncharged + IF hpc = "idle" THEN 0 ELSE 1

(* Whatever is deferred is handled in the order of its arrival, ... *)
HandledInOrder ==
  [][handled' # handled => handled' = handled + 1]_vars

(* ... nothing overtakes it, and nothing is handled between a ForceRenderStart
   and the next image. *)
DeferredWait ==
  [][handled' # handled \/ credit' > credit => ~onMessageCache]_vars

NothingOvertakes == ~onMessageCache /\ apc # "deferred" => deferredMsgQueue = <<>>

(* An exhausted credit is refilled by the merge's answers, unless they are
   deferred or were lost to a torn update. *)
CreditComesBack ==
  initialCredit > 0 /\ credit = 0 ~> (credit > 0 \/ onMessageCache \/ torn)

(* What deferred messages wait for: the interval comes round, and a driver that
   is asked again and again for a delta has an image to send.  Nothing in the
   code warrants it: a frame that is finished, stopped, without tiles or not
   rendering at all has none. *)
ImagesKeepComing == SF_vars(onIdle) /\ SF_vars(SendDecide("image"))

(* As long as images keep coming, a deferred message is handled in the end,
   however many ForceRenderStarts lie before it in the queue, unless the credit
   runs out. *)
DeferredAreHandledOnCredit ==
  ImagesKeepComing =>
    (deferredMsgQueue # <<>> ~> (deferredMsgQueue = <<>> \/ credit = 0))

(* What ProgMcrtComputation.h calls a first come first serve queue serves
   those who come as long as images keep coming, at least where no update of
   mCredit was lost. *)
DeferredAreHandled ==
  ImagesKeepComing =>
    (deferredMsgQueue # <<>> /\ ~torn ~> (deferredMsgQueue = <<>> \/ torn))

(***************************************************************************)
(* The inductive invariant behind all of these.                            *)
(***************************************************************************)

(* Who is in the callback holds the mutex, and the mode is off while messages
   are handled.  Only one thread raises mCredit and only the holder of the
   mutex lowers it, so a register is never on the wrong side of it. *)
SendAgrees ==
  /\ hpc # "idle" <=> sendAction = "heartBeat"
  /\ apc = "deferred" <=> sendAction = "arras"
  /\ apc \in {"creditStore", "deferred"} => ~onMessageCache
  /\ apc = "creditStore" => enabled /\ areg >= 0 /\ areg >= credit
  /\ hpc = "load" => credit > 0
  /\ hpc = "store" => hreg > 0 /\ hreg <= credit

(* What was received and not handled waits in the queue, all of it and in
   order, CreditUpdates in between. *)
Counts(i) == deferredMsgQueue[i].type # "CREDIT"
WaitingInOrder ==
  /\ handled <= received /\ received <= MaxMsgs
  /\ \A i \in DOMAIN deferredMsgQueue : Counts(i) =>
       handled < deferredMsgQueue[i].id /\ deferredMsgQueue[i].id <= received
  /\ \A i, j \in DOMAIN deferredMsgQueue : i < j /\ Counts(i) /\ Counts(j) =>
       deferredMsgQueue[i].id < deferredMsgQueue[j].id
  /\ \A n \in handled + 1 .. received :
       \E i \in DOMAIN deferredMsgQueue : Counts(i) /\ deferredMsgQueue[i].id = n

IInv ==
  /\ TypeOK
  /\ SendAgrees
  /\ RateControlStays
  /\ CreditConserved
  /\ NothingOvertakes
  /\ WaitingInOrder

=============================================================================
