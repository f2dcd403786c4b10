------------------------ MODULE ProgMcrtComputationProofs ------------------------
(***************************************************************************)
(* Proofs for ProgMcrtComputation, for every initial credit, every number  *)
(* of messages and every bound on uncharged sends.  IInv is inductive;     *)
(* RateControlStays, CreditConserved and NothingOvertakes are its parts,   *)
(* and HandledInOrder and DeferredWait follow from it step by step.        *)
(***************************************************************************)
EXTENDS ProgMcrtComputation, TLAPS

USE CreditAssumption DEF queue, flow, msgs

(* The initial state satisfies the invariant. *)
LEMMA InitIInv == Init => IInv
<1> SUFFICES ASSUME Init PROVE IInv OBVIOUS
<1>1. TypeOK
  <2>1. onMessageCache \in BOOLEAN BY DEF Init
  <2>2. torn \in BOOLEAN BY DEF Init
  <2>3. deferredMsgQueue \in Seq(Message) BY DEF Init
  <2> QED BY <2>1, <2>2, <2>3 DEF Init, TypeOK
<1>2. SendAgrees BY DEF Init, SendAgrees, enabled
<1>3. RateControlStays BY DEF Init, RateControlStays, enabled
<1>4. CreditConserved BY DEF Init, CreditConserved, enabled
<1>5. NothingOvertakes BY DEF Init, NothingOvertakes
<1>6. WaitingInOrder BY DEF Init, WaitingInOrder, Counts
<1> QED BY <1>1, <1>2, <1>3, <1>4, <1>5, <1>6 DEF IInv

(***************************************************************************)
(* The messages that wait.                                                 *)
(***************************************************************************)

LEMMA UntouchedWaits ==
  ASSUME WaitingInOrder, UNCHANGED <<deferredMsgQueue, received, handled>>
  PROVE  WaitingInOrder'
BY DEF WaitingInOrder, Counts

LEMMA AppendFacts ==
  ASSUME NEW S, NEW q \in Seq(S), NEW e \in S
  PROVE  /\ Len(q) \in Nat /\ DOMAIN q = 1 .. Len(q)
         /\ DOMAIN Append(q, e) = 1 .. Len(q) + 1
         /\ \A i \in 1 .. Len(q) : Append(q, e)[i] = q[i]
         /\ Append(q, e)[Len(q) + 1] = e
  OBVIOUS

LEMMA TailFacts ==
  ASSUME NEW S, NEW q \in Seq(S), q # <<>>
  PROVE  /\ Len(q) \in Nat /\ DOMAIN q = 1 .. Len(q) /\ 1 \in 1 .. Len(q) /\ Head(q) = q[1]
         /\ \A i \in 1 .. Len(q) : q[i] \in S
         /\ DOMAIN Tail(q) = 1 .. Len(q) - 1
         /\ \A i \in 1 .. Len(q) - 1 : Tail(q)[i] = q[i + 1] /\ i + 1 \in 1 .. Len(q)
  OBVIOUS

(* A message received is handled at once if none waits, or waits as the last. *)
LEMMA ReceivedWaits ==
  ASSUME IInv, NEW type \in {"UPDATE", "FORCE_START"}, onMessage(type)
  PROVE  WaitingInOrder'
<1> DEFINE q == deferredMsgQueue
           m == [type |-> type, id |-> received + 1]
<1>1. /\ q \in Seq(Message) /\ received \in Nat /\ handled \in Nat
      /\ m \in Message /\ m.type # "CREDIT" /\ m.id = received + 1
      /\ received' = received + 1 /\ received' <= MaxMsgs
  BY DEF IInv, TypeOK, onMessage, Message
<1>2. CASE ~onMessageCache
  <2>1. q = <<>> /\ q' = <<>> /\ handled' = received + 1
    BY <1>2 DEF IInv, NothingOvertakes, onMessage, Arrives, Handle
  <2> QED BY <1>1, <2>1 DEF WaitingInOrder, Counts
<1>3. CASE onMessageCache
  <2>1. q' = Append(q, m) /\ handled' = handled BY <1>3 DEF onMessage, Arrives
  <2>2. /\ Len(q) \in Nat /\ DOMAIN q = 1 .. Len(q) /\ DOMAIN q' = 1 .. Len(q) + 1
        /\ \A i \in 1 .. Len(q) : q'[i] = q[i]
        /\ q'[Len(q) + 1] = m
    BY <1>1, <2>1, AppendFacts
  <2> PICK last \in Nat : last = Len(q) + 1 BY <2>2
  <2>3. \A i \in DOMAIN q : q[i] \in Message BY <1>1, <2>2
  <2> HIDE DEF m
  <2>4. WaitingInOrder BY DEF IInv
  <2>5. \A i \in DOMAIN q : (Counts(i)' <=> Counts(i)) /\ q'[i].id = q[i].id
    BY <2>2 DEF Counts
  <2>6. Counts(last)' /\ q'[last].id = received + 1 BY <1>1, <2>2 DEF Counts
  <2>7. \A i \in DOMAIN q : q[i].id \in Nat BY <2>3 DEF Message
  <2>8. \A i \in DOMAIN q' : i \in DOMAIN q \/ i = last BY <2>2
  <2>9. \A i \in DOMAIN q' : Counts(i)' => handled' < q'[i].id /\ q'[i].id <= received'
    BY <1>1, <2>1, <2>4, <2>5, <2>6, <2>7, <2>8 DEF WaitingInOrder
  <2>10. \A i, j \in DOMAIN q' : i < j /\ Counts(i)' /\ Counts(j)' => q'[i].id < q'[j].id
    <3> TAKE i, j \in DOMAIN q'
    <3> HAVE i < j /\ Counts(i)' /\ Counts(j)'
    <3>1. i \in DOMAIN q BY <2>2, <2>8
    <3>2. CASE j \in DOMAIN q BY <2>4, <2>5, <3>1, <3>2 DEF WaitingInOrder
    <3>3. CASE j = last
      <4>1. q[i].id <= received BY <2>4, <2>5, <3>1 DEF WaitingInOrder
      <4> QED BY <1>1, <2>5, <2>6, <2>7, <3>1, <3>3, <4>1
    <3> QED BY <2>8, <3>2, <3>3
  <2>11. \A n \in handled' + 1 .. received' : \E i \in DOMAIN q' : Counts(i)' /\ q'[i].id = n
    <3> TAKE n \in handled' + 1 .. received'
    <3>1. CASE n = received + 1 BY <2>2, <2>6, <3>1
    <3>2. CASE n # received + 1
      <4>1. n \in handled + 1 .. received BY <1>1, <2>1, <3>2
      <4>2. PICK i \in DOMAIN q : Counts(i) /\ q[i].id = n BY <2>4, <4>1 DEF WaitingInOrder
      <4> QED BY <2>2, <2>5, <4>2
    <3> QED BY <3>1, <3>2
  <2>12. handled' <= received' /\ received' <= MaxMsgs BY <1>1, <2>1, <2>4 DEF WaitingInOrder
  <2> QED BY <2>9, <2>10, <2>11, <2>12 DEF WaitingInOrder
<1> QED BY <1>2, <1>3

(* A CreditUpdate does not count. *)
LEMMA CreditWaits ==
  ASSUME IInv, DeferCreditUpdate
  PROVE  WaitingInOrder'
<1> DEFINE q == deferredMsgQueue
<1>1. /\ q \in Seq(Message) /\ received \in Nat /\ handled \in Nat /\ CreditUpdate \in Message
      /\ q' = Append(q, CreditUpdate) /\ received' = received /\ handled' = handled
  BY DEF IInv, TypeOK, DeferCreditUpdate, CreditUpdate, Message
<1>2. /\ Len(q) \in Nat /\ DOMAIN q = 1 .. Len(q) /\ DOMAIN q' = 1 .. Len(q) + 1
      /\ \A i \in 1 .. Len(q) : q'[i] = q[i]
      /\ q'[Len(q) + 1] = CreditUpdate
  BY <1>1, AppendFacts
<1>3. WaitingInOrder BY DEF IInv
<1>4. CreditUpdate.type = "CREDIT" BY DEF CreditUpdate
<1> QED BY <1>1, <1>2, <1>3, <1>4 DEF WaitingInOrder, Counts

(* What is taken from the queue is a CreditUpdate or the next in order. *)
LEMMA NextIsFirst ==
  ASSUME IInv, DeferredNext
  PROVE  /\ deferredMsgQueue # <<>> /\ deferredMsgQueue' = Tail(deferredMsgQueue)
         /\ received' = received
         /\ IF deferredMsgQueue[1].type = "CREDIT" THEN handled' = handled
            ELSE handled' = deferredMsgQueue[1].id /\ handled' = handled + 1
<1> DEFINE q == deferredMsgQueue
<1>1. /\ q \in Seq(Message) /\ received \in Nat /\ handled \in Nat /\ WaitingInOrder
  BY DEF IInv, TypeOK
<1>2. q # <<>> /\ q' = Tail(q) /\ received' = received BY DEF DeferredNext
<1>3. /\ Len(q) \in Nat /\ DOMAIN q = 1 .. Len(q) /\ 1 \in 1 .. Len(q) /\ Head(q) = q[1]
      /\ \A i \in 1 .. Len(q) : q[i] \in Message
  BY <1>1, <1>2, TailFacts
<1>4. IF q[1].type = "CREDIT" THEN handled' = handled ELSE handled' = q[1].id
  BY <1>3 DEF DeferredNext, DeferredFirst, Handle
<1>5. ASSUME q[1].type # "CREDIT" PROVE q[1].id = handled + 1
  <2>1. q[1].id \in Nat /\ handled < q[1].id /\ q[1].id <= received
    BY <1>1, <1>3, <1>5 DEF WaitingInOrder, Counts, Message
  <2>2. handled + 1 \in handled + 1 .. received BY <1>1, <2>1
  <2>3. PICK i \in 1 .. Len(q) : Counts(i) /\ q[i].id = handled + 1
    BY <1>1, <1>3, <2>2 DEF WaitingInOrder
  <2>4. i # 1 => q[1].id < q[i].id
    BY <1>1, <1>3, <1>5, <2>3 DEF WaitingInOrder, Counts
  <2> QED BY <1>1, <2>1, <2>3, <2>4
<1> QED BY <1>2, <1>4, <1>5

LEMMA ServedFirst ==
  ASSUME IInv, DeferredNext
  PROVE  WaitingInOrder'
<1> DEFINE q == deferredMsgQueue
<1>1. /\ q \in Seq(Message) /\ received \in Nat /\ handled \in Nat /\ WaitingInOrder
  BY DEF IInv, TypeOK
<1>2. /\ q # <<>> /\ q' = Tail(q) /\ received' = received
      /\ IF q[1].type = "CREDIT" THEN handled' = handled
         ELSE handled' = q[1].id /\ handled' = handled + 1
  BY NextIsFirst
<1>3. /\ Len(q) \in Nat /\ DOMAIN q = 1 .. Len(q) /\ 1 \in 1 .. Len(q)
      /\ \A i \in 1 .. Len(q) : q[i] \in Message
      /\ DOMAIN q' = 1 .. Len(q) - 1
      /\ \A i \in 1 .. Len(q) - 1 : q'[i] = q[i + 1] /\ i + 1 \in 1 .. Len(q)
  BY <1>1, <1>2, TailFacts
<1>4. handled' <= received' /\ received' <= MaxMsgs
  BY <1>1, <1>2, <1>3 DEF WaitingInOrder, Counts, Message
<1>5. ASSUME NEW i \in DOMAIN q', Counts(i)'
      PROVE  handled' < q'[i].id /\ q'[i].id <= received'
  <2>1. Counts(i + 1) /\ i + 1 \in DOMAIN q /\ 1 < i + 1 /\ q'[i] = q[i + 1]
    BY <1>3, <1>5 DEF Counts
  <2>2. handled < q[i + 1].id /\ q[i + 1].id <= received BY <1>1, <2>1 DEF WaitingInOrder
  <2>3. Counts(1) => q[1].id < q[i + 1].id BY <1>1, <1>3, <2>1 DEF WaitingInOrder
  <2> QED BY <1>2, <2>1, <2>2, <2>3 DEF Counts
<1>6. ASSUME NEW i \in DOMAIN q', NEW j \in DOMAIN q', i < j, Counts(i)', Counts(j)'
      PROVE  q'[i].id < q'[j].id
  <2>1. /\ Counts(i + 1) /\ i + 1 \in DOMAIN q /\ q'[i] = q[i + 1]
        /\ Counts(j + 1) /\ j + 1 \in DOMAIN q /\ q'[j] = q[j + 1] /\ i + 1 < j + 1
    BY <1>3, <1>6 DEF Counts
  <2> QED BY <1>1, <2>1 DEF WaitingInOrder
<1>7. ASSUME NEW n \in handled' + 1 .. received'
      PROVE  \E i \in DOMAIN q' : Counts(i)' /\ q'[i].id = n
  <2>1. n \in handled + 1 .. received /\ (Counts(1) => n # q[1].id)
    BY <1>1, <1>2, <1>7 DEF Counts
  <2>2. PICK i \in DOMAIN q : Counts(i) /\ q[i].id = n BY <1>1, <2>1 DEF WaitingInOrder
  <2>3. i # 1 BY <2>1, <2>2
  <2>4. i - 1 \in DOMAIN q' /\ i - 1 + 1 = i /\ q'[i - 1] = q[i] BY <1>3, <2>2, <2>3
  <2> QED BY <2>2, <2>4 DEF Counts
<1> QED BY <1>4, <1>5, <1>6, <1>7 DEF WaitingInOrder

(* A message arrives. *)
LEMMA MessagesKeepIInv ==
  ASSUME IInv, NEW type \in {"UPDATE", "FORCE_START"}, onMessage(type)
  PROVE  IInv'
<1> USE DEF IInv, onMessage, Arrives, Handle, Message
<1>1. TypeOK'
  <2> USE DEF TypeOK
  <2>1. onMessageCache' \in BOOLEAN OBVIOUS
  <2>2. torn' \in BOOLEAN OBVIOUS
  <2>3. deferredMsgQueue' \in Seq(Message) OBVIOUS
  <2> QED BY <2>1, <2>2, <2>3
<1>2. SendAgrees' BY DEF SendAgrees, TypeOK, RateControlStays, enabled
<1>3. RateControlStays' BY DEF RateControlStays, TypeOK, SendAgrees, enabled
<1>4. CreditConserved' BY DEF CreditConserved, TypeOK, SendAgrees, RateControlStays, enabled
<1>5. NothingOvertakes' BY DEF NothingOvertakes, TypeOK
<1>6. WaitingInOrder' BY ReceivedWaits
<1> QED BY <1>1, <1>2, <1>3, <1>4, <1>5, <1>6

(* An answer of the merge joins the queue. *)
LEMMA DeferringKeepsIInv ==
  ASSUME IInv, DeferCreditUpdate
  PROVE  IInv'
<1> USE DEF IInv, DeferCreditUpdate, CreditUpdate, Message
<1>1. TypeOK'
  <2> USE DEF TypeOK
  <2>1. onMessageCache' \in BOOLEAN OBVIOUS
  <2>2. torn' \in BOOLEAN OBVIOUS
  <2>3. deferredMsgQueue' \in Seq(Message) OBVIOUS
  <2> QED BY <2>1, <2>2, <2>3
<1>2. SendAgrees' BY DEF SendAgrees, TypeOK, RateControlStays, enabled
<1>3. RateControlStays' BY DEF RateControlStays, TypeOK, SendAgrees, enabled
<1>4. CreditConserved' BY DEF CreditConserved, TypeOK, SendAgrees, RateControlStays, enabled
<1>5. NothingOvertakes' BY DEF NothingOvertakes, TypeOK
<1>6. WaitingInOrder' BY CreditWaits
<1> QED BY <1>1, <1>2, <1>3, <1>4, <1>5, <1>6

(* onCreditUpdate() loads mCredit ... *)
LEMMA LoadingKeepsIInv ==
  ASSUME IInv, onCreditUpdate
  PROVE  IInv'
<1> USE DEF IInv, onCreditUpdate
<1>1. TypeOK'
  <2> USE DEF TypeOK
  <2>1. onMessageCache' \in BOOLEAN OBVIOUS
  <2>2. torn' \in BOOLEAN OBVIOUS
  <2>3. deferredMsgQueue' \in Seq(Message) OBVIOUS
  <2> QED BY <2>1, <2>2, <2>3
<1>2. SendAgrees' BY DEF SendAgrees, TypeOK, RateControlStays, enabled
<1>3. RateControlStays' BY DEF RateControlStays, TypeOK, SendAgrees, enabled
<1>4. CreditConserved' BY DEF CreditConserved, TypeOK, SendAgrees, RateControlStays, enabled
<1>5. NothingOvertakes' BY DEF NothingOvertakes, TypeOK
<1>6. WaitingInOrder' BY UntouchedWaits
<1> QED BY <1>1, <1>2, <1>3, <1>4, <1>5, <1>6

(* ... and stores it increased. *)
LEMMA StoringKeepsIInv ==
  ASSUME IInv, CreditStore
  PROVE  IInv'
<1> USE DEF IInv
<1>0. /\ apc = "creditStore" /\ apc' = "idle"
      /\ credit' = areg + 1 /\ owed' = owed - 1 /\ areg' = 0
      /\ initialCredit' = initialCredit /\ sendAction' = sendAction
      /\ hpc' = hpc /\ hreg' = hreg /\ returning' = returning
      /\ uncharged' = uncharged /\ received' = received /\ handled' = handled
      /\ onMessageCache' = onMessageCache /\ deferredMsgQueue' = deferredMsgQueue
  BY Zenon DEF CreditStore
<1>t. torn' \in BOOLEAN /\ (~torn' => ~torn /\ credit = areg)
  BY Zenon DEF CreditStore
<1> USE <1>0, <1>t
<1>1. TypeOK'
  <2> USE DEF TypeOK
  <2>1. onMessageCache' \in BOOLEAN OBVIOUS
  <2>2. torn' \in BOOLEAN OBVIOUS
  <2>3. deferredMsgQueue' \in Seq(Message) OBVIOUS
  <2> QED BY <2>1, <2>2, <2>3
<1>2. SendAgrees' BY DEF SendAgrees, TypeOK, RateControlStays, enabled
<1>3. RateControlStays' BY DEF RateControlStays, TypeOK, SendAgrees, enabled
<1>4. CreditConserved' BY DEF CreditConserved, TypeOK, SendAgrees, RateControlStays, enabled
<1>5. NothingOvertakes' BY DEF NothingOvertakes, TypeOK
<1>6. WaitingInOrder' BY UntouchedWaits
<1> QED BY <1>1, <1>2, <1>3, <1>4, <1>5, <1>6

(* sendDelta() begins, and decides what to send. *)
LEMMA IdleKeepsIInv ==
  ASSUME IInv, onIdle \/ (\E kind \in {"idle", "info", "image"} : SendDecide(kind))
  PROVE  IInv'
<1> USE DEF IInv, onIdle, SendDecide, Bounded
<1>1. TypeOK'
  <2> USE DEF TypeOK
  <2>1. onMessageCache' \in BOOLEAN OBVIOUS
  <2>2. torn' \in BOOLEAN OBVIOUS
  <2>3. deferredMsgQueue' \in Seq(Message) OBVIOUS
  <2> QED BY <2>1, <2>2, <2>3
<1>2. SendAgrees' BY DEF SendAgrees, TypeOK, RateControlStays, enabled
<1>3. RateControlStays' BY DEF RateControlStays, TypeOK, SendAgrees, enabled
<1>4. CreditConserved' BY DEF CreditConserved, TypeOK, SendAgrees, RateControlStays, enabled
<1>5. NothingOvertakes' BY DEF NothingOvertakes, TypeOK
<1>6. WaitingInOrder' BY UntouchedWaits
<1> QED BY <1>1, <1>2, <1>3, <1>4, <1>5, <1>6

(* The arras thread sends info. *)
LEMMA InfoKeepsIInv ==
  ASSUME IInv, SendInfo
  PROVE  IInv'
<1> USE DEF IInv, SendInfo, Sent, Charge, Free, enabled
<1>1. TypeOK'
  <2> USE DEF TypeOK
  <2>1. onMessageCache' \in BOOLEAN OBVIOUS
  <2>2. torn' \in BOOLEAN OBVIOUS
  <2>3. deferredMsgQueue' \in Seq(Message) OBVIOUS
  <2> QED BY <2>1, <2>2, <2>3
<1>2. SendAgrees' BY DEF SendAgrees, TypeOK, RateControlStays, enabled
<1>3. RateControlStays' BY DEF RateControlStays, TypeOK, SendAgrees, enabled
<1>4. CreditConserved' BY DEF CreditConserved, TypeOK, SendAgrees, RateControlStays, enabled
<1>5. NothingOvertakes' BY DEF NothingOvertakes, TypeOK
<1>6. WaitingInOrder' BY UntouchedWaits
<1> QED BY <1>1, <1>2, <1>3, <1>4, <1>5, <1>6

(* The arras thread sends an image. *)
LEMMA ImageKeepsIInv ==
  ASSUME IInv, SendImage
  PROVE  IInv'
<1> USE DEF IInv, SendImage, Sent, Charge, Free, enabled
<1>1. TypeOK'
  <2> USE DEF TypeOK
  <2>1. onMessageCache' \in BOOLEAN OBVIOUS
  <2>2. torn' \in BOOLEAN OBVIOUS
  <2>3. deferredMsgQueue' \in Seq(Message) OBVIOUS
  <2> QED BY <2>1, <2>2, <2>3
<1>2. SendAgrees' BY DEF SendAgrees, TypeOK, RateControlStays, enabled
<1>3. RateControlStays' BY DEF RateControlStays, TypeOK, SendAgrees, enabled
<1>4. CreditConserved' BY DEF CreditConserved, TypeOK, SendAgrees, RateControlStays, enabled
<1>5. NothingOvertakes' BY DEF NothingOvertakes, TypeOK
<1>6. WaitingInOrder' BY UntouchedWaits
<1> QED BY <1>1, <1>2, <1>3, <1>4, <1>5, <1>6

(* A turn of processDeferredMessage(). *)
LEMMA DeferredKeepsIInv ==
  ASSUME IInv, DeferredNext
  PROVE  IInv'
<1> USE DEF IInv, DeferredNext, DeferredFirst, DeferAgain, Handle, Message
<1>1. TypeOK'
  <2> USE DEF TypeOK
  <2>1. onMessageCache' \in BOOLEAN OBVIOUS
  <2>2. torn' \in BOOLEAN OBVIOUS
  <2>3. deferredMsgQueue' \in Seq(Message) OBVIOUS
  <2> QED BY <2>1, <2>2, <2>3
<1>2. SendAgrees' BY DEF SendAgrees, TypeOK, RateControlStays, enabled
<1>3. RateControlStays' BY DEF RateControlStays, TypeOK, SendAgrees, enabled
<1>4. CreditConserved' BY DEF CreditConserved, TypeOK, SendAgrees, RateControlStays, enabled
<1>5. NothingOvertakes' BY DEF NothingOvertakes, TypeOK
<1>6. WaitingInOrder' BY ServedFirst
<1> QED BY <1>1, <1>2, <1>3, <1>4, <1>5, <1>6

(* The end of processDeferredMessage(). *)
LEMMA DeferredEndKeepsIInv ==
  ASSUME IInv, DeferredEnd
  PROVE  IInv'
<1> USE DEF IInv, DeferredEnd
<1>1. TypeOK'
  <2> USE DEF TypeOK
  <2>1. onMessageCache' \in BOOLEAN OBVIOUS
  <2>2. torn' \in BOOLEAN OBVIOUS
  <2>3. deferredMsgQueue' \in Seq(Message) OBVIOUS
  <2> QED BY <2>1, <2>2, <2>3
<1>2. SendAgrees' BY DEF SendAgrees, TypeOK, RateControlStays, enabled
<1>3. RateControlStays' BY DEF RateControlStays, TypeOK, SendAgrees, enabled
<1>4. CreditConserved' BY DEF CreditConserved, TypeOK, SendAgrees, RateControlStays, enabled
<1>5. NothingOvertakes' BY DEF NothingOvertakes, TypeOK
<1>6. WaitingInOrder' BY UntouchedWaits
<1> QED BY <1>1, <1>2, <1>3, <1>4, <1>5, <1>6

(* The heartbeat sends info, ... *)
LEMMA HeartSendKeepsIInv ==
  ASSUME IInv, HeartSend
  PROVE  IInv'
<1> USE DEF IInv, HeartSend, Sent, enabled, Bounded
<1>1. TypeOK'
  <2> USE DEF TypeOK
  <2>1. onMessageCache' \in BOOLEAN OBVIOUS
  <2>2. torn' \in BOOLEAN OBVIOUS
  <2>3. deferredMsgQueue' \in Seq(Message) OBVIOUS
  <2> QED BY <2>1, <2>2, <2>3
<1>2. SendAgrees' BY DEF SendAgrees, TypeOK, RateControlStays, enabled
<1>3. RateControlStays' BY DEF RateControlStays, TypeOK, SendAgrees, enabled
<1>4. CreditConserved' BY DEF CreditConserved, TypeOK, SendAgrees, RateControlStays, enabled
<1>5. NothingOvertakes' BY DEF NothingOvertakes, TypeOK
<1>6. WaitingInOrder' BY UntouchedWaits
<1> QED BY <1>1, <1>2, <1>3, <1>4, <1>5, <1>6

(* ... tests mCredit, ... *)
LEMMA HeartTestKeepsIInv ==
  ASSUME IInv, HeartTest
  PROVE  IInv'
<1> USE DEF IInv, HeartTest, Free, enabled
<1>1. TypeOK'
  <2> USE DEF TypeOK
  <2>1. onMessageCache' \in BOOLEAN OBVIOUS
  <2>2. torn' \in BOOLEAN OBVIOUS
  <2>3. deferredMsgQueue' \in Seq(Message) OBVIOUS
  <2> QED BY <2>1, <2>2, <2>3
<1>2. SendAgrees' BY DEF SendAgrees, TypeOK, RateControlStays, enabled
<1>3. RateControlStays' BY DEF RateControlStays, TypeOK, SendAgrees, enabled
<1>4. CreditConserved' BY DEF CreditConserved, TypeOK, SendAgrees, RateControlStays, enabled
<1>5. NothingOvertakes' BY DEF NothingOvertakes, TypeOK
<1>6. WaitingInOrder' BY UntouchedWaits
<1> QED BY <1>1, <1>2, <1>3, <1>4, <1>5, <1>6

(* ... loads it ... *)
LEMMA HeartLoadKeepsIInv ==
  ASSUME IInv, HeartLoad
  PROVE  IInv'
<1> USE DEF IInv, HeartLoad
<1>1. TypeOK'
  <2> USE DEF TypeOK
  <2>1. onMessageCache' \in BOOLEAN OBVIOUS
  <2>2. torn' \in BOOLEAN OBVIOUS
  <2>3. deferredMsgQueue' \in Seq(Message) OBVIOUS
  <2> QED BY <2>1, <2>2, <2>3
<1>2. SendAgrees' BY DEF SendAgrees, TypeOK, RateControlStays, enabled
<1>3. RateControlStays' BY DEF RateControlStays, TypeOK, SendAgrees, enabled
<1>4. CreditConserved' BY DEF CreditConserved, TypeOK, SendAgrees, RateControlStays, enabled
<1>5. NothingOvertakes' BY DEF NothingOvertakes, TypeOK
<1>6. WaitingInOrder' BY UntouchedWaits
<1> QED BY <1>1, <1>2, <1>3, <1>4, <1>5, <1>6

(* ... and stores it decreased. *)
LEMMA HeartStoreKeepsIInv ==
  ASSUME IInv, HeartStore
  PROVE  IInv'
<1> USE DEF IInv
<1>0. /\ hpc = "store" /\ hpc' = "idle" /\ sendAction' = "free"
      /\ credit' = hreg - 1 /\ hreg' = 0
      /\ initialCredit' = initialCredit /\ apc' = apc /\ areg' = areg
      /\ owed' = owed /\ returning' = returning /\ uncharged' = uncharged
      /\ received' = received /\ handled' = handled
      /\ onMessageCache' = onMessageCache /\ deferredMsgQueue' = deferredMsgQueue
  BY Zenon DEF HeartStore
<1>t. torn' \in BOOLEAN /\ (~torn' => ~torn /\ credit = hreg)
  BY Zenon DEF HeartStore
<1> USE <1>0, <1>t
<1>1. TypeOK'
  <2> USE DEF TypeOK
  <2>1. onMessageCache' \in BOOLEAN OBVIOUS
  <2>2. torn' \in BOOLEAN OBVIOUS
  <2>3. deferredMsgQueue' \in Seq(Message) OBVIOUS
  <2> QED BY <2>1, <2>2, <2>3
<1>2. SendAgrees' BY DEF SendAgrees, TypeOK, RateControlStays, enabled
<1>3. RateControlStays' BY DEF RateControlStays, TypeOK, SendAgrees, enabled
<1>4. CreditConserved' BY DEF CreditConserved, TypeOK, SendAgrees, RateControlStays, enabled
<1>5. NothingOvertakes' BY DEF NothingOvertakes, TypeOK
<1>6. WaitingInOrder' BY UntouchedWaits
<1> QED BY <1>1, <1>2, <1>3, <1>4, <1>5, <1>6

(* Stuttering changes nothing. *)
LEMMA StutterKeepsIInv == IInv /\ UNCHANGED vars => IInv'
BY DEF vars, IInv, TypeOK, SendAgrees, RateControlStays, CreditConserved,
       NothingOvertakes, WaitingInOrder, Counts, enabled, Message

(* Every reachable state satisfies the invariant. *)
THEOREM Invariance == Spec => []IInv
<1>1. IInv /\ [Next]_vars => IInv'
  <2> SUFFICES ASSUME IInv, [Next]_vars PROVE IInv' OBVIOUS
  <2>1. CASE onMessage("UPDATE") \/ onMessage("FORCE_START") BY <2>1, MessagesKeepIInv
  <2>2. CASE Answer BY <2>2, DeferringKeepsIInv, LoadingKeepsIInv DEF Answer
  <2>3. CASE onIdle \/ (\E kind \in {"idle", "info", "image"} : SendDecide(kind))
    BY <2>3, IdleKeepsIInv
  <2>4. CASE SendInfo \/ SendImage BY <2>4, InfoKeepsIInv, ImageKeepsIInv
  <2>5. CASE ArrasInCall
    BY <2>5, StoringKeepsIInv, DeferredKeepsIInv, DeferredEndKeepsIInv DEF ArrasInCall
  <2>6. CASE HeartSend \/ HeartInCall BY <2>6, HeartSendKeepsIInv, HeartTestKeepsIInv, HeartLoadKeepsIInv, HeartStoreKeepsIInv
    DEF HeartInCall
  <2>7. CASE UNCHANGED vars BY <2>7, StutterKeepsIInv
  <2> QED BY <2>1, <2>2, <2>3, <2>4, <2>5, <2>6, <2>7 DEF Next
<1> QED BY <1>1, InitIInv, PTL DEF Spec

(* No interleaving of the two threads turns the rate control off. *)
THEOREM CreditNeverNegative == Spec => []RateControlStays
<1>1. IInv => RateControlStays BY DEF IInv
<1> QED BY <1>1, Invariance, PTL

(* While no update of mCredit was lost, credit and debt add up. *)
THEOREM CreditAddsUp == Spec => []CreditConserved
<1>1. IInv => CreditConserved BY DEF IInv
<1> QED BY <1>1, Invariance, PTL

(* Outside the deferred mode nothing is left waiting. *)
THEOREM QueueIsEmptied == Spec => []NothingOvertakes
<1>1. IInv => NothingOvertakes BY DEF IInv
<1> QED BY <1>1, Invariance, PTL

(* Nothing is handled, and no credit comes back, between a ForceRenderStart
   and the next image. *)
THEOREM ForceStartHolds == Spec => DeferredWait
<1> DEFINE Step == handled' # handled \/ credit' > credit => ~onMessageCache
<1>1. IInv /\ [Next]_vars => [Step]_vars
  <2> SUFFICES ASSUME IInv, Next PROVE Step OBVIOUS
  <2> USE DEF IInv, TypeOK, SendAgrees
  <2>1. CASE onMessage("UPDATE") \/ onMessage("FORCE_START")
    BY <2>1 DEF onMessage, Arrives
  <2>2. CASE Answer BY <2>2 DEF Answer, DeferCreditUpdate, onCreditUpdate
  <2>3. CASE onIdle \/ (\E kind \in {"idle", "info", "image"} : SendDecide(kind))
    BY <2>3 DEF onIdle, SendDecide
  <2>4. CASE SendInfo \/ SendImage BY <2>4 DEF SendInfo, SendImage, Charge
  <2>5. CASE ArrasInCall
    BY <2>5 DEF ArrasInCall, CreditStore, DeferredNext, DeferredEnd
  <2>6. CASE HeartSend \/ HeartInCall
    <3>1. CASE HeartSend BY <3>1 DEF HeartSend
    <3>2. CASE HeartTest BY <3>2 DEF HeartTest
    <3>3. CASE HeartLoad BY <3>3 DEF HeartLoad
    <3>4. CASE HeartStore BY <3>4 DEF HeartStore
    <3> QED BY <2>6, <3>1, <3>2, <3>3, <3>4 DEF HeartInCall
  <2> QED BY <2>1, <2>2, <2>3, <2>4, <2>5, <2>6 DEF Next
<1> QED BY <1>1, Invariance, PTL DEF Spec, DeferredWait

(* Whatever is deferred is handled in the order of its arrival, none of it
   left out or handled twice. *)
THEOREM FirstComeFirstServed == Spec => HandledInOrder
<1> DEFINE Step == handled' # handled => handled' = handled + 1
<1>1. IInv /\ [Next]_vars => [Step]_vars
  <2> SUFFICES ASSUME IInv, Next PROVE Step OBVIOUS
  <2>1. CASE onMessage("UPDATE") \/ onMessage("FORCE_START")
    <3>1. PICK type \in {"UPDATE", "FORCE_START"} : onMessage(type) BY <2>1
    <3>2. CASE onMessageCache BY <3>1, <3>2 DEF onMessage, Arrives
    <3>3. CASE ~onMessageCache
      <4>1. deferredMsgQueue = <<>> BY <3>1, <3>3 DEF IInv, NothingOvertakes, onMessage
      <4>2. handled = received
        <5>1. received \in Nat /\ handled \in Nat /\ WaitingInOrder BY DEF IInv, TypeOK
        <5>2. received \notin handled + 1 .. received BY <4>1, <5>1 DEF WaitingInOrder
        <5> QED BY <5>1, <5>2 DEF WaitingInOrder
      <4> QED BY <3>1, <3>3, <4>2 DEF onMessage, Arrives, Handle
    <3> QED BY <3>2, <3>3
  <2>2. CASE Answer BY <2>2 DEF Answer, DeferCreditUpdate, onCreditUpdate
  <2>3. CASE onIdle \/ (\E kind \in {"idle", "info", "image"} : SendDecide(kind))
    BY <2>3 DEF onIdle, SendDecide
  <2>4. CASE SendInfo \/ SendImage BY <2>4 DEF SendInfo, SendImage
  <2>5. CASE ArrasInCall
    BY <2>5, NextIsFirst DEF ArrasInCall, CreditStore, DeferredEnd
  <2>6. CASE HeartSend \/ HeartInCall
    BY <2>6 DEF HeartSend, HeartInCall, HeartTest, HeartLoad, HeartStore
  <2> QED BY <2>1, <2>2, <2>3, <2>4, <2>5, <2>6 DEF Next
<1> QED BY <1>1, Invariance, PTL DEF Spec, HandledInOrder

=============================================================================
