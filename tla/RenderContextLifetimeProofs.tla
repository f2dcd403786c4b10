---------------------- MODULE RenderContextLifetimeProofs ----------------------
(***************************************************************************)
(* Proofs about RenderContextLifetime, for every set of RenderContexts:    *)
(* IInv is inductive; one owner for every context, and none left at the    *)
(* end, follow from it.                                                    *)
(***************************************************************************)
EXTENDS RenderContextLifetime, TLAPS

USE NoneIsNoContext DEF Threads, CleanupPc, ThreadPc, ResetPc, At, Goto, managerShared,
        cleanup, managerVars, driver, TypeOK

(* resetRenderContext() on one thread. *)
LEMMA ResetKeepsIInv ==
  ASSUME IInv, NEW t \in Threads, Reset(t)
  PROVE  IInv'
<1> USE DEF IInv, PointerAgrees, OnlyMadeContexts, EndAgrees, AfterFlag,
            AfterWatcher, AfterJoin, OneOwner, HasOneOwner, OwnedByDriver,
            InTable, OwnedByCleanup
<1>1. CASE ResetTake(t)
  <2> USE <1>1 DEF ResetTake
  <2>1. TypeOK' OBVIOUS
  <2>2. PointerAgrees' OBVIOUS
  <2>3. OnlyMadeContexts' OBVIOUS
  <2>4. EndAgrees' OBVIOUS
  <2>5. OneOwner' OBVIOUS
  <2> QED BY <2>1, <2>2, <2>3, <2>4, <2>5
<1>2. CASE ResetPush(t)
  <2> USE <1>2 DEF ResetPush, PushLocked, MayPush
  <2>1. TypeOK' OBVIOUS
  <2>2. PointerAgrees' OBVIOUS
  <2>3. OnlyMadeContexts' OBVIOUS
  <2>4. EndAgrees' OBVIOUS
  <2>5. OneOwner'
    <3>1. ASSUME NEW c \in allocated', ~raced' PROVE HasOneOwner(c)'
      <4>1. t = "arras" /\ ptr[t] = renderContext BY <3>1
      <4>2. InTable(c)' <=> InTable(c) \/ c = renderContext
        <5> DEFINE m == Len(oldRenderContextTbl)
        <5>1. /\ m \in Nat
              /\ DOMAIN oldRenderContextTbl = 1 .. m
              /\ DOMAIN oldRenderContextTbl' = 1 .. (m + 1)
              /\ \A i \in 1 .. m : oldRenderContextTbl'[i] = oldRenderContextTbl[i]
              /\ oldRenderContextTbl'[m + 1] = renderContext
          BY <4>1
        <5> HIDE DEF m
        <5>2. \A i \in 1 .. (m + 1) : i \in 1 .. m \/ i = m + 1 BY <5>1
        <5>3. m + 1 \in 1 .. (m + 1) /\ \A i \in 1 .. m : i \in 1 .. (m + 1) BY <5>1
        <5> QED BY <5>1, <5>2, <5>3
      <4>3. OwnedByDriver(c)' <=> OwnedByDriver(c) /\ c # renderContext BY <4>1
      <4>4. HasOneOwner(c) /\ HasOneOwner(renderContext) BY <3>1, <4>1
      <4>5. OwnedByDriver(renderContext) BY <4>1
      <4>6. OwnedByCleanup(c)' <=> OwnedByCleanup(c) OBVIOUS
      <4> HIDE DEF OwnedByDriver, InTable, OwnedByCleanup
      <4> QED BY <4>1, <4>2, <4>3, <4>4, <4>5, <4>6
    <3>2. ASSUME ~raced', NEW i \in DOMAIN oldRenderContextTbl', NEW j \in DOMAIN oldRenderContextTbl',
                 oldRenderContextTbl'[i] = oldRenderContextTbl'[j]
          PROVE  i = j
      BY <3>2
    <3> QED BY <3>1, <3>2
  <2> QED BY <2>1, <2>2, <2>3, <2>4, <2>5
<1>3. CASE ResetNotify(t)
  <2> USE <1>3 DEF ResetNotify, NotifyPushed
  <2>1. TypeOK' OBVIOUS
  <2>2. PointerAgrees' OBVIOUS
  <2>3. OnlyMadeContexts' OBVIOUS
  <2>4. EndAgrees' OBVIOUS
  <2>5. OneOwner' OBVIOUS
  <2> QED BY <2>1, <2>2, <2>3, <2>4, <2>5
<1>4. CASE ResetNull(t)
  <2> USE <1>4 DEF ResetNull
  <2>1. TypeOK' OBVIOUS
  <2>2. PointerAgrees' OBVIOUS
  <2>3. OnlyMadeContexts' OBVIOUS
  <2>4. EndAgrees' OBVIOUS
  <2>5. OneOwner'
    <3>1. ASSUME NEW c \in allocated', ~raced' PROVE HasOneOwner(c)'
      <4>1. t = "arras" BY <3>1
      <4>2. HasOneOwner(c) BY <3>1
      <4>3. ~OwnedByDriver(c) /\ ~OwnedByDriver(c)' BY <3>1, <4>1
      <4>4. InTable(c)' <=> InTable(c) OBVIOUS
      <4>5. OwnedByCleanup(c)' <=> OwnedByCleanup(c) OBVIOUS
      <4> HIDE DEF OwnedByDriver, InTable, OwnedByCleanup
      <4> QED BY <4>2, <4>3, <4>4, <4>5
    <3>2. ASSUME ~raced', NEW i \in DOMAIN oldRenderContextTbl', NEW j \in DOMAIN oldRenderContextTbl',
                 oldRenderContextTbl'[i] = oldRenderContextTbl'[j]
          PROVE  i = j
      BY <3>2
    <3> QED BY <3>1, <3>2
  <2> QED BY <2>1, <2>2, <2>3, <2>4, <2>5
<1>5. CASE ResetNew(t)
  <2> USE <1>5 DEF ResetNew
  <2>0. PICK n \in Contexts \ allocated :
          /\ ptr' = [ptr EXCEPT ![t] = n]
          /\ allocated' = allocated \cup {n}
    OBVIOUS
  <2>1. TypeOK'
    <3>1. ptr' \in [Threads -> Contexts \cup {None}] BY <2>0
    <3>2. allocated' \in SUBSET Contexts BY <2>0
    <3>3. pc' \in [Threads -> ThreadPc] OBVIOUS
    <3>4. \A u \in Threads : pc'[u] \in {"push", "set"} => ptr'[u] # None BY <2>0
    <3> QED BY <3>1, <3>2, <3>3, <3>4
  <2>2. PointerAgrees' OBVIOUS
  <2>3. OnlyMadeContexts' OBVIOUS
  <2>4. EndAgrees' OBVIOUS
  <2>5. OneOwner'
    <3>1. ASSUME NEW c \in allocated', ~raced' PROVE HasOneOwner(c)'
      <4>1. t = "arras" BY <3>1
      <4>2. renderContext = None BY <3>1, <4>1
      <4>3. OwnedByDriver(c)' <=> c = n BY <2>0, <4>1, <4>2
      <4>4. InTable(c)' <=> InTable(c) OBVIOUS
      <4>5. OwnedByCleanup(c)' <=> OwnedByCleanup(c) OBVIOUS
      <4>6. ~InTable(n) /\ ~OwnedByCleanup(n) /\ deletes[n] = 0 BY <2>0
      <4>7. c # n => HasOneOwner(c) BY <2>0, <3>1
      <4>8. ~OwnedByDriver(c) BY <4>1, <4>2
      <4> HIDE DEF OwnedByDriver, InTable, OwnedByCleanup
      <4> QED BY <4>3, <4>4, <4>5, <4>6, <4>7, <4>8
    <3>2. ASSUME ~raced', NEW i \in DOMAIN oldRenderContextTbl', NEW j \in DOMAIN oldRenderContextTbl',
                 oldRenderContextTbl'[i] = oldRenderContextTbl'[j]
          PROVE  i = j
      BY <3>2
    <3> QED BY <3>1, <3>2
  <2> QED BY <2>1, <2>2, <2>3, <2>4, <2>5
<1>6. CASE ResetSet(t)
  <2> USE <1>6 DEF ResetSet
  <2>1. TypeOK' OBVIOUS
  <2>2. PointerAgrees' OBVIOUS
  <2>3. OnlyMadeContexts' OBVIOUS
  <2>4. EndAgrees' OBVIOUS
  <2>5. OneOwner' OBVIOUS
  <2> QED BY <2>1, <2>2, <2>3, <2>4, <2>5
<1> QED BY <1>1, <1>2, <1>3, <1>4, <1>5, <1>6 DEF Reset

(* The destructors. *)
LEMMA DownKeepsIInv ==
  ASSUME IInv, Down
  PROVE  IInv'
<1> USE DEF IInv, PointerAgrees, OnlyMadeContexts, EndAgrees, AfterFlag,
            AfterWatcher, AfterJoin, OneOwner, HasOneOwner, OwnedByDriver,
            InTable, OwnedByCleanup
<1>1. CASE DownNotify
  <2> USE <1>1 DEF DownNotify, ShutdownNotify
  <2>1. TypeOK' OBVIOUS
  <2>2. PointerAgrees' OBVIOUS
  <2>3. OnlyMadeContexts' OBVIOUS
  <2>4. EndAgrees' OBVIOUS
  <2>5. OneOwner' OBVIOUS
  <2> QED BY <2>1, <2>2, <2>3, <2>4, <2>5
<1>2. CASE DownWatcher
  <2> USE <1>2 DEF DownWatcher, ShutdownWatcher
  <2>1. TypeOK' OBVIOUS
  <2>2. PointerAgrees' OBVIOUS
  <2>3. OnlyMadeContexts' OBVIOUS
  <2>4. EndAgrees' OBVIOUS
  <2>5. OneOwner' OBVIOUS
  <2> QED BY <2>1, <2>2, <2>3, <2>4, <2>5
<1>3. CASE DownJoin
  <2> USE <1>3 DEF DownJoin, Joined
  <2>1. TypeOK' OBVIOUS
  <2>2. PointerAgrees' OBVIOUS
  <2>3. OnlyMadeContexts' OBVIOUS
  <2>4. EndAgrees' OBVIOUS
  <2>5. OneOwner' OBVIOUS
  <2> QED BY <2>1, <2>2, <2>3, <2>4, <2>5
<1>4. CASE DownHeart
  <2> USE <1>4 DEF DownHeart
  <2>1. TypeOK' OBVIOUS
  <2>2. PointerAgrees' OBVIOUS
  <2>3. OnlyMadeContexts' OBVIOUS
  <2>4. EndAgrees' OBVIOUS
  <2>5. OneOwner' OBVIOUS
  <2> QED BY <2>1, <2>2, <2>3, <2>4, <2>5
<1>5. CASE DownHeartJoin
  <2> USE <1>5 DEF DownHeartJoin
  <2>1. TypeOK' OBVIOUS
  <2>2. PointerAgrees' OBVIOUS
  <2>3. OnlyMadeContexts' OBVIOUS
  <2>4. EndAgrees' OBVIOUS
  <2>5. OneOwner' OBVIOUS
  <2> QED BY <2>1, <2>2, <2>3, <2>4, <2>5
<1>6. CASE DownDelete
  <2> USE <1>6 DEF DownDelete
  <2>1. TypeOK' OBVIOUS
  <2>2. PointerAgrees' OBVIOUS
  <2>3. OnlyMadeContexts' OBVIOUS
  <2>4. EndAgrees' OBVIOUS
  <2>5. OneOwner' OBVIOUS
  <2> QED BY <2>1, <2>2, <2>3, <2>4, <2>5
<1> QED BY <1>1, <1>2, <1>3, <1>4, <1>5, <1>6 DEF Down

(* The cleanup thread. *)
LEMMA CleanupKeepsIInv ==
  ASSUME IInv, CleanupStep
  PROVE  IInv'
<1> USE DEF IInv, PointerAgrees, OnlyMadeContexts, EndAgrees, AfterFlag,
            AfterWatcher, AfterJoin, OneOwner, HasOneOwner, OwnedByDriver,
            InTable, OwnedByCleanup
<1>a. UNCHANGED driver BY DEF CleanupStep
<1>1. CASE CleanupEnter
  <2> USE <1>1, <1>a DEF CleanupEnter
  <2>1. TypeOK' OBVIOUS
  <2>2. PointerAgrees' OBVIOUS
  <2>3. OnlyMadeContexts' OBVIOUS
  <2>4. EndAgrees' OBVIOUS
  <2>5. OneOwner' OBVIOUS
  <2> QED BY <2>1, <2>2, <2>3, <2>4, <2>5
<1>2. CASE CleanupExitAfter
  <2> USE <1>2, <1>a DEF CleanupExitAfter
  <2>1. TypeOK' OBVIOUS
  <2>2. PointerAgrees' OBVIOUS
  <2>3. OnlyMadeContexts' OBVIOUS
  <2>4. EndAgrees' OBVIOUS
  <2>5. OneOwner' OBVIOUS
  <2> QED BY <2>1, <2>2, <2>3, <2>4, <2>5
<1>3. CASE CleanupTest
  <2>1. CASE oldRenderContextTbl # <<>>
    <3> DEFINE n == Len(oldRenderContextTbl)
    <3>1. /\ n \in Nat \ {0}
          /\ DOMAIN oldRenderContextTbl = 1 .. n
          /\ \A i \in 1 .. n : oldRenderContextTbl[i] \in Contexts
      BY <2>1
    <3> HIDE DEF n
    <3>2. /\ cpc = "test" /\ cpc' = "delete"
          /\ curr' = oldRenderContextTbl[n]
          /\ oldRenderContextTbl' = SubSeq(oldRenderContextTbl, 1, n - 1)
      BY <1>3, <2>1 DEF CleanupTest, Back, Popped, n
    <3>3. UNCHANGED <<threadShutdown, watcherShutdown, deletes, began, lost, driver>>
      BY <1>a, <1>3 DEF CleanupTest
    <3>4. /\ oldRenderContextTbl' \in Seq(Contexts)
          /\ DOMAIN oldRenderContextTbl' = 1 .. (n - 1)
          /\ \A i \in 1 .. (n - 1) : oldRenderContextTbl'[i] = oldRenderContextTbl[i]
      BY <3>1, <3>2
    <3>5. /\ n \in 1 .. n
          /\ \A i \in 1 .. (n - 1) : i \in 1 .. n /\ i # n
          /\ \A i \in 1 .. n : i = n \/ i \in 1 .. (n - 1)
      BY <3>1
    <3>6. curr' \in Contexts BY <3>1, <3>2, <3>5
    <3>7. TypeOK'
      <4>1. cpc' \in CleanupPc /\ curr' # None BY <3>2, <3>6
      <4>2. oldRenderContextTbl' \in Seq(Contexts) /\ curr' \in Contexts \cup {None} BY <3>4, <3>6
      <4> QED BY <3>3, <4>1, <4>2
    <3>8. PointerAgrees' BY <3>3
    <3>9. OnlyMadeContexts' BY <3>1, <3>2, <3>3, <3>4, <3>5
    <3>10. EndAgrees' BY <3>2, <3>3
    <3>11. ASSUME NEW c \in allocated', ~raced' PROVE HasOneOwner(c)'
      <4>1. HasOneOwner(c) BY <3>3, <3>11
      <4>2. InTable(c)' => InTable(c) BY <3>1, <3>4, <3>5
      <4>3. InTable(c) => InTable(c)' \/ c = curr'
        <5> SUFFICES ASSUME NEW i \in 1 .. n, oldRenderContextTbl[i] = c, c # curr'
                     PROVE  InTable(c)'
          BY <3>1
        <5>1. i \in 1 .. (n - 1) BY <3>2, <3>5
        <5>2. oldRenderContextTbl'[i] = c BY <3>4, <5>1
        <5> QED BY <3>4, <5>1, <5>2
      <4>4. c = curr' => InTable(c) BY <3>1, <3>2, <3>5
      <4>5. c = curr' => ~InTable(c)'
        <5> SUFFICES ASSUME NEW i \in 1 .. (n - 1), oldRenderContextTbl'[i] = curr'
                     PROVE  FALSE
          BY <3>4
        <5>1. oldRenderContextTbl[i] = oldRenderContextTbl[n] BY <3>2, <3>4
        <5>2. i = n BY <3>1, <3>3, <3>5, <3>11, <5>1
        <5> QED BY <3>5, <5>2
      <4>6. OwnedByCleanup(c)' <=> c = curr' BY <3>2
      <4>7. ~OwnedByCleanup(c) BY <3>2
      <4>8. (OwnedByDriver(c)' <=> OwnedByDriver(c)) /\ deletes' = deletes BY <3>3
      <4> HIDE DEF OwnedByDriver, InTable, OwnedByCleanup
      <4> QED BY <4>1, <4>2, <4>3, <4>4, <4>5, <4>6, <4>7, <4>8
    <3>12. ASSUME ~raced', NEW i \in DOMAIN oldRenderContextTbl', NEW j \in DOMAIN oldRenderContextTbl',
                  oldRenderContextTbl'[i] = oldRenderContextTbl'[j]
           PROVE  i = j
      BY <3>1, <3>3, <3>4, <3>5, <3>12
    <3>13. OneOwner' BY <3>11, <3>12
    <3> QED BY <3>7, <3>8, <3>9, <3>10, <3>13
  <2>2. CASE oldRenderContextTbl = <<>>
    <3> USE <1>3, <1>a, <2>2 DEF CleanupTest
    <3>1. TypeOK' OBVIOUS
    <3>2. PointerAgrees' OBVIOUS
    <3>3. OnlyMadeContexts' OBVIOUS
    <3>4. EndAgrees' OBVIOUS
    <3>5. OneOwner' OBVIOUS
    <3> QED BY <3>1, <3>2, <3>3, <3>4, <3>5
  <2> QED BY <2>1, <2>2
<1>4. CASE CleanupBlock
  <2> USE <1>4, <1>a DEF CleanupBlock
  <2>1. TypeOK' OBVIOUS
  <2>2. PointerAgrees' OBVIOUS
  <2>3. OnlyMadeContexts' OBVIOUS
  <2>4. EndAgrees' OBVIOUS
  <2>5. OneOwner' OBVIOUS
  <2> QED BY <2>1, <2>2, <2>3, <2>4, <2>5
<1>5. CASE CleanupSpuriousWake
  <2> USE <1>5, <1>a DEF CleanupSpuriousWake
  <2>1. TypeOK' OBVIOUS
  <2>2. PointerAgrees' OBVIOUS
  <2>3. OnlyMadeContexts' OBVIOUS
  <2>4. EndAgrees' OBVIOUS
  <2>5. OneOwner' OBVIOUS
  <2> QED BY <2>1, <2>2, <2>3, <2>4, <2>5
<1>6. CASE CleanupDelete
  <2> USE <1>6, <1>a DEF CleanupDelete
  <2>1. TypeOK' OBVIOUS
  <2>2. PointerAgrees' OBVIOUS
  <2>3. OnlyMadeContexts' OBVIOUS
  <2>4. EndAgrees' OBVIOUS
  <2>5. OneOwner' OBVIOUS
  <2> QED BY <2>1, <2>2, <2>3, <2>4, <2>5
<1> QED BY <1>1, <1>2, <1>3, <1>4, <1>5, <1>6 DEF CleanupStep, CleanupProgress

(* The beginnings of calls, and the heartbeat thread. *)
LEMMA OthersKeepIInv ==
  ASSUME IInv, ResetBegin \/ DownFlag \/ HeartGet \/ HeartUse \/ HeartExit
  PROVE  IInv'
<1> USE DEF IInv, PointerAgrees, OnlyMadeContexts, EndAgrees, AfterFlag,
            AfterWatcher, AfterJoin, OneOwner, HasOneOwner, OwnedByDriver,
            InTable, OwnedByCleanup
<1>1. CASE ResetBegin
  <2> USE <1>1 DEF ResetBegin
  <2>1. TypeOK' OBVIOUS
  <2>2. PointerAgrees' OBVIOUS
  <2>3. OnlyMadeContexts' OBVIOUS
  <2>4. EndAgrees' OBVIOUS
  <2>5. OneOwner' OBVIOUS
  <2> QED BY <2>1, <2>2, <2>3, <2>4, <2>5
<1>2. CASE DownFlag
  <2> USE <1>2 DEF DownFlag, ShutdownFlag
  <2>1. TypeOK' OBVIOUS
  <2>2. PointerAgrees' OBVIOUS
  <2>3. OnlyMadeContexts' OBVIOUS
  <2>4. EndAgrees' OBVIOUS
  <2>5. OneOwner' OBVIOUS
  <2> QED BY <2>1, <2>2, <2>3, <2>4, <2>5
<1>3. CASE HeartGet
  <2> USE <1>3 DEF HeartGet
  <2>1. TypeOK'
    <3>1. raced' \in BOOLEAN OBVIOUS
    <3> QED BY <3>1
  <2>2. PointerAgrees' OBVIOUS
  <2>3. OnlyMadeContexts' OBVIOUS
  <2>4. EndAgrees' OBVIOUS
  <2>5. OneOwner' OBVIOUS
  <2> QED BY <2>1, <2>2, <2>3, <2>4, <2>5
<1>4. CASE HeartUse
  <2> USE <1>4 DEF HeartUse
  <2>1. TypeOK' OBVIOUS
  <2>2. PointerAgrees' OBVIOUS
  <2>3. OnlyMadeContexts' OBVIOUS
  <2>4. EndAgrees' OBVIOUS
  <2>5. OneOwner' OBVIOUS
  <2> QED BY <2>1, <2>2, <2>3, <2>4, <2>5
<1>5. CASE HeartExit
  <2> USE <1>5 DEF HeartExit
  <2>1. TypeOK' OBVIOUS
  <2>2. PointerAgrees' OBVIOUS
  <2>3. OnlyMadeContexts' OBVIOUS
  <2>4. EndAgrees' OBVIOUS
  <2>5. OneOwner' OBVIOUS
  <2> QED BY <2>1, <2>2, <2>3, <2>4, <2>5
<1> QED BY <1>1, <1>2, <1>3, <1>4, <1>5

LEMMA InitIInv == Init => IInv
<1> SUFFICES ASSUME Init PROVE IInv
  OBVIOUS
<1> USE DEF Init, ManagerInit
<1>1. TypeOK
  <2>1. threadShutdown \in BOOLEAN OBVIOUS
  <2>2. watcherShutdown \in BOOLEAN OBVIOUS
  <2>3. began \in BOOLEAN OBVIOUS
  <2>4. lost \in BOOLEAN OBVIOUS
  <2>5. heartShutdown \in BOOLEAN OBVIOUS
  <2>6. raced \in BOOLEAN OBVIOUS
  <2> QED BY <2>1, <2>2, <2>3, <2>4, <2>5, <2>6
<1>2. PointerAgrees BY DEF PointerAgrees
<1>3. OnlyMadeContexts BY DEF OnlyMadeContexts
<1>4. EndAgrees BY DEF EndAgrees, AfterFlag, AfterWatcher, AfterJoin
<1>5. OneOwner
  BY DEF OneOwner, HasOneOwner, OwnedByDriver, InTable, OwnedByCleanup
<1> QED BY <1>1, <1>2, <1>3, <1>4, <1>5 DEF IInv

(* Every step of any thread keeps the invariant. *)
THEOREM Invariance == Spec => []IInv
<1>1. IInv /\ [Next]_vars => IInv'
  <2> SUFFICES ASSUME IInv, [Next]_vars PROVE IInv'
    OBVIOUS
  <2>1. CASE UNCHANGED vars
    BY <2>1 DEF vars, IInv, PointerAgrees, OnlyMadeContexts, EndAgrees, OneOwner,
                HasOneOwner, OwnedByDriver, InTable, OwnedByCleanup
  <2>2. CASE Next
    BY <2>2, ResetKeepsIInv, DownKeepsIInv, CleanupKeepsIInv, OthersKeepIInv
    DEF Next, ArrasProgress, HeartProgress
  <2> QED BY <2>1, <2>2
<1> QED BY <1>1, InitIInv, PTL DEF Spec

(* Unless the heartbeat thread has met a null pointer, a context has exactly
   one owner until it is deleted once. *)
THEOREM EveryContextHasOneOwner == Spec => []OneOwner
<1>1. IInv => OneOwner BY DEF IInv
<1> QED BY <1>1, Invariance, PTL

(* When the driver and its manager are gone, every context has been deleted. *)
THEOREM NothingIsLeaked == Spec => []NothingLeftBehind
<1>1. IInv => NothingLeftBehind
  <2> SUFFICES ASSUME IInv, pc["arras"] = "down", began, ~raced, NEW c \in allocated
               PROVE  deletes[c] = 1
    BY DEF NothingLeftBehind
  <2>1. cpc = "exited" /\ oldRenderContextTbl = <<>>
    BY DEF IInv, EndAgrees, AfterFlag, AfterWatcher, AfterJoin
  <2>2. ~OwnedByDriver(c) BY DEF OwnedByDriver
  <2>3. ~InTable(c) /\ ~OwnedByCleanup(c) BY <2>1 DEF InTable, OwnedByCleanup
  <2>4. HasOneOwner(c) BY DEF IInv, OneOwner
  <2> QED BY <2>2, <2>3, <2>4 DEF HasOneOwner
<1> QED BY <1>1, Invariance, PTL

=============================================================================
