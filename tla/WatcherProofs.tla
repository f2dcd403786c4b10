--------------------------- MODULE WatcherProofs ---------------------------
(***************************************************************************)
(* Proofs about Watcher, for every number of resume() calls and for both   *)
(* run modes.  IInv is inductive; the safety properties and the refinement *)
(* of StopAndGo follow from it.                                            *)
(***************************************************************************)
EXTENDS Watcher, TLAPS

(* The parts of the invariant and the sets they speak of. *)
USE DEF TypeOK, PcAgree, RunStateAgree, Accounted, WakeUpsAccounted,
        RunModes, OwnerPc, ThreadPc, DownPc, CallPc, StopAndGoMode

LEMMA InitIInv == Init => IInv
<1> SUFFICES ASSUME Init PROVE IInv OBVIOUS
<1> USE DEF Init
<1>1. TypeOK OBVIOUS
<1>2. PcAgree OBVIOUS
<1>3. RunStateAgree OBVIOUS
<1>4. Accounted OBVIOUS
<1>5. WakeUpsAccounted OBVIOUS
<1> QED BY <1>1, <1>2, <1>3, <1>4, <1>5 DEF IInv

(* No access of the owner breaks the invariant. *)
LEMMA OwnerKeepsIInv ==
  ASSUME IInv, OwnerNext
  PROVE  IInv'
<1> USE DEF IInv, shared, history
<1>1. CASE Boot BY <1>1 DEF Boot
<1>2. CASE ResumeTest BY <1>2 DEF ResumeTest
<1>3. CASE ShutDownFlag BY <1>3 DEF ShutDownFlag
<1>4. CASE BootTest BY <1>4 DEF BootTest
<1>5. CASE BootBlock BY <1>5 DEF BootBlock
<1>6. CASE ResumeSet BY <1>6 DEF ResumeSet
<1>7. CASE ResumeNotify BY <1>7 DEF ResumeNotify, NotifyRun
<1>8. CASE ShutDownStart BY <1>8 DEF ShutDownStart
<1>9. CASE ShutDownNotify BY <1>9 DEF ShutDownNotify, NotifyRun
<1>10. CASE Join BY <1>10 DEF Join
<1> QED
  BY <1>1, <1>2, <1>3, <1>4, <1>5, <1>6, <1>7, <1>8, <1>9, <1>10
  DEF OwnerNext, OwnerInCall

(* Nor does any access of the watcher thread. *)
LEMMA ThreadKeepsIInv ==
  ASSUME IInv, ThreadProgress \/ ThreadSpuriousWake
  PROVE  IInv'
<1> USE DEF IInv, shared, history, StepTo
<1>1. CASE ThreadIdle BY <1>1 DEF ThreadIdle
<1>2. CASE ThreadNotifyBoot BY <1>2 DEF ThreadNotifyBoot
<1>3. CASE ThreadMode BY <1>3 DEF ThreadMode
<1>4. CASE ThreadTest BY <1>4 DEF ThreadTest
<1>5. CASE ThreadBlock BY <1>5 DEF ThreadBlock
<1>6. CASE ThreadSpuriousWake BY <1>6 DEF ThreadSpuriousWake
<1>7. CASE ThreadExitBefore BY <1>7 DEF ThreadExitBefore
<1>8. CASE ThreadBusy BY <1>8 DEF ThreadBusy
<1>9. CASE ThreadCall BY <1>9 DEF ThreadCall
<1>10. CASE ThreadSetWait BY <1>10 DEF ThreadSetWait
<1>11. CASE ThreadExitAfter BY <1>11 DEF ThreadExitAfter
<1> QED
  BY <1>1, <1>2, <1>3, <1>4, <1>5, <1>6, <1>7, <1>8, <1>9, <1>10, <1>11
  DEF ThreadProgress

LEMMA NextKeepsIInv == IInv /\ [Next]_vars => IInv'
<1> SUFFICES ASSUME IInv, [Next]_vars PROVE IInv' OBVIOUS
<1>1. CASE OwnerNext BY <1>1, OwnerKeepsIInv
<1>2. CASE ThreadProgress \/ ThreadSpuriousWake BY <1>2, ThreadKeepsIInv
<1>3. CASE UNCHANGED vars BY <1>3 DEF IInv, vars, shared, history
<1> QED BY <1>1, <1>2, <1>3 DEF Next

(* Where the two threads are and what they have written always agree. *)
THEOREM Invariance == Spec => []IInv
  BY InitIInv, NextKeepsIInv, PTL DEF Spec

(* Types, of every variable. *)
THEOREM TypeCorrect == Spec => []TypeOK
<1>1. IInv => TypeOK BY DEF IInv
<1> QED BY <1>1, Invariance, PTL

(* The guard of the arras thread: WAIT is seen only of a quiet thread. *)
THEOREM WaitIsQuiet == Spec => []WaitMeansQuiet
<1>1. IInv => WaitMeansQuiet BY DEF IInv, WaitMeansQuiet
<1> QED BY <1>1, Invariance, PTL

(* No resume() is merged with another and no callback runs unasked. *)
THEOREM RunsMatchRequests == Spec => []OneRunPerResume
<1>1. IInv => OneRunPerResume BY DEF IInv, OneRunPerResume
<1> QED BY <1>1, Invariance, PTL

(* Whoever sleeps with work to do owes it to a lost notification. *)
THEOREM SleepHasAReason == Spec => []SleepsForAReason
<1>1. IInv => SleepsForAReason BY DEF IInv, SleepsForAReason
<1> QED BY <1>1, Invariance, PTL

(***************************************************************************)
(* The refinement.                                                         *)
(***************************************************************************)

LEMMA InitRefines == Init => SG!Init
  BY DEF Init, SG!Init, AbstractPhase

LEMMA OwnerRefines ==
  ASSUME IInv, OwnerNext
  PROVE  [SG!Next]_(SG!vars)
<1> USE DEF IInv, shared, history, AbstractPhase, SG!vars
<1>1. CASE Boot BY <1>1 DEF Boot
<1>2. CASE ResumeTest BY <1>2 DEF ResumeTest
<1>3. CASE ShutDownFlag BY <1>3 DEF ShutDownFlag, SG!Next, SG!Quit
<1>4. CASE BootTest BY <1>4 DEF BootTest
<1>5. CASE BootBlock BY <1>5 DEF BootBlock
<1>6. CASE ResumeSet BY <1>6 DEF ResumeSet, SG!Next, SG!Request
<1>7. CASE ResumeNotify BY <1>7 DEF ResumeNotify, NotifyRun
<1>8. CASE ShutDownStart BY <1>8 DEF ShutDownStart, SG!Next, SG!QuitWake
<1>9. CASE ShutDownNotify BY <1>9 DEF ShutDownNotify, NotifyRun
<1>10. CASE Join BY <1>10 DEF Join
<1> QED
  BY <1>1, <1>2, <1>3, <1>4, <1>5, <1>6, <1>7, <1>8, <1>9, <1>10
  DEF OwnerNext, OwnerInCall

LEMMA ThreadRefines ==
  ASSUME IInv, ThreadProgress \/ ThreadSpuriousWake
  PROVE  [SG!Next]_(SG!vars)
<1> USE DEF IInv, shared, history, StepTo, AbstractPhase, SG!vars
<1>1. CASE ThreadIdle BY <1>1 DEF ThreadIdle
<1>2. CASE ThreadNotifyBoot BY <1>2 DEF ThreadNotifyBoot
<1>3. CASE ThreadMode BY <1>3 DEF ThreadMode
<1>4. CASE ThreadTest BY <1>4 DEF ThreadTest
<1>5. CASE ThreadBlock BY <1>5 DEF ThreadBlock
<1>6. CASE ThreadSpuriousWake BY <1>6 DEF ThreadSpuriousWake
<1>7. CASE ThreadExitBefore
  BY <1>7 DEF ThreadExitBefore, SG!Next, SG!Begin
<1>8. CASE ThreadBusy BY <1>8 DEF ThreadBusy
<1>9. CASE ThreadCall BY <1>9 DEF ThreadCall
<1>10. CASE ThreadSetWait BY <1>10 DEF ThreadSetWait, SG!Next, SG!End
<1>11. CASE ThreadExitAfter BY <1>11 DEF ThreadExitAfter
<1> QED
  BY <1>1, <1>2, <1>3, <1>4, <1>5, <1>6, <1>7, <1>8, <1>9, <1>10, <1>11
  DEF ThreadProgress

(* Seen through mRunState and the flag, the watcher is StopAndGo. *)
THEOREM Refinement == Spec => ImplementsStopAndGo
<1>1. IInv /\ [Next]_vars => [SG!Next]_(SG!vars)
  <2> SUFFICES ASSUME IInv, [Next]_vars PROVE [SG!Next]_(SG!vars) OBVIOUS
  <2>1. CASE OwnerNext BY <2>1, OwnerRefines
  <2>2. CASE ThreadProgress \/ ThreadSpuriousWake BY <2>2, ThreadRefines
  <2>3. CASE UNCHANGED vars
    BY <2>3 DEF vars, shared, AbstractPhase, SG!vars
  <2> QED BY <2>1, <2>2, <2>3 DEF Next
<1> QED BY <1>1, InitRefines, Invariance, PTL DEF Spec, ImplementsStopAndGo, SG!Spec

=============================================================================
