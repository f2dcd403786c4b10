------------------------------ MODULE Watcher ------------------------------
(***************************************************************************)
(* lib/engine/mcrt/Watcher.cc: a thread that runs one callback, over and   *)
(* over (NON_STOP) or once per resume() (STOP_AND_GO).                     *)
(*                                                                         *)
(* Two threads step: the owner, which calls boot(), resume() and           *)
(* shutDown(), and the watcher thread, which runs threadMain().  One       *)
(* action is one access to the state they share.  Each of the two mutexes  *)
(* is locked by one thread only (mMutexBoot by the owner, mMutexRun by the *)
(* watcher thread), so neither excludes anything and neither is modelled.  *)
(* What is modelled is the consequence: the writes to mThreadState and     *)
(* mRunState and the notify_one() calls can fall between a waiter's test   *)
(* of its predicate and its going to sleep.  A notification that does so   *)
(* reaches nobody; runLost and bootLost record it.                         *)
(*                                                                         *)
(* mThreadShutdown is a plain bool.  It is written before and read after   *)
(* sequentially consistent accesses of mRunState, so it is taken to be     *)
(* read as last written.                                                   *)
(***************************************************************************)
EXTENDS Naturals

CONSTANT MaxResume  (* bound: how many resume() calls may be accepted *)

ASSUME MaxResumeAssumption == MaxResume \in Nat

VARIABLES
  runMode,         (* mRunMode, the argument of boot()                      *)
  threadState,     (* mThreadState                                          *)
  runState,        (* mRunState                                             *)
  threadShutdown,  (* mThreadShutdown                                       *)
  opc,             (* where the owner is                                    *)
  tpc,             (* where the watcher thread is                           *)
  requests,        (* history: resume() calls that found WAIT               *)
  runs,            (* history: callbacks begun under STOP_AND_GO            *)
  bootLost,        (* history: a notification of mCvBoot reached nobody     *)
  runLost          (* history: a notification of mCvRun reached nobody      *)

shared == <<threadState, runState, threadShutdown>>
history == <<requests, runs, bootLost, runLost>>
vars == <<runMode, shared, opc, tpc, history>>

RunModes == {"STOP_AND_GO", "NON_STOP"}
OwnerPc ==
  {"new", "bootTest", "bootBlock", "bootSleep", "ready", "resumeSet",
   "resumeNotify", "downStart", "downNotify", "join", "down"}
ThreadPc ==
  {"unborn", "idle", "notifyBoot", "mode", "test", "block", "sleep",
   "exitBefore", "busy", "call", "setWait", "exitAfter", "exited"}

StopAndGoMode == runMode = "STOP_AND_GO"

(***************************************************************************)
(* The owner.                                                              *)
(***************************************************************************)

(* boot(): spawn the thread, then wait until mThreadState is not INIT. *)
Boot ==
  /\ opc = "new"
  /\ opc' = "bootTest"
  /\ tpc' = "idle"
  /\ UNCHANGED <<runMode, shared, history>>

BootTest ==
  /\ opc = "bootTest"
  /\ opc' = IF threadState = "INIT" THEN "bootBlock" ELSE "ready"
  /\ UNCHANGED <<runMode, shared, tpc, history>>

BootBlock ==
  /\ opc = "bootBlock"
  /\ opc' = "bootSleep"
  /\ UNCHANGED <<runMode, shared, tpc, history>>

(* resume(): nothing unless mRunState is WAIT. *)
ResumeTest ==
  /\ opc = "ready"
  /\ StopAndGoMode
  /\ requests < MaxResume
  /\ runState = "WAIT"
  /\ opc' = "resumeSet"
  /\ UNCHANGED <<runMode, shared, tpc, history>>

ResumeSet ==
  /\ opc = "resumeSet"
  /\ runState' = "START"
  /\ requests' = requests + 1
  /\ opc' = "resumeNotify"
  /\ UNCHANGED <<runMode, threadState, threadShutdown, tpc, runs,
                 bootLost, runLost>>

(* Faulty variant: nobody is notified. *)
NotifyRunNobody ==
  /\ UNCHANGED tpc
  /\ UNCHANGED runLost

(* mCvRun.notify_one(): wakes the thread if it sleeps.  The other outcomes
   matter only when the thread has tested the predicate and is on its way
   to sleep: then the notification is lost. *)
NotifyRun ==
  /\ tpc' = IF tpc = "sleep" THEN "test" ELSE tpc
  /\ runLost' = (runLost \/ tpc = "block")

ResumeNotify ==
  /\ opc = "resumeNotify"
  /\ NotifyRun
  /\ opc' = "ready"
  /\ UNCHANGED <<runMode, shared, requests, runs, bootLost>>

(* shutDown(): flag, START, notification, join. *)
ShutDownFlag ==
  /\ opc = "ready"
  /\ threadShutdown' = TRUE
  /\ opc' = "downStart"
  /\ UNCHANGED <<runMode, threadState, runState, tpc, history>>

ShutDownStart ==
  /\ opc = "downStart"
  /\ runState' = "START"
  /\ opc' = "downNotify"
  /\ UNCHANGED <<runMode, threadState, threadShutdown, tpc, history>>

ShutDownNotify ==
  /\ opc = "downNotify"
  /\ NotifyRun
  /\ opc' = "join"
  /\ UNCHANGED <<runMode, shared, requests, runs, bootLost>>

Join ==
  /\ opc = "join"
  /\ tpc = "exited"
  /\ opc' = "down"
  /\ UNCHANGED <<runMode, shared, tpc, history>>

(***************************************************************************)
(* threadMain().                                                           *)
(***************************************************************************)

StepTo(from, to) ==
  /\ tpc = from
  /\ tpc' = to

ThreadIdle ==
  /\ StepTo("idle", "notifyBoot")
  /\ threadState' = "IDLE"
  /\ UNCHANGED <<runMode, runState, threadShutdown, opc, history>>

(* mCvBoot.notify_one(), lost when the owner is on its way to sleep. *)
ThreadNotifyBoot ==
  /\ StepTo("notifyBoot", "mode")
  /\ opc' = IF opc = "bootSleep" THEN "bootTest" ELSE opc
  /\ bootLost' = (bootLost \/ opc = "bootBlock")
  /\ UNCHANGED <<runMode, shared, requests, runs, runLost>>

ThreadMode ==
  /\ StepTo("mode", "test")
  /\ runState' = IF StopAndGoMode THEN runState ELSE "START"
  /\ UNCHANGED <<runMode, threadState, threadShutdown, opc, history>>

(* mCvRun.wait(): test the predicate, sleep while it is false. *)
ThreadTest ==
  /\ StepTo("test", IF runState = "START" THEN "exitBefore" ELSE "block")
  /\ UNCHANGED <<runMode, shared, opc, history>>

ThreadBlock ==
  /\ StepTo("block", "sleep")
  /\ UNCHANGED <<runMode, shared, opc, history>>

(* A condition variable may wake a waiter for no reason. *)
ThreadSpuriousWake ==
  /\ StepTo("sleep", "test")
  /\ UNCHANGED <<runMode, shared, opc, history>>

(* Faulty variant: without the exit test before the callback. *)
ThreadExitBeforeUntested ==
  /\ StepTo("exitBefore", "busy")
  /\ UNCHANGED <<runMode, shared, opc, history>>

ThreadExitBefore ==
  /\ StepTo("exitBefore", IF threadShutdown THEN "exited" ELSE "busy")
  /\ UNCHANGED <<runMode, shared, opc, history>>

(* Faulty variant: WAIT is set before the callback and not after it. *)
ThreadBusyWaits ==
  /\ StepTo("busy", "call")
  /\ threadState' = "BUSY"
  /\ runState' = IF StopAndGoMode THEN "WAIT" ELSE runState
  /\ runs' = IF StopAndGoMode THEN runs + 1 ELSE runs
  /\ UNCHANGED <<runMode, threadShutdown, opc, requests, bootLost, runLost>>

ThreadBusy ==
  /\ StepTo("busy", "call")
  /\ threadState' = "BUSY"
  /\ runs' = IF StopAndGoMode THEN runs + 1 ELSE runs
  /\ UNCHANGED <<runMode, runState, threadShutdown, opc, requests,
                 bootLost, runLost>>

(* callBack() returns. *)
ThreadCall ==
  /\ StepTo("call", "setWait")
  /\ threadState' = "IDLE"
  /\ UNCHANGED <<runMode, runState, threadShutdown, opc, history>>

(* Faulty variant: mRunState is left at START. *)
ThreadSetWaitForgotten ==
  /\ StepTo("setWait", "exitAfter")
  /\ UNCHANGED <<runMode, shared, opc, history>>

ThreadSetWait ==
  /\ StepTo("setWait", "exitAfter")
  /\ runState' = IF StopAndGoMode THEN "WAIT" ELSE runState
  /\ UNCHANGED <<runMode, threadState, threadShutdown, opc, history>>

(* Faulty variant: without the exit test after the callback. *)
ThreadExitAfterUntested ==
  /\ StepTo("exitAfter", "test")
  /\ UNCHANGED <<runMode, shared, opc, history>>

ThreadExitAfter ==
  /\ StepTo("exitAfter", IF threadShutdown THEN "exited" ELSE "test")
  /\ UNCHANGED <<runMode, shared, opc, history>>

(***************************************************************************)
(* The specification.                                                      *)
(***************************************************************************)

Init ==
  /\ runMode \in RunModes
  /\ threadState = "INIT"
  /\ runState = "WAIT"
  /\ threadShutdown = FALSE
  /\ opc = "new"
  /\ tpc = "unborn"
  /\ requests = 0
  /\ runs = 0
  /\ bootLost = FALSE
  /\ runLost = FALSE

(* The steps inside a call; which call is made next is the owner's choice. *)
OwnerInCall ==
  \/ BootTest \/ BootBlock \/ ResumeSet \/ ResumeNotify
  \/ ShutDownStart \/ ShutDownNotify \/ Join

OwnerNext ==
  \/ Boot
  \/ ResumeTest
  \/ ShutDownFlag
  \/ OwnerInCall

ThreadProgress ==
  \/ ThreadIdle \/ ThreadNotifyBoot \/ ThreadMode \/ ThreadTest \/ ThreadBlock
  \/ ThreadExitBefore \/ ThreadBusy \/ ThreadCall \/ ThreadSetWait
  \/ ThreadExitAfter

Next == OwnerNext \/ ThreadProgress \/ ThreadSpuriousWake

Spec == Init /\ [][Next]_vars

(* The operating system runs both threads, and the callback returns.  No
   fairness for spurious wakes: nothing promises them. *)
FairSpec == Spec /\ WF_vars(OwnerInCall) /\ WF_vars(ThreadProgress)

(***************************************************************************)
(* Properties.                                                             *)
(***************************************************************************)

TypeOK ==
  /\ runMode \in RunModes
  /\ threadState \in {"INIT", "IDLE", "BUSY"}
  /\ runState \in {"WAIT", "START"}
  /\ threadShutdown \in BOOLEAN
  /\ opc \in OwnerPc
  /\ tpc \in ThreadPc
  /\ requests \in Nat
  /\ runs \in Nat
  /\ bootLost \in BOOLEAN
  /\ runLost \in BOOLEAN

(* isRunStateWait() lets the arras thread touch, without a lock, everything
   renderPrepMain() touches.  That is sound because WAIT is never visible
   while a callback runs or is about to. *)
WaitMeansQuiet ==
  runState = "WAIT" => tpc \notin {"exitBefore", "busy", "call", "setWait"}

(* Every accepted resume() is answered by one callback: none is merged with
   an earlier one, and none runs unasked, not even when shutDown() writes
   START over WAIT. *)
OneRunPerResume ==
  StopAndGoMode => runs <= requests /\ requests <= runs + 1

(* A sleeping thread has no work and no order to exit, or its wake-up call is
   on the way, or that call was lost between the thread's test and its sleep.
   In particular the WAIT the thread writes after a callback never hides the
   START of a concurrent shutDown(); and boot() sleeps on the same terms. *)
SleepsForAReason ==
  /\ tpc = "sleep" =>
       \/ runState = "WAIT" /\ ~threadShutdown
       \/ opc \in {"resumeNotify", "downStart", "downNotify"}
       \/ runLost
  /\ opc = "bootSleep" => threadState = "INIT" \/ tpc = "notifyBoot" \/ bootLost

(* An accepted resume() starts the callback, unless its notification is lost
   or the watcher is shut down first. *)
ResumeRunsOrIsLost ==
  runs < requests ~> (runs = requests \/ runLost \/ threadShutdown)

(* shutDown() joins the thread, whatever the thread was doing, unless a
   notification is lost. *)
ShutDownReturnsOrIsLost ==
  opc = "downStart" ~> (opc = "down" \/ runLost)

(* The watcher, seen through its owner's eyes. *)
AbstractPhase ==
  IF ~StopAndGoMode \/ runState = "WAIT" THEN "WAIT"
  ELSE IF tpc \in {"busy", "call", "setWait"} THEN "BUSY" ELSE "START"

SG == INSTANCE StopAndGo WITH
        phase <- AbstractPhase,
        quit <- StopAndGoMode /\ threadShutdown

(* A STOP_AND_GO watcher implements StopAndGo. *)
ImplementsStopAndGo == SG!Spec

(***************************************************************************)
(* The inductive invariant behind the safety properties.                   *)
(***************************************************************************)

DownPc == {"downStart", "downNotify", "join", "down"}
CallPc == {"exitBefore", "busy", "call", "setWait"}

(* Where one thread is tells what the other one has seen. *)
PcAgree ==
  /\ opc = "new" <=> tpc = "unborn"
  /\ threadState = "INIT" <=> tpc \in {"unborn", "idle"}
  /\ threadState = "INIT" =>
       opc \in {"new", "bootTest", "bootBlock", "bootSleep"}
  /\ threadShutdown <=> opc \in DownPc
  /\ tpc = "exited" => threadShutdown

(* What mRunState says at the places where it is not free. *)
RunStateAgree ==
  /\ tpc \in CallPc => runState = "START"
  /\ opc = "resumeSet" => StopAndGoMode /\ runState = "WAIT"
  /\ (opc \in {"downNotify", "join", "down"}
      /\ tpc \notin CallPc \cup {"exitAfter", "exited"}) => runState = "START"

(* A request is open from the START of resume() to the callback. *)
Accounted ==
  StopAndGoMode =>
    /\ ~threadShutdown =>
         IF runState = "START" /\ tpc \notin {"call", "setWait"}
         THEN requests = runs + 1 ELSE requests = runs
    /\ threadShutdown =>
         /\ runs <= requests
         /\ requests <= runs + 1
         /\ tpc = "busy" => runs < requests

(* Who is on the way to sleep is judged like who sleeps. *)
WakeUpsAccounted ==
  /\ tpc \in {"block", "sleep"} =>
       \/ runState = "WAIT" /\ ~threadShutdown
       \/ opc \in {"resumeNotify", "downStart", "downNotify"}
       \/ runLost
  /\ opc \in {"bootBlock", "bootSleep"} =>
       threadState = "INIT" \/ tpc = "notifyBoot" \/ bootLost

IInv ==
  /\ TypeOK
  /\ PcAgree
  /\ RunStateAgree
  /\ Accounted
  /\ WakeUpsAccounted

=============================================================================
