-------------------- MODULE RenderContextDestructionManager --------------------
(***************************************************************************)
(* lib/engine/mcrt/RenderContextDestructionManager.cc: a thread that       *)
(* deletes the RenderContexts pushed to it, so that nobody waits for the   *)
(* deletion.                                                               *)
(*                                                                         *)
(* The cleanup thread's steps are actions.  What others do to the manager  *)
(* (push, notify, shut down) are operators that a composing module puts    *)
(* into the actions of the calling thread; MayPush tells it when the mutex *)
(* is free.  The mutex is never held over a step of a caller.  The cleanup *)
(* thread holds it over one: from testing its predicate to falling asleep. *)
(***************************************************************************)
EXTENDS Naturals, Sequences

CONSTANTS
  Contexts,  (* the RenderContexts *)
  None       (* nullptr            *)

ASSUME NoneIsNoContext == None \notin Contexts

VARIABLES
  oldRenderContextTbl,  (* mOldRenderContextTbl, back() is the last         *)
  threadShutdown,       (* mThreadShutdown                                  *)
  watcherShutdown,      (* mThreadShutdown of mOldRenderContextWatcher      *)
  cpc,                  (* where the cleanup thread is                      *)
  curr,                 (* currRenderContext, while it is being deleted     *)
  deletes,              (* history: how often each context was deleted      *)
  began,                (* history: the cleanup loop was entered            *)
  lost                  (* history: the destructor's wake-up reached nobody *)

managerShared == <<oldRenderContextTbl, threadShutdown, watcherShutdown>>
cleanup == <<cpc, curr, deletes, began>>
managerVars == <<managerShared, cleanup, lost>>

CleanupPc == {"enter", "test", "block", "sleep", "delete", "exitAfter", "exited"}

Back == oldRenderContextTbl[Len(oldRenderContextTbl)]
Popped == SubSeq(oldRenderContextTbl, 1, Len(oldRenderContextTbl) - 1)

ManagerInit ==
  /\ oldRenderContextTbl = <<>>
  /\ threadShutdown = FALSE
  /\ watcherShutdown = FALSE
  /\ cpc = "enter"
  /\ curr = None
  /\ deletes = [c \in Contexts |-> 0]
  /\ began = FALSE
  /\ lost = FALSE

(***************************************************************************)
(* What callers do.                                                        *)
(***************************************************************************)

(* Faulty variant: the context is deleted under the mutex. *)
MayPushUnlessDeleting == cpc \notin {"block", "delete"}

MayPush == cpc # "block"

(* push(c), up to the release of the mutex. *)
PushLocked(c) ==
  /\ MayPush
  /\ oldRenderContextTbl' = Append(oldRenderContextTbl, c)
  /\ UNCHANGED <<threadShutdown, watcherShutdown, cleanup, lost>>

(* Faulty variant: push() wakes nobody. *)
NotifyPushedNobody == UNCHANGED managerVars

(* notify_one() at the end of push(). *)
NotifyPushed ==
  /\ cpc' = IF cpc = "sleep" THEN "test" ELSE cpc
  /\ UNCHANGED <<managerShared, curr, deletes, began, lost>>

(* The destructor: the flag is raised without the mutex, ... *)
ShutdownFlag ==
  /\ threadShutdown' = TRUE
  /\ UNCHANGED <<oldRenderContextTbl, watcherShutdown, cleanup, lost>>

(* Faulty variant: the destructor wakes nobody. *)
ShutdownNotifyNobody == UNCHANGED managerVars

(* ... so a thread between its test and its sleep misses both the flag and
   the notification; ... *)
ShutdownNotify ==
  /\ cpc' = IF cpc = "sleep" THEN "test" ELSE cpc
  /\ lost' = (lost \/ cpc = "block")
  /\ UNCHANGED <<managerShared, curr, deletes, began>>

(* ... and Watcher::shutDown() raises its own flag and joins. *)
ShutdownWatcher ==
  /\ watcherShutdown' = TRUE
  /\ UNCHANGED <<oldRenderContextTbl, threadShutdown, cleanup, lost>>

Joined == cpc = "exited" /\ UNCHANGED managerVars

(***************************************************************************)
(* The cleanup thread.                                                     *)
(***************************************************************************)

(* Watcher::threadMain(), NON_STOP: the exit tests around the callback. *)
CleanupEnter ==
  /\ cpc = "enter"
  /\ cpc' = IF watcherShutdown THEN "exited" ELSE "test"
  /\ began' = (began \/ ~watcherShutdown)
  /\ UNCHANGED <<managerShared, curr, deletes, lost>>

CleanupExitAfter ==
  /\ cpc = "exitAfter"
  /\ cpc' = IF watcherShutdown THEN "exited" ELSE "enter"
  /\ UNCHANGED <<managerShared, curr, deletes, began, lost>>

(* Faulty variant: a context is read from the table and not removed. *)
CleanupTestPeek ==
  /\ cpc = "test"
  /\ cpc' = IF oldRenderContextTbl # <<>> THEN "delete"
            ELSE IF threadShutdown THEN "exitAfter" ELSE "block"
  /\ curr' = IF cpc' = "delete" THEN Back ELSE curr
  /\ UNCHANGED <<managerShared, deletes, began, lost>>

(* Under the mutex: take the newest context; with none left, leave the loop
   if the flag is up and go to sleep otherwise. *)
CleanupTest ==
  /\ cpc = "test"
  /\ \/ /\ oldRenderContextTbl # <<>>
        /\ cpc' = "delete"
        /\ curr' = Back
        /\ oldRenderContextTbl' = Popped
     \/ /\ oldRenderContextTbl = <<>>
        /\ cpc' = IF threadShutdown THEN "exitAfter" ELSE "block"
        /\ UNCHANGED <<curr, oldRenderContextTbl>>
  /\ UNCHANGED <<threadShutdown, watcherShutdown, deletes, began, lost>>

CleanupBlock ==
  /\ cpc = "block"
  /\ cpc' = "sleep"
  /\ UNCHANGED <<managerShared, curr, deletes, began, lost>>

CleanupSpuriousWake ==
  /\ cpc = "sleep"
  /\ cpc' = "test"
  /\ UNCHANGED <<managerShared, curr, deletes, began, lost>>

(* delete currRenderContext, without the mutex. *)
CleanupDelete ==
  /\ cpc = "delete"
  /\ cpc' = "test"
  /\ deletes' = [deletes EXCEPT ![curr] = @ + 1]
  /\ UNCHANGED <<managerShared, curr, began, lost>>

CleanupProgress ==
  \/ CleanupEnter \/ CleanupExitAfter \/ CleanupTest \/ CleanupBlock
  \/ CleanupDelete

=============================================================================
