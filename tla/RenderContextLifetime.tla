------------------------- MODULE RenderContextLifetime -------------------------
(***************************************************************************)
(* Who owns a RenderContext: RenderContextDriver::mRenderContext, the      *)
(* RenderContextDestructionManager, or nobody any more.                    *)
(*                                                                         *)
(* The driver's pointer is a plain pointer, replaced by the arras thread   *)
(* (resetRenderContext) and read by the heartbeat thread: heartBeatMain()  *)
(* reaches getRenderContext() through updateExecModeMcrtNodeInfo(), and    *)
(* getRenderContext() calls resetRenderContext() itself when it finds the  *)
(* pointer null.  One action is one access to the pointer or one step of   *)
(* the manager.  At the end the arras thread destroys the                  *)
(* RenderContextDriverManager, whose members die in reverse order: the     *)
(* destruction manager first, then the driver.                             *)
(***************************************************************************)
EXTENDS RenderContextDestructionManager, FiniteSets

VARIABLES
  renderContext,  (* mRenderContext                                         *)
  pc,             (* where the arras and the heartbeat thread are           *)
  ptr,            (* the context each of them holds a pointer to            *)
  heartShutdown,  (* mThreadShutdown of mHeartBeatWatcher                   *)
  allocated,      (* history: the contexts ever constructed                 *)
  raced           (* history: the heartbeat thread found mRenderContext null *)

driver == <<renderContext, pc, ptr, heartShutdown, allocated, raced>>
vars == <<managerVars, driver>>

Threads == {"arras", "heartBeat"}
ResetPc == {"take", "push", "notify", "null", "new"}
ThreadPc ==
  ResetPc \cup {"set", "ready", "use", "managerNotify", "managerWatcher",
                "managerJoin", "heartStop", "heartJoin", "deleteLast", "down"}

At(t, here) == pc[t] = here
Goto(t, there) == pc' = [pc EXCEPT ![t] = there]

(* The driver's constructor has made the first context. *)
Init ==
  /\ ManagerInit
  /\ renderContext \in Contexts
  /\ pc = [t \in Threads |-> "ready"]
  /\ ptr = [t \in Threads |-> None]
  /\ heartShutdown = FALSE
  /\ allocated = {renderContext}
  /\ raced = FALSE

(* Bound: a reset starts only when a context is left for it. *)
Spare ==
  Cardinality(Contexts \ allocated) > Cardinality({t \in Threads : pc[t] \in ResetPc})

(***************************************************************************)
(* resetRenderContext(), on either thread.                                 *)
(***************************************************************************)

(* Faulty variant: nullptr is pushed too. *)
ResetTakeUnchecked(t) ==
  /\ At(t, "take")
  /\ ptr' = [ptr EXCEPT ![t] = renderContext]
  /\ Goto(t, "push")
  /\ UNCHANGED <<managerVars, renderContext, heartShutdown, allocated, raced>>

(* if (mRenderContext) push(mRenderContext): the argument is read. *)
ResetTake(t) ==
  /\ At(t, "take")
  /\ ptr' = [ptr EXCEPT ![t] = renderContext]
  /\ Goto(t, IF renderContext = None THEN "new" ELSE "push")
  /\ UNCHANGED <<managerVars, renderContext, heartShutdown, allocated, raced>>

ResetPush(t) ==
  /\ At(t, "push")
  /\ PushLocked(ptr[t])
  /\ Goto(t, "notify")
  /\ UNCHANGED <<renderContext, ptr, heartShutdown, allocated, raced>>

ResetNotify(t) ==
  /\ At(t, "notify")
  /\ NotifyPushed
  /\ Goto(t, "null")
  /\ UNCHANGED <<renderContext, ptr, heartShutdown, allocated, raced>>

ResetNull(t) ==
  /\ At(t, "null")
  /\ renderContext' = None
  /\ Goto(t, "new")
  /\ UNCHANGED <<managerVars, ptr, heartShutdown, allocated, raced>>

ResetNew(t) ==
  /\ At(t, "new")
  /\ \E c \in Contexts \ allocated :
       /\ ptr' = [ptr EXCEPT ![t] = c]
       /\ allocated' = allocated \cup {c}
  /\ Goto(t, "set")
  /\ UNCHANGED <<managerVars, renderContext, heartShutdown, raced>>

(* The heartbeat thread goes on to use what it has made. *)
ResetSet(t) ==
  /\ At(t, "set")
  /\ renderContext' = ptr[t]
  /\ Goto(t, IF t = "arras" THEN "ready" ELSE "use")
  /\ UNCHANGED <<managerVars, ptr, heartShutdown, allocated, raced>>

Reset(t) ==
  \/ ResetTake(t) \/ ResetPush(t) \/ ResetNotify(t) \/ ResetNull(t)
  \/ ResetNew(t) \/ ResetSet(t)

(* The arras thread needs a new context: RenderSetup, forceReload, a changed
   viewport, a scene rebuilt from its backup. *)
ResetBegin ==
  /\ At("arras", "ready")
  /\ Spare
  /\ Goto("arras", "take")
  /\ UNCHANGED <<managerVars, renderContext, ptr, heartShutdown, allocated, raced>>

(***************************************************************************)
(* The heartbeat thread: getRenderContext(), then getCurrentExecutionMode()*)
(* on what it returned.                                                    *)
(***************************************************************************)

HeartGet ==
  /\ At("heartBeat", "ready")
  /\ ~heartShutdown
  /\ IF renderContext = None
     THEN Spare /\ Goto("heartBeat", "take") /\ raced' = TRUE /\ UNCHANGED ptr
     ELSE /\ Goto("heartBeat", "use")
          /\ ptr' = [ptr EXCEPT !["heartBeat"] = renderContext]
          /\ UNCHANGED raced
  /\ UNCHANGED <<managerVars, renderContext, heartShutdown, allocated>>

HeartUse ==
  /\ At("heartBeat", "use")
  /\ Goto("heartBeat", "ready")
  /\ UNCHANGED <<managerVars, renderContext, ptr, heartShutdown, allocated, raced>>

HeartExit ==
  /\ At("heartBeat", "ready")
  /\ heartShutdown
  /\ Goto("heartBeat", "down")
  /\ UNCHANGED <<managerVars, renderContext, ptr, heartShutdown, allocated, raced>>

(***************************************************************************)
(* The end: onStop() destroys the RenderContextDriverManager.              *)
(***************************************************************************)

DownFlag ==
  /\ At("arras", "ready")
  /\ ShutdownFlag
  /\ Goto("arras", "managerNotify")
  /\ UNCHANGED <<renderContext, ptr, heartShutdown, allocated, raced>>

DownNotify ==
  /\ At("arras", "managerNotify")
  /\ ShutdownNotify
  /\ Goto("arras", "managerWatcher")
  /\ UNCHANGED <<renderContext, ptr, heartShutdown, allocated, raced>>

DownWatcher ==
  /\ At("arras", "managerWatcher")
  /\ ShutdownWatcher
  /\ Goto("arras", "managerJoin")
  /\ UNCHANGED <<renderContext, ptr, heartShutdown, allocated, raced>>

DownJoin ==
  /\ At("arras", "managerJoin")
  /\ Joined
  /\ Goto("arras", "heartStop")
  /\ UNCHANGED <<renderContext, ptr, heartShutdown, allocated, raced>>

(* ~RenderContextDriver(): shut the watchers down, delete the last context. *)
DownHeart ==
  /\ At("arras", "heartStop")
  /\ heartShutdown' = TRUE
  /\ Goto("arras", "heartJoin")
  /\ UNCHANGED <<managerVars, renderContext, ptr, allocated, raced>>

DownHeartJoin ==
  /\ At("arras", "heartJoin")
  /\ At("heartBeat", "down")
  /\ Goto("arras", "deleteLast")
  /\ UNCHANGED <<managerVars, renderContext, ptr, heartShutdown, allocated, raced>>

(* Faulty variant: the last context is left to the destruction manager. *)
DownDeleteNothing ==
  /\ At("arras", "deleteLast")
  /\ Goto("arras", "down")
  /\ UNCHANGED <<managerVars, renderContext, ptr, heartShutdown, allocated, raced>>

DownDelete ==
  /\ At("arras", "deleteLast")
  /\ deletes' = IF renderContext = None THEN deletes
                ELSE [deletes EXCEPT ![renderContext] = @ + 1]
  /\ Goto("arras", "down")
  /\ UNCHANGED <<managerShared, cpc, curr, began, lost, renderContext, ptr,
                 heartShutdown, allocated, raced>>

Down ==
  \/ DownNotify \/ DownWatcher \/ DownJoin \/ DownHeart \/ DownHeartJoin
  \/ DownDelete

(***************************************************************************)
(* The specification.                                                      *)
(***************************************************************************)

ArrasProgress == Reset("arras") \/ Down
HeartProgress == Reset("heartBeat") \/ HeartUse \/ HeartExit
CleanupStep == (CleanupProgress \/ CleanupSpuriousWake) /\ UNCHANGED driver

Next ==
  \/ ResetBegin \/ DownFlag \/ ArrasProgress
  \/ HeartGet \/ HeartProgress
  \/ CleanupStep

Spec == Init /\ [][Next]_vars

(* Every thread is run, and gets a mutex that is free again and again; but a
   deletion may take for ever. *)
FairSpec ==
  /\ Spec
  /\ SF_vars(ArrasProgress)
  /\ SF_vars(HeartProgress)
  /\ WF_vars(CleanupProgress /\ cpc # "delete" /\ UNCHANGED driver)

(***************************************************************************)
(* Properties.                                                             *)
(***************************************************************************)

TypeOK ==
  /\ oldRenderContextTbl \in Seq(Contexts)
  /\ threadShutdown \in BOOLEAN
  /\ watcherShutdown \in BOOLEAN
  /\ cpc \in CleanupPc
  /\ curr \in Contexts \cup {None}
  /\ deletes \in [Contexts -> Nat]
  /\ began \in BOOLEAN
  /\ lost \in BOOLEAN
  /\ renderContext \in Contexts \cup {None}
  /\ pc \in [Threads -> ThreadPc]
  /\ ptr \in [Threads -> Contexts \cup {None}]
  /\ heartShutdown \in BOOLEAN
  /\ allocated \in SUBSET Contexts
  /\ raced \in BOOLEAN
  /\ \A t \in Threads : pc[t] \in {"push", "set"} => ptr[t] # None
  /\ cpc = "delete" => curr # None

InTable(c) == \E i \in DOMAIN oldRenderContextTbl : oldRenderContextTbl[i] = c

(* The driver owns a context from its construction to its push. *)
OwnedByDriver(c) ==
  \/ renderContext = c /\ pc["arras"] \notin {"notify", "null", "set", "down"}
  \/ ptr["arras"] = c /\ pc["arras"] = "set"

OwnedByCleanup(c) == cpc = "delete" /\ curr = c

HasOneOwner(c) ==
  /\ OwnedByDriver(c) \/ InTable(c) \/ OwnedByCleanup(c) \/ deletes[c] = 1
  /\ OwnedByDriver(c) => ~InTable(c) /\ ~OwnedByCleanup(c) /\ deletes[c] = 0
  /\ InTable(c) => ~OwnedByCleanup(c) /\ deletes[c] = 0
  /\ OwnedByCleanup(c) => deletes[c] = 0

(* Every context has one owner until it is deleted, and is deleted once: by
   the cleanup thread or by the driver's destructor, whose manager is gone by
   then.  It takes the heartbeat thread's meeting a null pointer to break it. *)
OneOwner ==
  ~raced =>
    /\ \A c \in allocated : HasOneOwner(c)
    /\ \A i, j \in DOMAIN oldRenderContextTbl :
         oldRenderContextTbl[i] = oldRenderContextTbl[j] => i = j

(* onStop() leaves no context behind; unless the cleanup thread was never run
   before it was told to exit, for Watcher's first exit test precedes the
   callback. *)
NothingLeftBehind ==
  pc["arras"] = "down" /\ began /\ ~raced => \A c \in allocated : deletes[c] = 1

(* A pushed context never waits for a thread that sleeps: push() cannot lose
   its notification, since the mutex orders it against the predicate's test.
   Only a thread that never began leaves it, and one already joined when the
   heartbeat thread pushes. *)
BacklogIsTaken == oldRenderContextTbl # <<>> ~> (cpc = "delete" \/ ~began \/ raced)

(* What the class is for: a new context is there without waiting for the
   deletion of the old one, even if that never ends. *)
ResetDoesNotWait == pc["arras"] = "take" ~> pc["arras"] = "ready"

(* onStop() returns once the deletions are done, unless the wake-up call of
   the manager's destructor was lost. *)
ShutDownReturnsOrIsLost ==
  WF_vars(CleanupDelete /\ UNCHANGED driver) =>
    (pc["arras"] = "managerNotify" ~> (pc["arras"] = "down" \/ lost))

(* The header of RenderContextDestructionManager: it "deletes previously
   allocated unnecessary old RenderContext".  A context that a thread is about
   to use is not unnecessary. *)
DeletedIsUnnecessary ==
  pc["heartBeat"] = "use" => deletes[ptr["heartBeat"]] = 0

(***************************************************************************)
(* The inductive invariant behind OneOwner and NothingLeftBehind.          *)
(***************************************************************************)

AfterFlag == {"managerNotify", "managerWatcher", "managerJoin", "heartStop",
              "heartJoin", "deleteLast", "down"}
AfterWatcher == AfterFlag \ {"managerNotify", "managerWatcher"}
AfterJoin == AfterWatcher \ {"managerJoin"}

(* The pointer is null just while the arras thread makes a new context. *)
PointerAgrees ==
  ~raced =>
    /\ renderContext = None <=> pc["arras"] \in {"new", "set"}
    /\ pc["arras"] = "push" => ptr["arras"] = renderContext
    /\ pc["heartBeat"] \in {"ready", "use", "down"}

(* Nobody holds a context that was never made. *)
OnlyMadeContexts ==
  /\ \A c \in Contexts \ allocated : deletes[c] = 0
  /\ renderContext \in allocated \cup {None}
  /\ \A t \in Threads : ptr[t] \in allocated \cup {None}
  /\ \A i \in DOMAIN oldRenderContextTbl : oldRenderContextTbl[i] \in allocated
  /\ curr \in allocated \cup {None}

(* How far the end has come, and what the cleanup thread has done about it. *)
EndAgrees ==
  /\ threadShutdown <=> pc["arras"] \in AfterFlag
  /\ watcherShutdown <=> pc["arras"] \in AfterWatcher
  /\ pc["arras"] \in AfterJoin => cpc = "exited"
  /\ cpc = "exited" => watcherShutdown
  /\ cpc \notin {"enter", "exited"} => began
  /\ cpc = "exitAfter" => threadShutdown
  /\ cpc = "enter" /\ began => threadShutdown
  /\ ~raced /\ began /\ cpc \in {"exitAfter", "enter", "exited"} =>
       oldRenderContextTbl = <<>>

IInv ==
  /\ TypeOK
  /\ PointerAgrees
  /\ OnlyMadeContexts
  /\ EndAgrees
  /\ OneOwner

=============================================================================
