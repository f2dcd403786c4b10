----------------------------- MODULE StopAndGo -----------------------------
(***************************************************************************)
(* What a Watcher booted with RunMode::STOP_AND_GO promises its owner, as  *)
(* Watcher.h states it: the thread rests until resume(), runs the callback *)
(* once, and rests again.  A request that finds the thread not at rest is  *)
(* dropped, and after shutDown() no further callback begins.               *)
(***************************************************************************)

VARIABLES
  phase,  (* "WAIT": at rest, "START": requested, "BUSY": in the callback *)
  quit    (* shutDown() has been called                                   *)

vars == <<phase, quit>>

Init ==
  /\ phase = "WAIT"
  /\ quit = FALSE

(* resume() on a thread at rest. *)
Request ==
  /\ phase = "WAIT"
  /\ ~quit
  /\ phase' = "START"
  /\ quit' = quit

(* The thread commits itself to one run of the callback. *)
Begin ==
  /\ phase = "START"
  /\ ~quit
  /\ phase' = "BUSY"
  /\ quit' = quit

(* The callback has returned and the thread is at rest again. *)
End ==
  /\ phase = "BUSY"
  /\ phase' = "WAIT"
  /\ quit' = quit

(* shutDown() raises the flag; then it wakes a thread that is at rest. *)
Quit ==
  /\ ~quit
  /\ quit' = TRUE
  /\ phase' = phase

QuitWake ==
  /\ quit
  /\ phase = "WAIT"
  /\ phase' = "START"
  /\ quit' = quit

Next == Request \/ Begin \/ End \/ Quit \/ QuitWake

Spec == Init /\ [][Next]_vars

=============================================================================
