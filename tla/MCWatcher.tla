----------------------------- MODULE MCWatcher -----------------------------
(* Watcher with two accepted resume() calls: the second one meets a thread
   that has already run, which is enough to reach every pair of positions of
   owner and thread. *)
EXTENDS Watcher
=============================================================================
