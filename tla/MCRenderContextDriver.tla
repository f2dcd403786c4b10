----------------------- MODULE MCRenderContextDriver -----------------------
(* RenderContextDriver for TLC.  Three messages: a scene, one that
   races with its frame, and one that meets what the race left behind.  Two levels of film
   activity: one that the first snapshot shows and one that it misses. *)
EXTENDS RenderContextDriver
=============================================================================
