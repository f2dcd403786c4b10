------------------------ MODULE MCRenderContextLifetime ------------------------
(* RenderContextLifetime with four contexts: three resets, or two and one of
   the heartbeat thread's own. *)
EXTENDS RenderContextLifetime
=============================================================================
