------------------------- MODULE MCProgMcrtComputation -------------------------
(* ProgMcrtComputation without rate control, with one credit and with two. *)
EXTENDS ProgMcrtComputation
TriedCredits == {-1, 1, 2}
=============================================================================
