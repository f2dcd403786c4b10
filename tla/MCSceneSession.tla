----------------------------- MODULE MCSceneSession -----------------------------
EXTENDS SceneSession

(* An RDLMessage may set a region or turn it off, or set a viewport. *)
MCRdlWindows ==
  [roi : Regions \cup {"none", "kept"}, viewport : {"kept"}]
    \cup [roi : {"kept"}, viewport : Viewports]

(* The regions differ in nothing but their names. *)
RegionSymmetry == Permutations(Regions)
=================================================================================
