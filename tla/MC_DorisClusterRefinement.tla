--------------------- MODULE MC_DorisClusterRefinement ---------------------
(* Model-checking instance of the refinement: two configuration contents, *)
(* two replica counts, model values for the nil markers.                  *)
EXTENDS DorisClusterRefinement

CONSTANTS c1, c2

MCConfs == {c1, c2}
MCReps == {1, 2}
=============================================================================
