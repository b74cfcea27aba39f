---------------------- MODULE MC_DorisClusterReconciler ----------------------
(* Model-checking instance of DorisClusterReconciler: two configuration   *)
(* contents and two replica counts, model values for the nil markers.      *)
EXTENDS DorisClusterReconciler

CONSTANTS c1, c2

MCConfs == {c1, c2}
MCReps == {1, 2}
=============================================================================
