------------------------- MODULE DorisClusterRefinement -------------------------
(***************************************************************************)
(* DorisClusterReconciler implements ReconcilerAbstract.  The refinement   *)
(* mapping is the identity on the store (secret, configmaps, services,     *)
(* StatefulSets) and hides everything else: the spec, the pass in          *)
(* progress, the autoscaler binding and the pods.  A reconcile step that   *)
(* writes nothing, a failed call and every environment step but the        *)
(* autoscaler's are stuttering steps of the abstract store.                *)
(***************************************************************************)
EXTENDS DorisClusterReconciler

Store == INSTANCE ReconcilerAbstract
    WITH Roles <- Roles, Confs <- Confs, Reps <- Reps, NoObj <- NoObj,
         secret <- secret, cm <- cm, svc <- svc, peer <- peer, sts <- sts

(* Every behaviour of the reconciler and its environment is a behaviour of *)
(* the abstract store: whatever call fails, whatever the user edits in     *)
(* the middle of a pass, each write of applyRes and deleteRes is one the   *)
(* abstract store allows, so the call orders of the four role stages and   *)
(* the hash of line 128 together keep every StatefulSet beside what it     *)
(* references and stamped with the configmap data in the store.            *)
ImplementsAbstractStore == Store!Spec

=============================================================================
