--------------------------- MODULE ReconcilerAbstract ---------------------------
(***************************************************************************)
(* What the operator promises of the objects it keeps for a DorisCluster   *)
(* (spec.md, sections 3 and 4.2), with no passes, stages or failures: the  *)
(* store changes one object at a time, and a change never leaves a         *)
(* workload without what it references.                                    *)
(*   - the operator account secret is created and never removed;           *)
(*   - a StatefulSet is written only beside the secret, its configmap and  *)
(*     its peer service, and is stamped with the digest of the configmap   *)
(*     data in the store at that moment;                                   *)
(*   - a configmap or a peer service is removed only once the StatefulSet  *)
(*     that uses it is gone;                                               *)
(*   - Broker has no client service;                                       *)
(*   - besides the operator, the autoscaler changes the CN replica count   *)
(*     and nothing else.                                                   *)
(* DorisClusterReconciler implements this specification (module            *)
(* DorisClusterRefinement).                                                *)
(***************************************************************************)
EXTENDS Naturals

CONSTANTS Roles, Confs, Reps, NoObj

VARIABLES secret, cm, svc, peer, sts

vars == <<secret, cm, svc, peer, sts>>

Digest(data) == <<"md5", data>>

Init ==
    /\ secret = FALSE
    /\ cm = [r \in Roles |-> NoObj]
    /\ svc = [r \in Roles |-> FALSE]
    /\ peer = [r \in Roles |-> FALSE]
    /\ sts = [r \in Roles |-> NoObj]

PutSecret ==
    /\ secret' = TRUE
    /\ UNCHANGED <<cm, svc, peer, sts>>

PutConfigMap(r, c) ==
    /\ cm' = [cm EXCEPT ![r] = c]
    /\ UNCHANGED <<secret, svc, peer, sts>>

DeleteConfigMap(r) ==
    /\ sts[r] = NoObj
    /\ cm' = [cm EXCEPT ![r] = NoObj]
    /\ UNCHANGED <<secret, svc, peer, sts>>

SetService(r, b) ==
    /\ b => r # "broker"
    /\ svc' = [svc EXCEPT ![r] = b]
    /\ UNCHANGED <<secret, cm, peer, sts>>

PutPeerService(r) ==
    /\ peer' = [peer EXCEPT ![r] = TRUE]
    /\ UNCHANGED <<secret, cm, svc, sts>>

DeletePeerService(r) ==
    /\ sts[r] = NoObj
    /\ peer' = [peer EXCEPT ![r] = FALSE]
    /\ UNCHANGED <<secret, cm, svc, sts>>

PutStatefulSet(r, n) ==
    /\ secret /\ cm[r] # NoObj /\ peer[r]
    /\ sts' = [sts EXCEPT ![r] = [replicas |-> n, hash |-> Digest(cm[r])]]
    /\ UNCHANGED <<secret, cm, svc, peer>>

DeleteStatefulSet(r) ==
    /\ sts' = [sts EXCEPT ![r] = NoObj]
    /\ UNCHANGED <<secret, cm, svc, peer>>

ScaleCn(n) ==
    /\ sts["cn"] # NoObj
    /\ sts' = [sts EXCEPT !["cn"].replicas = n]
    /\ UNCHANGED <<secret, cm, svc, peer>>

Next ==
    \/ PutSecret
    \/ \E r \in Roles :
         \/ \E c \in Confs : PutConfigMap(r, c)
         \/ DeleteConfigMap(r)
         \/ \E b \in BOOLEAN : SetService(r, b)
         \/ PutPeerService(r) \/ DeletePeerService(r)
         \/ \E n \in Reps : PutStatefulSet(r, n)
         \/ DeleteStatefulSet(r)
    \/ \E n \in Reps : ScaleCn(n)

Spec == Init /\ [][Next]_vars

=============================================================================
