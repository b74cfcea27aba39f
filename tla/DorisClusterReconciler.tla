------------------------- MODULE DorisClusterReconciler -------------------------
(***************************************************************************)
(* The reconciliation pipeline of DorisClusterReconciler.Reconcile         *)
(* (src/internal/reconciler/doriscluster_reconciler.go): the ordered       *)
(* stages secret -> FE -> BE -> CN -> Broker, each role stage taking the   *)
(* apply path or the delete path from the presence of its sub-spec, every  *)
(* object-store call a step that may fail, and the first failure ending    *)
(* the pass.  Around it: the user editing the DorisCluster spec, a         *)
(* DorisAutoScaler being bound and scaling the CN StatefulSet, and the     *)
(* StatefulSet controller starting and restarting pods.                    *)
(***************************************************************************)
EXTENDS Naturals, Sequences, FiniteSets

CONSTANTS
    Confs,              \* rendered configuration contents (configmap data)
    Reps,               \* replica counts a spec or the autoscaler may ask for
    DefaultReplicas,    \* replicas the API server defaults a nil field to
    Declarable,         \* roles the user may declare in the spec
    NilAnnotationRoles, \* roles whose StatefulSet builder leaves Annotations nil
    MaxFailures,        \* bound on failed calls and operator restarts in a behaviour
    MaxEdits,           \* bound on spec edits and autoscaler (un)bindings
    Absent,             \* a role sub-spec that is nil
    NoObj               \* an object that does not exist in the store

Roles == {"fe", "be", "cn", "broker"}

ASSUME /\ Declarable \subseteq Roles
       /\ NilAnnotationRoles \subseteq Roles
       /\ DefaultReplicas \in Reps
       /\ MaxFailures \in Nat /\ MaxEdits \in Nat

VARIABLES
    spec,       \* DorisCluster spec as stored: role -> sub-spec or Absent
    cr,         \* r.CR: the copy of the spec the current pass works on
    asBound,    \* a DorisAutoScaler referring to this cluster exists
    secret,     \* the operator SQL account secret exists
    cm,         \* role -> configmap data, or NoObj
    svc,        \* role -> client service exists
    peer,       \* role -> peer (headless) service exists
    sts,        \* role -> [replicas, hash], or NoObj
    pods,       \* role -> configuration the running pods loaded, or NoObj
    stage,      \* 0 when idle, else index into Stages of the running stage
    step,       \* index into the running role stage's list of calls
    asSeen,     \* autoScaler != nil as returned by FindRefDorisAutoScaler
    result,     \* ClusterStageRecResult returned by the last pass
    failures,   \* failed calls and operator restarts so far
    edits       \* spec edits and autoscaler (un)bindings so far

storeVars == <<secret, cm, svc, peer, sts>>
passVars  == <<cr, stage, step, asSeen, result>>
envVars   == <<spec, asBound, pods, edits>>
vars == <<storeVars, passVars, envVars, failures>>

RoleSpecs == [conf : Confs, replicas : Reps]
(* Reconcile: the stage list, in order. *)
Stages == <<"secret", "fe", "be", "cn", "broker">>

(* util.MapMd5(configMap.Data): the digest of the data.  Digests of       *)
(* distinct contents are taken to differ (no md5 collision).               *)
MapMd5(data) == <<"md5", data>>

StsVals == [replicas : Reps, hash : {MapMd5(c) : c \in Confs}]

(* The calls of applyRes and deleteRes, in the order each role makes them. *)
ApplySteps(r) ==
    CASE r = "cn"     -> <<"cm", "svc", "peer", "lookup", "sts">>
      [] r = "broker" -> <<"cm", "peer", "sts">>
      [] OTHER        -> <<"cm", "svc", "peer", "sts">>

(* Mutant of DeleteSteps: the client service never deleted. *)
DeleteStepsNoSvc(r) == <<"sts", "peer", "cm">>

DeleteSteps(r) ==
    IF r = "broker" THEN <<"sts", "peer", "cm">>
                    ELSE <<"sts", "svc", "peer", "cm">>

(* util.Elvis(r.CR.Spec.X != nil, applyRes, deleteRes) *)
Applying(r) == cr[r] # Absent

Steps(r) == IF Applying(r) THEN ApplySteps(r) ELSE DeleteSteps(r)

(* The stage a failed call reports: apply names the object, while every   *)
(* failure of deleteRes reports the configmap stage.                       *)
FailStage(r, kind) ==
    IF ~Applying(r) THEN <<r, "Configmap">>
    ELSE CASE kind = "cm"               -> <<r, "Configmap">>
           [] kind \in {"svc", "peer"}  -> <<r, "Service">>
           [] OTHER                     -> <<r, "StatefulSet">>

(* clusterStageFail: it sets Status to StageResultSucceeded, as the code  *)
(* does.  Results of stages that succeed are dropped by Reconcile.         *)
clusterStageFail(st, action) ==
    [stage |-> st, status |-> "succeeded", action |-> action, err |-> TRUE]

NoResult == [stage |-> <<"none", "none">>, status |-> "none", action |-> "none", err |-> FALSE]
Complete == [stage |-> <<"none", "Complete">>, status |-> "succeeded", action |-> "none", err |-> FALSE]

(* Mutant of DesiredSts: a nil replica count defaulted to 0 on create. *)
DesiredStsZeroDefault(r) ==
    [replicas |-> IF r = "cn" /\ asSeen
                    THEN IF sts[r] = NoObj THEN 0 ELSE sts[r].replicas
                    ELSE cr[r].replicas,
     hash     |-> MapMd5(cr[r].conf)]

(* The StatefulSet CreateOrUpdate writes: the builder's replicas, or, when  *)
(* the autoscaler lookup found one, a nil replicas field that keeps the    *)
(* live count (or is defaulted on create); the hash annotation.            *)
DesiredSts(r) ==
    [replicas |-> IF r = "cn" /\ asSeen
                    THEN IF sts[r] = NoObj THEN DefaultReplicas
                                           ELSE sts[r].replicas
                    ELSE cr[r].replicas,
     hash     |-> MapMd5(cr[r].conf)]

-----------------------------------------------------------------------------
Init ==
    /\ spec \in {f \in [Roles -> RoleSpecs \cup {Absent}] :
                    \A r \in Roles \ Declarable : f[r] = Absent}
    /\ cr = spec
    /\ asBound \in BOOLEAN
    /\ secret = FALSE
    /\ cm = [r \in Roles |-> NoObj]
    /\ svc = [r \in Roles |-> FALSE]
    /\ peer = [r \in Roles |-> FALSE]
    /\ sts = [r \in Roles |-> NoObj]
    /\ pods = [r \in Roles |-> NoObj]
    /\ stage = 0
    /\ step = 1
    /\ asSeen = FALSE
    /\ result = NoResult
    /\ failures = 0
    /\ edits = 0

(* Mutant of StartPass: the pass keeps working on a cached copy of the CR. *)
StartPassCachedCR ==
    /\ stage = 0
    /\ cr' = cr
    /\ stage' = 1
    /\ step' = 1
    /\ asSeen' = FALSE
    /\ UNCHANGED <<storeVars, result, envVars, failures>>

(* A reconcile request is dequeued: the pass reads the current spec. *)
StartPass ==
    /\ stage = 0
    /\ cr' = spec
    /\ stage' = 1
    /\ step' = 1
    /\ asSeen' = FALSE
    /\ UNCHANGED <<storeVars, result, envVars, failures>>

(* Move past a call that succeeded: next call, next stage, or Complete. *)
Advance(r) ==
    IF r # "secret" /\ step < Len(Steps(r))
    THEN /\ step' = step + 1
         /\ UNCHANGED <<stage, result>>
    ELSE IF stage < Len(Stages)
         THEN /\ stage' = stage + 1
              /\ step' = 1
              /\ UNCHANGED result
         ELSE /\ stage' = 0
              /\ step' = 1
              /\ result' = Complete

(* A call failed: the pass returns the failed stage result at once. *)
Abort(st, action) ==
    /\ failures < MaxFailures
    /\ failures' = failures + 1
    /\ result' = clusterStageFail(st, action)
    /\ stage' = 0
    /\ step' = 1
    /\ UNCHANGED <<storeVars, cr, asSeen, envVars>>

(* A write the API server applied whose reply the client never got (a     *)
(* timeout): the call returns an error and the pass aborts as on a        *)
(* failure, but the object is written.                                     *)
LateReply(st, action) ==
    /\ failures < MaxFailures
    /\ failures' = failures + 1
    /\ result' = clusterStageFail(st, action)
    /\ stage' = 0
    /\ step' = 1
    /\ UNCHANGED <<cr, envVars>>

(* recOprAccountSecret: Exist, then Create when absent; either may fail, *)
(* and Create may fail after it took effect.                              *)
RecOprAccountSecret ==
    /\ stage = 1
    /\ \/ /\ secret' = TRUE
          /\ Advance("secret")
          /\ UNCHANGED <<cm, svc, peer, sts, cr, asSeen, envVars, failures>>
       \/ Abort(<<"secret", "SqlAccountSecret">>, "apply")
       \/ /\ ~secret
          /\ secret' = TRUE
          /\ UNCHANGED <<cm, svc, peer, sts, asSeen>>
          /\ LateReply(<<"secret", "SqlAccountSecret">>, "apply")

(* One call of applyRes or deleteRes of role r (recFeResources,           *)
(* recBeResources, recCnResources, recBrokerResources), and its outcome.   *)
(* A write is CreateOrUpdate or DeleteWhenExist: atomic, and a no-op when  *)
(* the store already holds the content.                                    *)
(* Mutant of StoreCall: CreateOrUpdate of the configmap only creates it. *)
StoreCallCreateOnlyCm(r, kind) ==
    LET app == Applying(r) IN
    CASE kind = "cm"   -> /\ cm' = [cm EXCEPT ![r] = IF ~app THEN NoObj
                                                  ELSE IF cm[r] = NoObj THEN cr[r].conf
                                                  ELSE cm[r]]
                          /\ UNCHANGED <<svc, peer, sts, asSeen>>
      [] kind = "svc"  -> /\ svc' = [svc EXCEPT ![r] = app]
                          /\ UNCHANGED <<cm, peer, sts, asSeen>>
      [] kind = "peer" -> /\ peer' = [peer EXCEPT ![r] = app]
                          /\ UNCHANGED <<cm, svc, sts, asSeen>>
      [] kind = "lookup" -> /\ asSeen' = asBound
                            /\ UNCHANGED <<cm, svc, peer, sts>>
      [] kind = "sts"  -> /\ sts' = [sts EXCEPT ![r] = IF app THEN DesiredSts(r) ELSE NoObj]
                          /\ UNCHANGED <<cm, svc, peer, asSeen>>

StoreCall(r, kind) ==
    LET app == Applying(r) IN
    CASE kind = "cm"   -> /\ cm' = [cm EXCEPT ![r] = IF app THEN cr[r].conf ELSE NoObj]
                          /\ UNCHANGED <<svc, peer, sts, asSeen>>
      [] kind = "svc"  -> /\ svc' = [svc EXCEPT ![r] = app]
                          /\ UNCHANGED <<cm, peer, sts, asSeen>>
      [] kind = "peer" -> /\ peer' = [peer EXCEPT ![r] = app]
                          /\ UNCHANGED <<cm, svc, sts, asSeen>>
      [] kind = "lookup" -> /\ asSeen' = asBound
                            /\ UNCHANGED <<cm, svc, peer, sts>>
      [] kind = "sts"  -> /\ sts' = [sts EXCEPT ![r] = IF app THEN DesiredSts(r) ELSE NoObj]
                          /\ UNCHANGED <<cm, svc, peer, asSeen>>

(* The FE builder (module FeResources) for an FE sub-spec with no port    *)
(* configured and no service spec: the roles whose StatefulSet comes from  *)
(* the builder with a nil Annotations map are taken from its               *)
(* MakeFeStatefulSet, not assumed.  The BE, CN and Broker builders are not *)
(* in src/ and are taken to set Annotations.                                *)
FeBuilder == INSTANCE FeResources
    WITH fe <- [configs |-> [k \in {"http_port", "query_port", "rpc_port",
                                    "edit_log_port"} |-> Absent],
                service |-> Absent],
         NoValue <- Absent, PortVals <- {}, NodePortVals <- {}, ServiceTypes <- {}

BuilderNilAnnotationRoles ==
    IF FeBuilder!MakeFeStatefulSet.annotations = Absent THEN {"fe"} ELSE {}

(* statefulSet.Annotations[key] = ... on a builder result whose           *)
(* Annotations map is nil: a nil-map assignment panics, and the pass ends  *)
(* with no result before CreateOrUpdate(statefulSet).                      *)
AnnotationPanics(r, kind) ==
    Applying(r) /\ kind = "sts" /\ r \in NilAnnotationRoles

RoleStep(r) ==
    /\ stage > 1
    /\ Stages[stage] = r
    /\ LET kind   == Steps(r)[step]
           action == IF Applying(r) THEN "apply" ELSE "delete"
       IN \/ /\ ~AnnotationPanics(r, kind)
             /\ StoreCall(r, kind)
             /\ Advance(r)
             /\ UNCHANGED <<secret, cr, envVars, failures>>
          \/ /\ ~AnnotationPanics(r, kind)
             /\ Abort(FailStage(r, kind), action)
          \/ /\ ~AnnotationPanics(r, kind)
             /\ kind # "lookup"
             /\ StoreCall(r, kind)
             /\ LateReply(FailStage(r, kind), action)
             /\ UNCHANGED secret
          \/ /\ AnnotationPanics(r, kind)
             /\ result' = [NoResult EXCEPT !.stage = <<r, "panic">>, !.err = TRUE]
             /\ stage' = 0
             /\ step' = 1
             /\ UNCHANGED <<storeVars, cr, asSeen, envVars, failures>>

(* The operator process restarts in the middle of a pass (eviction, OOM,  *)
(* leader change).  The pass and its result are lost; what it wrote stays *)
(* in the store, and the restarted controller's informers resync and     *)
(* requeue the cluster.  Counted with the failed calls.                    *)
OperatorRestart ==
    /\ stage > 0
    /\ failures < MaxFailures
    /\ failures' = failures + 1
    /\ stage' = 0
    /\ step' = 1
    /\ asSeen' = FALSE
    /\ result' = NoResult
    /\ UNCHANGED <<storeVars, cr, envVars>>

-----------------------------------------------------------------------------
(* The environment.  The user edits a declarable role's sub-spec. *)
EditSpec ==
    /\ edits < MaxEdits
    /\ \E r \in Declarable, v \in RoleSpecs \cup {Absent} :
         /\ v # spec[r]
         /\ spec' = [spec EXCEPT ![r] = v]
    /\ edits' = edits + 1
    /\ UNCHANGED <<storeVars, passVars, asBound, pods, failures>>

(* A DorisAutoScaler for this cluster is created or deleted. *)
ToggleAutoScaler ==
    /\ edits < MaxEdits
    /\ asBound' = ~asBound
    /\ edits' = edits + 1
    /\ UNCHANGED <<storeVars, passVars, spec, pods, failures>>

(* The bound autoscaler writes the CN StatefulSet's replica count. *)
AutoScalerScale ==
    /\ asBound
    /\ sts["cn"] # NoObj
    /\ \E n \in Reps \ {sts["cn"].replicas} :
         sts' = [sts EXCEPT !["cn"].replicas = n]
    /\ UNCHANGED <<secret, cm, svc, peer, passVars, envVars, failures>>

(* The StatefulSet controller starts the pods of a new StatefulSet; they  *)
(* load the configmap as it is then.                                       *)
PodsStart(r) ==
    /\ sts[r] # NoObj
    /\ pods[r] = NoObj
    /\ cm[r] # NoObj
    /\ pods' = [pods EXCEPT ![r] = cm[r]]
    /\ UNCHANGED <<storeVars, passVars, spec, asBound, edits, failures>>

(* The pods of a deleted StatefulSet are removed. *)
PodsGone(r) ==
    /\ sts[r] = NoObj
    /\ pods[r] # NoObj
    /\ pods' = [pods EXCEPT ![r] = NoObj]
    /\ UNCHANGED <<storeVars, passVars, spec, asBound, edits, failures>>

(* A pod restarts for a reason of its own (eviction, crash) and reloads   *)
(* the configmap.  Nothing makes this happen.                              *)
PodRestart(r) ==
    /\ pods[r] # NoObj
    /\ cm[r] \notin {NoObj, pods[r]}
    /\ pods' = [pods EXCEPT ![r] = cm[r]]
    /\ UNCHANGED <<storeVars, passVars, spec, asBound, edits, failures>>

-----------------------------------------------------------------------------
Reconciler == StartPass \/ RecOprAccountSecret \/ \E r \in Roles : RoleStep(r)
                \/ OperatorRestart

Environment ==
    \/ EditSpec \/ ToggleAutoScaler \/ AutoScalerScale
    \/ \E r \in Roles : PodsStart(r) \/ PodsGone(r) \/ PodRestart(r)

Next == Reconciler \/ Environment

(* The host controller re-triggers reconciliation (requeue after an       *)
(* error, periodic resync), and a pass runs synchronously to its end; the  *)
(* StatefulSet controller acts on every StatefulSet.  The user, the        *)
(* autoscaler and spontaneous pod restarts are not fair.                   *)
Fairness ==
    /\ WF_vars(StartPass)
    /\ WF_vars(RecOprAccountSecret)
    /\ \A r \in Roles : WF_vars(RoleStep(r))
    /\ \A r \in Roles : WF_vars(PodsStart(r)) /\ WF_vars(PodsGone(r))

Spec == Init /\ [][Next]_vars /\ Fairness

-----------------------------------------------------------------------------
ResultVals ==
    [stage : ({"none", "secret"} \cup Roles)
               \X {"none", "Complete", "SqlAccountSecret", "Configmap",
                   "Service", "StatefulSet", "panic"},
     status : {"none", "succeeded", "failed"},
     action : {"none", "apply", "delete"},
     err : BOOLEAN]

TypeOK ==
    /\ spec \in [Roles -> RoleSpecs \cup {Absent}]
    /\ cr \in [Roles -> RoleSpecs \cup {Absent}]
    /\ asBound \in BOOLEAN /\ secret \in BOOLEAN /\ asSeen \in BOOLEAN
    /\ cm \in [Roles -> Confs \cup {NoObj}]
    /\ svc \in [Roles -> BOOLEAN] /\ peer \in [Roles -> BOOLEAN]
    /\ sts \in [Roles -> StsVals \cup {NoObj}]
    /\ pods \in [Roles -> Confs \cup {NoObj}]
    /\ stage \in 0..Len(Stages) /\ step \in 1..5
    /\ result \in ResultVals
    /\ failures \in 0..MaxFailures /\ edits \in 0..MaxEdits

(* The objects of role r in the store are those sub-spec s asks for:      *)
(* none when it is absent; otherwise the configmap with its data, the      *)
(* services the role has, and a StatefulSet stamped with the data's hash.  *)
RoleMatches(s, r) ==
    IF s[r] = Absent
    THEN cm[r] = NoObj /\ ~svc[r] /\ ~peer[r] /\ sts[r] = NoObj
    ELSE /\ cm[r] = s[r].conf
         /\ svc[r] = (r # "broker")
         /\ peer[r]
         /\ sts[r] # NoObj
         /\ sts[r].hash = MapMd5(s[r].conf)

(* Replica counts follow the spec, except CN's while an autoscaler is bound. *)
ReplicasMatch(s) ==
    \A r \in Roles :
        s[r] # Absent /\ sts[r] # NoObj /\ ~(r = "cn" /\ asBound)
            => sts[r].replicas = s[r].replicas

(* When Reconcile returns the Complete result, every role's objects are   *)
(* those the spec the pass read asks for (CN's replicas aside, which the   *)
(* autoscaler may own).                                                    *)
SuccessfulPassConverges ==
    stage = 0 /\ result = Complete => \A r \in Roles : RoleMatches(cr, r)

(* Once the user and the autoscaler stop changing things and failures     *)
(* stop, the store comes to match the spec and stays so: every role, the   *)
(* secret, and the replica counts the operator owns.                       *)
Converges ==
    <>[](/\ secret
         /\ \A r \in Roles : RoleMatches(spec, r)
         /\ ReplicasMatch(spec))

-----------------------------------------------------------------------------
(* What the spec says of the code and the code does not do; each is      *)
(* checked by a run that expects a violation.                              *)

(* The StageResult of a failed stage has status failed (spec, section 3). *)
FailedResultReportsFailure == result.err => result.status = "failed"

(* A configuration change reaches the pods: the ConfigHash annotation     *)
(* makes the StatefulSet controller roll them (spec, sections 3 and 4.2).  *)
ConfigChangeReachesPods ==
    <>[](\A r \in Roles : spec[r] # Absent => pods[r] = spec[r].conf)

(* A failed call reports the step that failed (spec, section 4.2: "a     *)
(* failure at any step aborts and reports that step"): the stage named    *)
(* after the object the call was writing or deleting.                     *)
ObjectStage == [cm |-> "Configmap", svc |-> "Service", peer |-> "Service",
                lookup |-> "StatefulSet", sts |-> "StatefulSet"]

FailureReportsItsStep ==
    [][(stage > 1 /\ stage' = 0 /\ result'.err /\ result'.stage[2] # "panic")
          => result'.stage = <<Stages[stage], ObjectStage[Steps(Stages[stage])[step]]>>]_vars

(* While an autoscaler is bound, the operator never writes its own        *)
(* replica count over the live one (spec, section 3, AutoscalerBinding).  *)
AutoscalerReplicasKept ==
    [][(/\ Reconciler
        /\ asBound /\ asBound'
        /\ sts["cn"] # NoObj /\ sts'["cn"] # NoObj)
          => sts'["cn"].replicas = sts["cn"].replicas]_vars

=============================================================================
