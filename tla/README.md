# TLA+ models of the doris-operator reconciliation pipeline

These TLA+ modules model the DorisCluster reconciler (`src/internal/reconciler/doriscluster_reconciler.go`) and the FE resource builders (`src/internal/transformer/fe_resources.go`). TLC checks them. The natural-language design is `spec.md`.

## 1. Inventory

### Components

| Component | Source | State | Operations |
|---|---|---|---|
| Cluster Reconciler | `Reconcile`, lines 61-76 | none between passes; within a pass, the CR copy `r.CR` and the current stage | runs `recOprAccountSecret, recFe/Be/Cn/BrokerResources` in order and returns the first result with `Err != nil`, or `StageComplete` |
| Stage result | `ClusterStageRecResult`, `clusterStageSucc/Fail`, 44-84 | a record {stage, status, action, err} | `clusterStageFail` sets **Status = Succeeded** (line 83) |
| Secret stage | `recOprAccountSecret`, 88-104 | the operator SQL account Secret | `Exist`, then `Create` when absent; never rewritten |
| Role reconcilers FE/BE/CN/Broker | 107-335 | per role: configmap, client service (not Broker), peer service, StatefulSet | `applyRes`: CreateOrUpdate configmap, then services, then StatefulSet stamped with `MapMd5(configMap.Data)`; CN looks up the DorisAutoScaler and sets replicas nil when one is found. `deleteRes`: DeleteWhenExist StatefulSet, then services, then configmap. The choice is `util.Elvis(r.CR.Spec.X != nil, ...)` |
| FE builders | `fe_resources.go` | pure | port getters (74-100), `MakeFeConfigMap`, `MakeFeService` (NodePorts swapped, 160-165), `MakeFePeerService`, `MakeFeStatefulSet` (ObjectMeta without Annotations, 369-374) |
| Error aggregation | `util.MergeErrors`, `MergeErrorsWithTag` and the `Error` methods of `MultiError` and `MultiTaggedError` (lines 354-414 of the reconciler source file) | pure | drop nil errors and return a nil pointer when none is left; `Error()` joins the messages, ranging over a map for the tagged form. No caller in `src/` yet |
| Not in `src/` | BE/CN/Broker builders, `ReconcileContext` (Exist, Create, CreateOrUpdate, DeleteWhenExist, FindRefDorisAutoScaler), `util.MapMd5`, `getPortValueFromRawConf` | — | modelled from `spec.md`'s contracts |

### Interactions

There is one logical worker per cluster instance. The host controller's work queue serialises passes for the same instance (spec §5). Everything a pass shares with other actors is in the object store:

- the user edits the DorisCluster spec at any time. A pass reads it once, when it starts.
- the DorisAutoScaler controller may be bound to the cluster, and then writes the CN StatefulSet's replicas.
- the StatefulSet controller starts pods when a StatefulSet appears, and removes them when it goes. It rolls pods only when the **pod template** changes.
- every store call is synchronous, may fail, and is never retried within the pass. Retrying is the host controller's job: it requeues after an error and resyncs periodically.
- a call can also time out after the API server applied it: the pass sees an error, but the object is written.
- the operator process can restart at any point. The pass and its result are lost, and only what it already wrote survives (the reconciler keeps no state between passes, spec §4.2).

### What is hard

- **Partial failure and ordering.** Any call can fail, and objects already written stay. The apply order (configmap → services → StatefulSet) and the delete order (StatefulSet → services → configmap) are what keep the store consistent between passes.
- **Stale reads.** A pass works on the spec as read at its start. The CN autoscaler lookup happens one call before the StatefulSet apply.
- **Convergence.** It relies only on re-triggering by the host controller.
- **Restart on configuration change.** This depends on where the hash annotation is written.

### Properties that make each component correct

- Reconciler and role reconcilers:
  - a StatefulSet never exists without the secret, configmap and peer service it references;
  - a Complete pass leaves the store as the spec it read asks;
  - a stamped hash is that of configmap data already written;
  - once edits and failures stop, the store converges;
  - a failed stage is reported as failed;
  - a configuration change reaches the pods;
  - the operator never overwrites an autoscaler's replica count.
- The store as a whole (`ReconcilerAbstract`): it changes one object at a time, and every change keeps each workload beside what it references.
- Error aggregation: no error is lost or invented, and the merged value is nil exactly when there were none.
- FE builders:
  - every advertised port equals the container port of the same name;
  - each port reads its own config key;
  - NodePorts land on the port they are named for.
  - NodePorts and a traffic policy are set only on a service whose type admits them.

## 2. Plan

1. **`DorisClusterReconciler`** (done): the whole pipeline with failures, spec edits, the autoscaler and pods. This is the core.
2. **`FeResources`** (done): FE port wiring, checked over every port configuration.
3. **`delete_stage_label`** (done): the stage a failed delete reports.
4. **`ErrorsUtil`** (done): `MergeErrors` and `MergeErrorsWithTag` against a recursive reference and the map-range order of `MultiTaggedError.Error`.
5. **`ReconcilerAbstract` and `DorisClusterRefinement`** (done): the store-level promise, and the check that the pipeline implements it. The abstract specification is a store, not a pass: a pass-level abstraction (one atomic step that sets every role) is not implementable here, because a pass reads a spec that may already be stale and writes it over many steps.
6. **Fault model** (done): late-applied writes (`LateReply`) and operator restarts (`OperatorRestart`), checked by the safety, refinement and liveness properties. Also **FE wiring** (done): the names, labels, volumes and governing service that tie the FE objects together.
7. **Composition and service type** (done): `DorisClusterReconciler` takes FE's nil Annotations map from `FeResources`. The FE service type and traffic policy are modelled, with the `fe_service_type` finding. The two port defects of spec §9 are checked by separate runs, so each trace witnesses its own defect. The liveness run allows two faults.
8. Later: a liveness property of the refinement (abstract fairness on the store), a pod-template variant (hash on the template) that shows what the spec's design guarantees, and per-role builder modules if their sources join `src/`.

## 3. Modules and how they map to the code

### `DorisClusterReconciler.tla`

| Model | Code |
|---|---|
| `spec`, `cr` | the DorisCluster in the API server, and `r.CR` read at the start of a pass |
| `secret`, `cm`, `svc`, `peer`, `sts` | the Secret, configmaps, services and StatefulSets in the store. A StatefulSet is `[replicas, hash]` |
| `stage`, `step` | position in `Reconcile`'s stage list and in the role's list of calls |
| `asSeen` | the local `autoScaler` in `recCnResources` |
| `result` | the returned `ClusterStageRecResult` |
| `StartPass` | a reconcile request dequeued |
| `RecOprAccountSecret` | `recOprAccountSecret` |
| `RoleStep(r)` | one call of `applyRes`/`deleteRes` of role `r`, chosen by `Applying(r)` |
| `ApplySteps`, `DeleteSteps` | the call order of each role |
| `FailStage`, `clusterStageFail` | the result each failing call returns |
| `DesiredSts` | the StatefulSet as applied: spec replicas, or nil when the lookup found an autoscaler (kept on update, defaulted to `DefaultReplicas` on create) |
| `AnnotationPanics` | the nil-map write of line 128, for roles in `NilAnnotationRoles` |
| `Advance`, `Abort` | the loop of `Reconcile` and its early return |

The model abstracts several things:

- Configuration contents are the model values `c1, c2`.
- `MapMd5` is an injective digest, because no collision is assumed.
- Configurations are taken to differ in keys that are not ports. The pod template then depends on the configuration only through where the hash is written.
- Each store call is atomic. It either takes effect or fails with nothing written: CreateOrUpdate writes only on a difference, and DeleteWhenExist is idempotent.
- Environment actions: `EditSpec`, `ToggleAutoScaler`, `AutoScalerScale`, `PodsStart`, `PodsGone`, `PodRestart`.
- Faults, both counted against `MaxFailures` together with ordinary failed calls:
  - `LateReply`: a write (the secret's `Create`, or any `CreateOrUpdate`/`DeleteWhenExist`) takes effect, yet the call returns an error, and the pass aborts with a failure result;
  - `OperatorRestart`: the pass in progress is dropped with no result, and the store keeps what was written.

### `ReconcilerAbstract.tla` and `DorisClusterRefinement.tla`

`ReconcilerAbstract` has only the store (`secret`, `cm`, `svc`, `peer`, `sts`). Its actions are the single-object writes the operator promises:

- `PutSecret`, and never a delete of the secret;
- `PutConfigMap`, and `DeleteConfigMap` only once the role's StatefulSet is gone;
- `SetService`, never creating a Broker client service;
- `PutPeerService`, and `DeletePeerService` only once the StatefulSet is gone;
- `PutStatefulSet` only beside the secret, the configmap and the peer service, stamped with `Digest` of the configmap data in the store then;
- `DeleteStatefulSet`;
- `ScaleCn`, the autoscaler changing the CN replica count and nothing else.

`DorisClusterRefinement` extends `DorisClusterReconciler` and instances `ReconcilerAbstract` with the identity on the store (`INSTANCE ... WITH`). The spec, the pass state, the autoscaler binding and the pods are hidden. `ImplementsAbstractStore` is the abstract `Spec`, checked as a `PROPERTY`. It replaces the earlier action property on stamped hashes, which it implies. A failed call, a step that writes what is already there, and every environment step except `AutoScalerScale` are abstract stuttering steps.

### `ErrorsUtil.tla`

The inputs are chosen in `Init`: the argument list of `MergeErrors` (up to `MaxErrs` errors or `Nil`), the map argument of `MergeErrorsWithTag` (any subset of `Tags`, each tag mapped to an error or `Nil`), and one iteration order of the merged map (`SetToSeqs`, every order Go may pick).

- `MergeErrors` and `MergeErrorsWithTag` filter with `SelectSeq` and a set comprehension, as the loops do.
- `TaggedMsg` is `MultiTaggedError.Error`. Joining messages into one string is abstracted to the sequence of (tag, error) entries.
- `NonNil` is the recursive reference that the filter is checked against.

### `FeResources.tla`

The state is one FE sub-spec (`fe`), fixed in `Init`. Its configs give each port key a value or leave it unset, and it has an optional service spec with a type (`""` when unset), an external traffic policy and two NodePorts. The port getters, `MakeFeService` with its type (`FeServiceType`, ClusterIP unless one is given) and traffic policy (`FeServiceTrafficPolicy`), `MakeFePeerService`, and the container, readiness-probe and prometheus ports of `MakeFeStatefulSet` are operators over it. `GetFeRpcPort` reads `query_port`, as the code does.

The wiring between the FE objects is modelled too:

- the object names (`GetFe...Name`) and component labels (`FeLabels`);
- `MakeFeConfigMap`;
- the services' selectors and headlessness (`FeServiceMeta`, `FePeerServiceMeta`);
- `MakeFeStatefulSet`: its governing service, selector, `fe-meta` claim template, pod volumes (`FePodVolumes`), mounts, `FE_SVC` env, and metadata without an Annotations map.

That nil map is what makes the reconciler's hash write panic. The two modules are composed: `DorisClusterReconciler` instances this module as `FeBuilder` and derives `BuilderNilAnnotationRoles` from `FeBuilder!MakeFeStatefulSet.annotations`, and every reconciler cfg sets `NilAnnotationRoles <- BuilderNilAnnotationRoles`. If the builder set Annotations, FE would leave that set, and the runs would follow the builder without edits. The BE, CN and Broker builders are not in `src/` and are taken to set Annotations. Names are fixed strings for one cluster, because a property only needs to tell the kinds apart.

## 4. Runs

| Run | Expect | What it shows |
|---|---|---|
| `safety` (`MC_safety.cfg`, module `MC_DorisClusterRefinement`) | pass | `TypeOK`, `SuccessfulPassConverges`, and `ImplementsAbstractStore` (the refinement). A separate invariant for "no StatefulSet without its secret, configmap and peer service" is not checked: it follows from the refinement, because `ReconcilerAbstract`'s guards keep it in every state. FE, CN and Broker are declarable, with FE's nil-Annotations builder. The run allows 1 fault (a failed call, a late-applied write or a restart) and 1 edit or autoscaler toggle, and lets the autoscaler scale without bound. About 2M states, 70 seconds |
| `liveness` (`MC_liveness.cfg`) | pass | `Converges`: the store eventually matches the spec for good. CN is declarable, with 2 faults and 2 edits, so the autoscaler binds, scales and unbinds, and a late reply can be followed by a restart or a second failure. About 400k states, 80 seconds |
| `failed_status` | violation | a failed stage is reported with status succeeded (line 83) |
| `config_rollout` | violation | pods never reload a changed configuration: the hash is on StatefulSet metadata (line 128) |
| `autoscaler_race` | violation | the autoscaler, bound between the lookup (246) and the apply (253), is overwritten |
| `fe_nil_annotations` | violation | with `MakeFeStatefulSet` as written, FE never converges and the later stages never run |
| `delete_stage_label` | violation | `FailureReportsItsStep`: a failed StatefulSet delete is reported as the Configmap stage (line 141, and the same in every `deleteRes`) |
| `errors_merge` (`MC_ErrorsUtil`) | pass | `MergeKeepsEveryError`: both merges keep exactly the non-nil errors (in order, under their tags) and return nil exactly when none is left. Checked against `NonNil` over all 85 lists of up to 3 entries and every tag map and range order: 2890 inputs |
| `fe_ports` | pass | `ServicePortsMatchContainer`: every service port equals the same-named container port. `WorkloadWiring`: the headless peer service governs the StatefulSet, the selectors pick its pods, every mount is a volume or claim template, `conf` is the FE configmap, and `FE_SVC` is the client service. Both hold for all 4456 inputs |
| `fe_rpc_port_key` | violation | `EachPortReadsOwnKey` (spec §9): the rpc port is read from `query_port` (fe_resources.go:92). The trace sets `rpc_port` and gets the default |
| `fe_nodeport_swap` | violation | `NodePortsByName` (spec §9): the NodePorts are swapped (fe_resources.go:160-165) |
| `fe_service_type` | violation | `ExternalSettingsNeedServiceType`: a service spec with a NodePort or a traffic policy and no type yields a ClusterIP service that carries them. The comment at line 151 says the settings apply "When the user specifies a service type", and the API server rejects such a service (fe_resources.go:153-165) |

Every property of a passing run has a mutant in `PROJECT.json`, which TLC must catch. The mutants are:

- replicas defaulted to 0;
- the client service never deleted;
- a create-only configmap (breaks the refinement: the StatefulSet is stamped with a hash of data the store does not hold);
- a cached CR;
- a missing port default;
- the rpc port advertised at its default;
- the conf volume naming the FE service instead of the configmap;
- `MergeErrors` without its nil filter, and without its empty-list check.

### Bounds

- **Values.** Two configuration contents are enough for a change. Two replica counts are enough for an autoscaler write to differ from the spec.
- **Failures.** `MaxFailures = 1` in `safety` allows one fault at any point of any pass: any single call fails, takes effect but fails, or the operator restarts. `liveness` allows 2, so that two faults can meet, for example a late reply whose retry pass is cut by a restart. Convergence must survive both.
- **FE inputs.** Two port values, two NodePorts, and the service types NodePort, LoadBalancer and unset. Every combination is an input of `MC_FeResources`.
- **Edits.** `MaxEdits` bounds spec edits and autoscaler (un)bindings together. It is 1 in `safety`, to keep the run short, and 2 elsewhere. `safety` declares three roles. FE is among them to cover the panic path, and CN and Broker cover the two differing call lists. The initial spec ranges over every declaration of the declarable roles. One edit then covers the key cases: remove a role, add one, change its configuration, or bind or unbind the autoscaler, each at any point of a pass.
- **Declarable roles.** Roles that are not declarable run their delete path with nothing to delete. The four role stages share one code shape: they differ only in their call lists (CN's lookup, Broker without a client service), and CN and Broker cover both differences.

### Fairness

The model assumes weak fairness of:

- `StartPass`: the host controller requeues after an error and resyncs periodically. After a restart, its informers list every object again, which enqueues the cluster;
- each pass step: a pass runs synchronously to its end (spec §5);
- `PodsStart` and `PodsGone`: the StatefulSet controller acts.

The user, the autoscaler and spontaneous pod restarts get no fairness.

## 5. Not modelled

- Owner references, the image, resources, PVC storage requests, host aliases, and the user's additional volumes, mounts, envs and containers. These are field mapping that no property distinguishes.
- The hadoop config merge into the configmap.
- Concurrent passes for the same instance: the work queue excludes them.
- External deletion of managed objects.
- Informer-cache staleness of `Exist`, beyond its effect as a failed call.
- One hazard has no property: user additional volumes that reuse the operator's volume names (fe_resources.go:246). Whether such a name is rejected by the CRD or a webhook is not in `src/`. Nothing in the spec or the code says what a clash should do. `ExternalSettingsNeedServiceType` covers the NodePort and service-type hazard.
- Pod-setting fallbacks (service account, affinity, tolerations, priority class, update strategy). Role-over-cluster-over-default is one `util` call per field, and a property would only restate it.
- The typed-nil `*MultiError` a caller would get by returning `MergeErrors()` as an `error`. Its `Error()` dereferences nil (lines 367, 383). No code in `src/` calls `MergeErrors`, so no pass can take this path. The hazard is listed without a property.
- Error message formatting. `MultiTaggedError.Error` lists tags in the map's range order, so one error value yields different strings on different calls. No property states this, because no caller in `src/` builds a status from it.
