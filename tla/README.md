# TLA+ models of the service-fabrik interoperator resource manager

This directory holds a TLA+ verification development for the Go code under
`src/interoperator/`: the resource manager that creates, updates and deletes the
subordinate Kubernetes objects of service instances and bindings, the renderer
factory and Helm renderer that produce those objects, and the two catalog
controllers (plan and service) that register the broker's catalog.

## The system

| Part | Source | What it does |
|---|---|---|
| Resource composition | `resources.go` `fetchResources`, `ComputeExpectedResources` | reads the instance, binding, plan and service, picks the plan template for an action, renders it and parses the YAML into the expected objects |
| Reconciliation engine | `resources.go` `SetOwnerReference`, `ReconcileResources`, `findUnstructuredObject`, `unstructuredToSource` | writes the expected objects to the target cluster (Get, Create or DeepUpdate+Update), deletes the objects of the previous status.resources that are no longer expected, and returns the new Source list |
| Status pipeline | `resources.go` `ComputeStatus` | renders the status template of the action against the live objects and parses the result |
| Sub-resource deletion | `resources.go` `DeleteSubResources`, `deleteSubResource` | deletes the objects of status.resources; for the graceful-teardown apiVersions `deployment/bind.servicefabrik.io/v1alpha1` it sets `status.state = "delete"` instead |
| Ownership tagging | `resources.go` `SetOwnerReference`, `MapReconcileByAnnotations`, `MapReconcileByControllerReference` | annotates each object with its owner and maps watch events back to the owner |
| Renderer factory | `factory.go` | chooses a renderer by template type and builds its input |
| Helm renderer | `helm/renderer.go` | renders a chart and keeps the manifests |
| Plan controller | `plan_controller.go` | labels an SFPlan with its service and sets the service as controller owner |
| Service controller | `sfservice_controller.go` | labels an SFService with its id |
| API types | `sfplan_types.go`, `sfservicebinding_types.go`, ... | template lookup, state accessors |

They interact through the Kubernetes API: an instance or binding controller
(not under `src/`, modelled from the spec) calls ComputeExpectedResources and
ReconcileResources, persists the returned Sources on status.resources, and on
deletion calls DeleteSubResources until nothing is left, then removes its
finalizer. Its reconcile requests come from a work queue with retries.

## Modules

`Reconciler.tla` models one request (an instance or a binding) and its target
cluster.

* State. `live`, `content`, `owned`, `teardown` are the target cluster: which
  keys (objects) exist, their spec (one of `Specs`), whether they carry the
  request's owner annotations, and whether a graceful teardown was asked of
  them. `req`, `desired`, `params`, `sources` are the request: its lifecycle
  (`active`, `deleting`, `gone`), its expected objects, the template values and
  status.resources. `pc`, `exp`, `expSpec`, `todo`, `last`, `pending`, `found`,
  `lastErr` are the locals of the call in progress (the program counter, the
  `expectedResources` snapshot, the remaining loop items, `lastResources`,
  `foundResources`, `lastError`). `faults` counts failed API calls; `call` is
  the delete or update the last step sent, for the action-style properties.
* Actions. One step per loop iteration of the code:
  `StartReconcile`; `ReconcileApply(k)` (created / updated / up to date);
  `ReconcileApplyFails` (the early `return nil, err` of lines 223, 229, 239);
  `ReconcileApplyDone`; `ReconcileCleanup(k)` (found, deleted, delete failed);
  `ReconcileCleanupDone`; `PersistSources` (the caller). For deletion:
  `StartDeleteSubResources`, `DeleteSubResource(k)` (not found, deleted,
  marked for deletion, failed), `DeleteSubResourcesDone`, `PersistRemaining`
  (the caller, which removes the finalizer when no Source remains). The
  environment: `UpdateRequest`, `DeleteRequest`, `TeardownController(k)` (the
  controller that owns a graceful-teardown object), `ExternalDelete(k)`,
  `ExternalEdit(k)`.
* `MC_Reconciler.tla` gives the constants: keys `k1`, `k2` (ordinary) and
  `s1` (graceful teardown), specs `v1`, `v2`, symmetry on `{k1,k2}` and on
  `{v1,v2}` (the model treats members of each set alike).

`Composition.tla` models one call of `ComputeExpectedResources` or
`ComputeStatus`, with `fetchResources`, `SFPlan.GetTemplate` and the renderer
factory.

* State. `op`, `action`, `given` are the call and which of instanceID,
  bindingID and serviceID+planID it sets; `templates` the plan's templates (a
  type name or none per action); `live` the objects of the target cluster;
  `pc` and `stage` (action, sources, status template) where the call is;
  `instance`, `binding`, `catalog` whether each was fetched; `files`, `todo`,
  `resources`, `named`, `sourceObjects`, `file` the locals (rendered files,
  loop items, parsed resources, sources entries with a name, the objects
  collected for the status template, the file picked); `result`, `err` the
  returned pair.
* Actions. `FetchResources` (each Get may return the object, not-found or a
  transport error), `ResolveTarget` (plan/service check, then
  `instance.GetName()` and for bind `binding.GetName()`, a panic when nil),
  `SelectRenderer` (GetTemplate, GetRenderer, GetRendererInput: no template,
  an unknown renderer type, `helm.New` failing to build its client or read the
  server version (`factory.go` 21, `renderer.go` 62-77), a fetched entity that
  `ObjectToMapInterface` cannot convert (`factory.go` 35-61, action and
  sources templates only), or the renderer input switch), `Render`,
  `ListFiles` (the empty-output return of ComputeStatus and the
  sources.yaml/status.yaml choice), `ParseFile(f)`, `ExpectedDone`,
  `ParseSources`, `FetchSource(k)`, `SourcesFetched`, `ParseStatus`, `Returned`.
* ComputeStatus does not compile as it stands in this snapshot: line 396 uses
  `StatusAction` and line 408 `GetStatusRendererInput`, and neither is defined
  anywhere in the repository. The model follows the code as written, reading
  `StatusAction` as the status action name of the plan's templates and
  `GetStatusRendererInput` by analogy with `GetPropertiesRendererInput`
  (`factory.go` 79-97), which builds its input from the sources map and has no
  conversion error. Nothing under `src/` calls ComputeStatus or
  ComputeExpectedResources.
* `MC_Composition.tla` gives three type names (`helm`, `GoTemplate`, and
  `goTemplate`, which names the go-template renderer only ignoring case), the
  file names `sources.yaml`, `status.yaml`, `other.yaml`, at most two files per
  render (enough for the file choice to matter), two sources entries, and
  either every combination of IDs or the ones the instance and binding
  controllers pass.

`Catalog.tla` models the two catalog controllers running concurrently with
users who edit the catalog: `ReconcileSfService` (`sfservice_controller.go`)
and `ReconcilePlan` (`plan_controller.go`), for a set of services and one plan.
The Service and SfService kinds that the two files name are treated as one
kind: their types are not under `src/`, and the code is mid-rename.

* State. Each service has `svcID` (Spec.ID), `svcLabel` (its `serviceId`
  label: an id, `Absent` for a labels map without the key, or `NilMap` when
  the object has no labels map) and `svcVer` (resourceVersion). The plan has
  `planSvc` (Spec.ServiceID), `planLabel`, `planIdLabeled` (the `planId`
  label), `planOwner` (its controller reference) and `planVer`. Each
  controller has one worker fed by a work queue. `sDirty`/`pDirty` say which
  objects are queued; `sPc`/`pPc` say where the Reconcile call is;
  `sSnap`/`pSnap` are the objects read from the cache; `pChosen`/`pChosenID`
  are the service the listing loop leaves in `service`; `pUpdate` says whether
  an Update is needed. `crashed` is a panicked manager. `faults`, `svcEdits`
  and `planEdits` bound the environment. `userSvcID`/`userPlanSvc` are ghost
  copies of the ids users last wrote.
* Actions.
  * `ServiceGet(s)` and `ServiceUpdate`: the Get, then the label write. The
    write panics on a nil map, is rejected with a conflict when the version
    moved, or fails transiently.
  * `PlanGet`, then `PlanList`: the List by `serviceId` label, the loop that
    keeps `&obj`, and SetControllerReference, which fails with AlreadyOwned
    for a different owner.
  * `PlanUpdate`: writes the labels and the owner in one Update.
  * `EditServiceID`, `EditPlanServiceID`: user edits; each marks the object
    dirty (the watches).
  * `Restart`: the manager restarts after a panic and queues everything again.
* `CatalogLabels.tla` is the abstract specification. Each catalog object
  (services and plan) has an id and a label. A user may change an id; a
  relabel atomically sets an object's label to its current id. Each service is
  relabelled eventually (weak fairness). `Catalog` implements it through the
  mapping `absIds`/`absLabels`, in which the plan is one more object.
* `MC_Catalog.tla` gives two services `a`, `b` (as model values) and ids
  `i1`, `i2`. `MCSpec` starts from catalogs where every id is some service's
  id, as a user who creates a plan for an existing service would.

`HelmRender.tla` models one call of the Helm renderer (`helm/renderer.go`):
`New`, `Render`, `RenderRelease` and `EngineRender`, each of which may fail.
Then the range loop of `renderResources` deletes partials (base name starting
with `_`) and ignored suffixes from the file map, one `FilterKey(k)` per key
in any order; `FilterDone` returns the map. `Base` is Go's `path.Base`.
`MC_HelmRender.tla` uses file names of up to three characters over
`/`, `_`, `x`, `n`, and the ignored suffix `xn`: enough for nested
directories, trailing slashes, a partial inside a directory, and a name that
is both.

## Runs

| Run | Checks | Shows |
|---|---|---|
| `composition_calls` | `ExpectedResultContract` | every path of ComputeExpectedResources, renderer-creation and input-conversion failures included, returns resources or an error, never both or neither (the ComputeStatus paths run beside it) |
| `status_nil_result` (violation) | `ResultContract` | a template that renders no file makes ComputeStatus return (nil, nil) |
| `reconcile_safety` | `TypeOK`, `FaultFreeNoOrphan`, `DeleteKeepsUndeleted`, `Tracking`, `DestructiveCallsOwned` | with no failed API call no owned object outlives the request; a deletion round never forgets an object that still exists; every delete and every deletion-state update targets an object carrying the request's owner annotations; the inductive invariant of the proof holds |
| `deletion_liveness` | `DeletionCompletes` | a deletion request is eventually finished |
| `orphan_leak` (violation) | `NoOrphanAfterDelete` | one failed Create after a successful one, then deletion, leaks an owned object |
| `special_delete` (violation) | `GracefulTeardown` | the orphan cleanup hard-deletes a graceful-teardown object |
| `catalog_safety` | `SpecNeverReverted` | no controller write ever reverts an id a user wrote, through conflicts, transient failures, panics and restarts (labels may start nil) |
| `catalog_labels` | `ServiceLabelsConverge`, `AbsSpec` | every service's label eventually stays equal to its id; the controllers implement `CatalogLabels` |
| `plan_liveness` | `PlanFollowsSpec` | with freshly created objects and no edits, the plan eventually carries its service's labels and that service as owner |
| `owner_alias` (violation) | `OwnerMatchesList` | a service whose label is stale after an id edit becomes the plan's owner, because the loop keeps the address of its variable |
| `nil_labels` (violation) | `NoPanic` | a plan or service created without labels panics the manager, again after every restart |
| `helm_filter` | `FilterSound` | the rendered output is exactly the files that are neither partials nor ignored, in any iteration order |

`FaultFreeNoOrphan` and `Tracking` speak only of runs in which no API call
failed, so they say nothing about a failed Create after earlier creates
(`resources.go:223`) or a lost status write (`resources.go:270`); those two
hazards are what `orphan_leak` (`NoOrphanAfterDelete`) exhibits. Likewise
`plan_liveness` has no plan edits, so it says nothing about the reparenting
failure at `plan_controller.go:132` (see `MC_Catalog_PlanReparent.cfg` below).

The violation runs are disagreements between the code and the spec, its
comments or its intent; PROJECT.json lists each as a finding with the line.
Modelling found five more, whose properties stay defined in the modules with
their cfgs beside the runs, but which no run checks, to keep the run list at
twelve:

* `MC_Composition_NilDeref.cfg` (`NoNilDereference`): a call without an
  instanceID dereferences nil.
* `MC_Composition_RendererCase.cfg` (`RendererSelection`): `goTemplate` is
  rejected despite a case-insensitive spec.
* `MC_Reconciler_RemainingStillExist.cfg`: a deleted Source stays in the
  remaining list.
* `MC_Reconciler_OrphanCleanup.cfg`: a not-found orphan stays in
  status.resources.
* `MC_Catalog_PlanReparent.cfg` (`PlanFollowsSpec` with one plan edit): once
  owned, a plan never follows a change of its ServiceID. SetControllerReference
  fails with AlreadyOwned on every retry, and the labels are written in the
  same Update after it.

Bounds. Reconciler: three keys (two ordinary, one special) are the fewest
that give an object that stays expected, one that a spec update drops, and a
special one. Two specs make an update and an external edit visible. One spec
change (`MaxChanges = 1`) makes the orphan cleanup reachable; one failed API
call (`MaxFaults = 1`) is what the leak needs. The liveness run uses two keys
(`k1`, `s1`) without symmetry.

Catalog: two services and two ids are the fewest for two services to share a
label (the alias) and for an id to move. One edit of each kind gives a
conflict between a user and a controller. One fault exercises every
transient-failure branch. `owner_alias` needs two service edits. The safety
run starts with nil labels, so the panic and the restart are reached.
Symmetry on the services is used only in the safety runs.

## Fairness

Reconciler: `WF_vars(Controller)`. The controller's work queue retries every
failed reconcile (controller-runtime requeues with back-off), so an enabled
controller step is eventually taken. `WF` on the teardown controller: the
controller of a graceful-teardown apiVersion is assumed to run. There is no
fairness on the user, on external writers, or on failures, which are bounded
by `MaxFaults`.

Catalog: weak fairness on each `ServiceGet(s)`, on `ServiceUpdate`, on the
plan controller, and on `Restart`. The reasons:

* A dirty object stays queued until its Reconcile returns nil (an error
  requeues it).
* The worker runs whatever it has dequeued.
* The manager is restarted by its Deployment.

Users and failures have no fairness.

## Proofs

`Reconciler_proofs.tla` proves, for every value of the constants:

* `TypeCorrect`: `Spec => []TypeOK`, by `InitTypeOK` and `NextTypeOK` (one case
  per action).
* `TrackingInvariant`: `Spec => []Tracking`. `Tracking` says that while no call
  failed, `Tracked` holds:
  * every owned live object is in status.resources when idle, and in
    status.resources or `found` during a call;
  * `sources = last` during a call;
  * every Source already handled by the cleanup or deletion loop is either
    found again or no longer live;
  * a gone request has no Sources.

  `FaultFreeNoOrphan` is not inductive by itself: a create in the middle of
  the apply loop has to be remembered in `found` until the caller persists it,
  which is what `Tracked` records. `faults` never decreases
  (`FaultsMonotone`), so a step with `faults' = 0` starts in a state with
  `faults = 0`, where `Tracked` holds.
* `FaultFreeNoOrphanInvariant`: `Spec => []FaultFreeNoOrphan`, from `Tracked`.

* `DeleteKeepsUndeletedInvariant`: `Spec => []DeleteKeepsUndeleted`. The
  strengthening `DeleteRound` says that during the deletion loop every
  Source already visited and not in `pending` is either found again or no
  longer live, and that `pending` is empty when the caller persists: the
  loop only shrinks `live` and only grows `found`.
* `DestructiveCallsOwnedProperty`: `Spec => DestructiveCallsOwned`, the action
  property that no step deletes, or sets the deletion state of, an object
  without the request's owner annotations. It rests on `SourcesOwned`
  (status.resources, `lastResources` and `foundResources` hold only owned
  keys, `pending` is inside `last`) and on `OwnedMonotone`: nothing in the
  model removes an owner annotation. Reuse of a name by another writer after
  the Get (`resources.go:255`) is not modelled, so the property says nothing
  about it.

`Composition_proofs.tla` proves, for every value of its constants:

* `TypeCorrect`: `Spec => []TypeOK`, with lemmas on the rendered file lists
  (`PickFileType`: the picked file is one of them; `SeqRangeType`).
* `ExpectedResultContractInvariant`: `Spec => []ExpectedResultContract`.
  `ResultPending` strengthens it: before the return the pair is still
  (nil, none); a ComputeExpectedResources call never leaves the action stage;
  and the lemma `FailSetsError` says every early return sets exactly one of
  the two. The general `ResultContract` is false on the status path (the
  `status_nil_result` run), which is why the theorem is about
  ComputeExpectedResources.

`Catalog_proofs.tla` proves, for any number of services, ids, edits and faults
(from `CatalogAssumption`):

* `TypeCorrect`: `Spec => []TypeOK`.
* `SpecNeverRevertedInvariant`: `Spec => []SpecNeverReverted`.
  `SpecNeverReverted` alone is not inductive: a controller writes an id it
  read earlier. The strengthening `SnapshotsCurrent` says that a snapshot's
  version never exceeds the object's, and that when the versions are equal the
  snapshot's id is the object's. Since every write checks the version
  (`Conflict`) and every user edit bumps it, a write only ever writes back the
  id the object already has.
* `RefinesCatalogLabels`: `Spec => Abs!Init /\ [][Abs!Next]_absVars`, the
  safety part of `AbsSpec`. `InitRefines` maps the initial states.
  `NextRefines` shows that every step is an `EditID`, a `Relabel` or a
  stutter, again from `SnapshotsCurrent`: the id a controller writes as a
  label is the object's current id.

`HelmRender_proofs.tla` proves, for any alphabet, name length and suffix
set (from `HelmAssumption`):

* `FilterExactInvariant`: a successful render returns exactly the rendered
  names that `Excluded` (the code's partial or suffix test) does not reject,
  in every visiting order, although the loop deletes keys of the map it
  ranges over. The loop invariant `LoopInv` says the keys already visited are
  kept exactly when the test keeps them and the others are still in the map.
* `FilterSoundInvariant`: `Spec => []FilterSound`, the property of the
  `helm_filter` run, from `LoopInv` and the lemma `ExcludedIsRefExcluded`:
  the code's test and the reference exclude the same names. It has two halves.
  * `IgnoredIsRefIgnored`: `strings.HasSuffix`, modelled with `IsSuffix`,
    which compares reversed prefixes, agrees with "some name followed by a
    suffix". It uses `SuffixByIndex`, `SuffixSplit`, `SuffixJoin` and the
    library's `SequenceTheorems`.
  * `PartialIsRefPartial`: `strings.HasPrefix(path.Base(k), "_")` agrees with
    `RefPartial`. `Base` is written with a `Min` (where the trailing slashes
    start, `TrailStart`) and a `Max` (where the last segment starts,
    `SegStart`). Their existence comes from the library's `WFMin` and
    `NatLessThanWellFounded`, not from an induction with an operator
    parameter (`MinProps`, `MaxProps`). `BaseForm` and `RefForm` then bring
    both tests to one index form: the name has a last segment, and its first
    character is `_`.

  The SMT backend cannot encode the string `"_"`. Steps whose facts mention
  it are given to Zenon; the arithmetic is kept in steps without it.

Liveness (`DeletionCompletes`, `ServiceLabelsConverge`, `PlanFollowsSpec`, the
fairness part of `AbsSpec`) stays with TLC: the prover does not handle
fairness and ENABLED.

## Not modelled

* Template rendering (template text, YAML parsing, the Helm engine) is pure
  data transformation out of TLC's reach. A render is abstracted to success or
  an error and a set of file names; `gotemplate` is not under `src/`.
* `DeepUpdate` is not under `src/` and is abstracted to `NeedsUpdate`.
* Several owners sharing one target cluster, and
  `MapReconcileByControllerReference`, are not modelled.
* `SFServiceBinding.GetState` dereferences a possibly nil status field, but no
  code under `src/` calls it (a hazard in PROJECT.json).
* The API types' deep-copy functions are generated code.

Plan for the next steps:

1. Two requests sharing a target cluster in `Reconciler` (the annotation
   mapping).
2. A refinement of the reconciler by an abstract "status.resources covers the
   owned objects" specification.
3. A refinement proof for the reconciler once (2) exists.
