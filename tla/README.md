# Verification of the EKSCluster reconciler (stack-aws)

This directory holds TLA+ models of the EKSCluster controller in
`src/pkg/controller/compute/eks.go`, together with its reference resolver and
its condition tracker. It also holds TLC configurations that model-check them
and TLAPS proofs of their main safety properties.

## The system

The system has these parts (see `spec.md` §2):

- **Reconcile Loop** (`eks.go`, `Reconcile`, lines 397-444). Each pass does the
  following, in order:
  1. Reads the object through the informer cache (line 401).
  2. Connects to AWS (line 409).
  3. Resolves references until ReferencesResolved is True (lines 414-427).
  4. Adds the finalizer in memory (line 430).
  5. Dispatches to `_delete`, `_create` or `_sync`.

  Every path ends in one `r.Update` of the whole object. The CRD has no status
  subresource (`types.go` line 303), so that update writes spec, status,
  conditions and finalizers at once, and only if the resourceVersion read is
  still current.
- **Multi-stage provisioning** (`_create` lines 166-198, `_sync` lines 286-346).
  The stages are:
  1. Create the EKS master.
  2. Wait until it is ACTIVE.
  3. Create the CloudFormation worker stack and record its ID.
  4. Wait for the stack to complete.
  5. Push the aws-auth config map.
  6. Publish the connection secret.
  7. Mark the resource Available.

  `_delete` (lines 368-393) deletes the master and then the stack. It collects
  both errors and removes the finalizer only when there were none.
- **Reference Resolver**. The referencers' `GetStatus` and `Build` are in
  `securitygroup_referencers.go`, and the `Assign` methods are in
  `types.go` lines 63-136. The loop that runs them is crossplane-runtime's
  `ResolveReferences`, which is outside this repository and is modelled from
  spec §4.1.
- **Condition Tracker**. These are crossplane-runtime's condition constructors
  and `SetConditions`, modelled from spec §4.4: one condition per type.
- **External Client Adapter** (the eks and CloudFormation clients). They are
  outside this repository, so they appear only through the state they change.
  Three of their answers matter to the controller and are not fixed by
  anything in the repository. Each is a named constant:
  - `BadSpec`: CreateCluster refuses the spec with BadRequest (lines 173-180).
  - `EmptyNameRejected`: `client.Delete("")` fails with an error other than
    NotFound (line 372).
  - `AlreadyExistsPanics`: `Create` returns no cluster together with
    AlreadyExists, so line 186 panics and the manager process restarts.
- **Connection Publisher** (`_awsauth` lines 201-284, `_secret` lines
  348-365). It is modelled as the flags `authConfigured` and
  `secretPublished`. Each step may fail on its own.
- **IAMRolePolicyAttachment controller**. Only its tests are in the repository.
  It is not modelled yet.

## Modules

| Module | Models |
|---|---|
| `Conditions` | Condition sets keyed by type, the constructors, `SetCondition` and `IsConditionTrue` (spec-modelled). |
| `ReferenceResolver` | `GetStatus` of a referencer, the set of unresolved references, which of them are Ready and get built, `Assign` as "the field is filled", and when resolution is blocked. |
| `EKSReconciler` | The controller, the API server object, the informer cache and the AWS resources. |
| `ManagedLifecycle` | The abstract specification: what the Reconcile Loop promises about the stored object. |
| `MC_EKSReconciler` | The TLC instance: two references, two stack IDs, resourceVersion bound 8, and symmetry. |
| `EKSReconcilerProofs` | TLAPS proofs of type correctness and `ProvisionedOnlyResolved`. |
| `EKSLifecycleProofs` | The TLAPS proof that `EKSReconciler` implements `ManagedLifecycle`, and two invariants derived from it. |
| `EKSResourceProofs` | TLAPS proofs of `RecordedResourcesReleased` and `AvailableOnlyWhenProvisioned`, the invariants that tie the object to AWS. |

### State of `EKSReconciler`

- `store`: the object on the API server. Its fields:
  - `exists`, `rv` (resourceVersion), `deleting` (deletionTimestamp set) and
    `finalizer`;
  - `filled`: which referenced spec fields hold a value;
  - `clusterName` and `stackID`: the identifiers recorded in Status;
  - `conds`: the conditions.
- `cache`: the version the informer holds. After every write it is one version
  behind until `CacheSync`.
- `master`: the EKS cluster's state (NONE, CREATING, ACTIVE, FAILED, DELETING).
- `stacks`: the state of every worker stack this controller could create. CloudFormation states are grouped into `completedCFState`, `failedCFState` and the rest (lines 79-90).
- `authConfigured`: whether the aws-auth map was pushed.
- `secretPublished`: whether the connection secret was published.
- `targets`: the referenced objects, with whether each exists and is Ready.
- `sent`: the spec (as its `filled` map) of every CreateCluster and CreateWorkerNodes call.

### Actions

One pass of `Reconcile` is one atomic step. It computes on the cached version and ends in `WriteBack`, the `r.Update`. `WriteBack` has three outcomes:
- it is a no-op when nothing changed;
- it succeeds when the resourceVersion matches, bumps it, and deletes the object if `deleting` is set and the finalizer is gone;
- it fails on a conflict, or with a transient error.

The paths of a pass are separate actions:
- `ReconcileConnectFail` (lines 408-412);
- `ReconcileResolveFail` (lines 414-423), for a blocked or erroring resolution;
- `ReconcileDelete` (433-435, `Delete`);
- `ReconcileCreate` (438-440, `Create`);
- `ReconcileSync` (443, `Sync`, which uses `CreateWorkerNodes` and `SyncWorkers`).

The `_sync` path where the cluster is not ACTIVE (line 292) writes nothing, so it is a stutter. Transient errors of the AWS calls are choices gated by the constant `TransientErrors`.

Some operators model single calls:
- `AWSAuth` and `PublishSecret` are the two calls in the completed-stack branch of `SyncWorkers`.
- `MasterDeleteErr` is the error of `client.Delete(Status.ClusterName)`, which is called even when no name was recorded.
- `CrashRestart` is the panic at line 186. Nothing is written, and the restarted informer relists the object.

The environment:
- `MasterProgress` and `StackProgress`: AWS finishing its work.
- `TargetChange`: referenced objects appear, disappear, or change readiness.
- `UserDelete`: a deletion timestamp is set, and the object is removed outright when it has no finalizer.
- `CacheSync`: the informer catches up.

## Runs

All runs use `MC_EKSReconciler` with `ReclaimPolicy = "Delete"`. They set `CHECK_DEADLOCK FALSE` because once the object is deleted its lifecycle really ends and nothing is enabled. Unless a run says otherwise, `BadSpec`, `EmptyNameRejected` and `AlreadyExistsPanics` are FALSE. With `TransientErrors = TRUE` this allows every outcome of the calls they gate.

| Run (cfg) | Expect | Checks |
|---|---|---|
| safety (`MC_EKSReconciler.cfg`) | pass | `TypeOK`, `ProvisionedOnlyResolved`, `FinalizerImpliesResolved`, `RecordedResourcesReleased`, `AvailableOnlyWhenProvisioned`, `IdentifiersStable` |
| leak (`MC_EKSReconciler_leak.cfg`) | violation | `NoLeakAfterDeletion` |
| stacks (`MC_EKSReconciler_stacks.cfg`) | violation | `SingleWorkerStack` |
| failed_master (`MC_EKSReconciler_failed.cfg`) | violation | `FailedMasterSurfaced` (under `LiveSpec`) |
| lifecycle (`MC_EKSReconciler_lifecycle.cfg`) | pass | `ImplementsLifecycle`, with `AlreadyExistsPanics = TRUE` |
| liveness (`MC_EKSReconciler_live.cfg`) | pass | `DeletionCompletes`, `ProvisioningCompletes` (under `LiveSpec`) |
| stuck_deletion (`MC_EKSReconciler_stuck.cfg`) | violation | `DeletionCompletes`, with `BadSpec` and `EmptyNameRejected` |
| crashloop (`MC_EKSReconciler_crashloop.cfg`) | violation | `ProvisioningCompletes`, with `AlreadyExistsPanics` |

What the safety run shows, under transient errors, stale reads, conflicting writes, user deletion at any point and referenced objects changing at any time:
- no AWS create call goes out with an empty referenced field;
- the finalizer never exists before the references are resolved, so resolving before the deletion check (lines 414-433) cannot block deletion;
- the finalizer is removed only after the recorded cluster and stack are being deleted;
- Ready=True is written only after the stack completed, the aws-auth map was pushed and the secret was published;
- a persisted ClusterName or CloudFormationStackID is never cleared or replaced by a pass that read an older version.

Each property has a mutant in `PROJECT.json`. The mutant is a plausible bug in the code, and the run finds it.

The lifecycle run shows that every behaviour of the controller, including its stale reads, conflicts, transient errors and panics, is a behaviour of `ManagedLifecycle` under the mapping `Lifecycle`. The next section describes that specification.

The liveness run uses `TransientErrors = FALSE`, because the code retries an error without bound and nothing makes errors stop. It has no symmetry, which would be unsound for liveness checking. It shows two things:
- once the user deletes the object, it is eventually gone;
- an object whose references stay Ready eventually becomes Ready, or shows why not (a FAILED cluster or stack).

The violation runs are findings:

1. **leak.** The finalizer is persisted only with the first status write, after `client.Create` (lines 430, 171, 197). A deletion that lands first removes the object, but a pass on the stale cache still creates the cluster, and that cluster is never deleted.
2. **stacks.** A lost or conflicting write after `CreateWorkerNodes` (lines 300-311) lets a second pass create a second stack. The ID of the first stack is lost, so `_delete` never removes it.
3. **failed_master.** `_sync` treats FAILED like CREATING (line 292). With fair scheduling, the error is never surfaced, which contradicts spec §4.3(b).
4. **stuck_deletion.** AWS refuses the spec, so the object has the finalizer but no ClusterName. The user then deletes it. `_delete` calls `client.Delete("")` and tolerates only NotFound (line 372). If the client rejects the empty name, every pass fails and the finalizer is never removed. aws-sdk-go validates a minimum name length of 1. With `EmptyNameRejected = FALSE` the same instance passes.
5. **crashloop.** A pass on a stale cache creates the cluster, and its write conflicts with a blocked-resolution write. Every later pass then gets AlreadyExists and panics at line 186, if the client returns no cluster with that error. The ClusterName is never recorded.

### The abstract lifecycle (`ManagedLifecycle`)

Its state is seven variables: `exists`, `deleting`, `finalizer`, `resolved` (ReferencesResolved True), `named` (ClusterName recorded), `stack` (CloudFormationStackID) and `ready` (Ready True). It has two steps:
- `Persist`: the controller writes a new version. Resolution is never undone, and the finalizer needs it. The identifiers are recorded at most once, in order, only on a resolved object that is not being deleted. Ready needs both identifiers and is never set during deletion. The finalizer is dropped only on deletion, and the object is then gone.
- `RequestDeletion`: the user deletes the object.

The mapping reads these variables from `store`. Writes that change only the resourceVersion, Synced or filled fields are stutters.

### Bounds

- Two references are enough for one reference to be Ready while another is blocked.
- Two stack IDs are enough for a duplicate stack to show.
- A resourceVersion bound of 8 allows create, stack creation, completion, a conflicting user deletion and the delete pass in one behaviour. The safety run reaches depth 18 and 46,221 distinct states in about 15 seconds. The liveness run reaches 14,652 states.
- The liveness properties count a behaviour that reaches `MaxRV` as done (`store.rv = MaxRV`), because the bound, not the code, stops it there.
- Symmetry over the reference set and over the stack-ID set is sound: no definition distinguishes their elements.

### Fairness

`LiveSpec` assumes weak fairness of:
- `Reconcile`: every pass requeues, through RequeueAfter or a returned error;
- `MasterProgress` and `StackProgress`: AWS finishes what it started;
- `CacheSync`: the informer delivers events.

It assumes no fairness for users or referenced objects, and none for the choice of an error. `ProvisioningCompletes` is therefore stated for behaviours whose references eventually stay Ready (`<>[]Settled`).

## Proofs (`EKSReconcilerProofs`, checked by tlapm)

The proofs hold for every finite set of references, every finite set of stack IDs, both reclaim policies, every `MaxRV` ≥ 1, and with or without transient errors. These are the ASSUMEs of `ReferenceResolver` and `EKSReconciler`.

- **`TypeCorrect`**: `Spec => []TypeOK`. There is one lemma per path of a pass: `DeleteType`, `CreateType`, `CreateWorkerNodesType`, `SyncWorkersType`, `SyncType`, `FailType`, `ReleaseType` and `WriteBackType`. These rest on lemmas about `SetCondition`, `AssignAll` and `Prepared`.
- **`ProvisionedOnlyResolvedCorrect`**: `Spec => []ProvisionedOnlyResolved`. The invariant alone is not inductive, because a pass reads the cache and not the stored object. The inductive invariant `IInv` adds `RefsSound` for both `store` and `cache`: when ReferencesResolved is True, every referenced field is filled. The argument has three parts:
  1. `PreparedFilled`: a pass that gets past resolution works on a filled object. Either resolution succeeded, in which case every unresolved reference was Ready and was assigned, or it was already True on a sound version.
  2. Every write from such a pass, and every spec it sends, is filled (`CreateSound`, `SyncSound`, `DeleteSound`).
  3. A pass that stops at resolution writes ReferencesResolved as either unchanged-and-not-True or False (`ResolveFailSound`), and `UserDelete` and `CacheSync` only copy sound versions.

  `IInv` was also checked by TLC as an invariant of the safety instance.

## Proofs (`EKSLifecycleProofs`)

- **`ImplementsLifecycleCorrect`**: `Spec => ImplementsLifecycle`. Following the usual refinement proof, it shows three things:
  - `Init => Lifecycle!Init`;
  - the inductive invariant `RInv` holds initially and is preserved;
  - every step under `RInv` is a `Lifecycle!Next` step or a stutter of the mapped variables.

  `RInv` adds three facts to `TypeOK`:
  - `CacheCoherent`: a cached version with the stored resourceVersion is the stored object. A pass computes on the cache, and its write succeeds only on the stored resourceVersion, so the write's predecessor is the stored object.
  - `ExistsOK`: a stored object being deleted has its finalizer.
  - `ReadyOK`: Ready only with both identifiers, for `store` and `cache`.

  The proof has one lemma per path: `ConnectFailRefines`, `ResolveFailRefines`, `DeleteRefines`, `CreateRefines`, `CreateWorkerNodesRefines`, `SyncWorkersRefines` and `SyncRefines`. Each shows that the object the path writes is either `LegalObj`, a `Persist` successor of the cached object, or `SameAbs`, a stutter. `WriteRefines` turns either into a lifecycle step.
- **`FinalizerImpliesResolvedCorrect`** and **`IdentifiersStableCorrect`** follow from the refinement. The first is an invariant of `ManagedLifecycle`. The second is its `Identifiers` clause.

The proofs in all three proof modules hold for all values of `BadSpec`, `EmptyNameRejected` and `AlreadyExistsPanics` (`ClientAssumption`).

## Proofs (`EKSResourceProofs`)

- **`RecordedResourcesReleasedCorrect`**: `Spec => []RecordedResourcesReleased`.
- **`AvailableOnlyWhenProvisionedCorrect`**: `Spec => []AvailableOnlyWhenProvisioned`.

Neither invariant is inductive on its own, for two reasons:
- A pass computes on the cache, so a version in the cache must meet the same conditions as the stored one.
- Once the object is gone, the cache can still hold the version before it, and a pass can run on that version. That is how the leak run creates a cluster after the object is gone.

The inductive invariant `PInv` is `RInv` from `EKSLifecycleProofs` plus `AInv`. `AInv` adds these facts:
- `AvailOK`, for `store` and `cache`: Ready True implies the aws-auth map was pushed, the secret was published, and the recorded stack is COMPLETE, DELETING or DELETED.
- `StackRecorded`, for both: a recorded stack ID names a stack CloudFormation handed out.
- `NamesNeedFinalizer`, for both: an existing version that records an identifier carries the finalizer.
- `CacheExistsOK`: `ExistsOK` for the cached version.
- `GoneSafe`: when the object is gone, the cached version is also gone, or it is being deleted, or the object never recorded an identifier. So a stale pass on a gone object either runs `_delete` again, which moves things only towards deletion, or creates a cluster for an object that recorded none.
- `RecordedResourcesReleased` itself.

The proof rests on `Mono`: AWS only moves forward. The aws-auth map and the secret stay. A stack ID is never handed out twice. A completed stack never runs again. A stack being deleted never comes back. `MonoStep` proves `Mono` for every step.

Each pass path then shows that the object it writes satisfies `WriteOK`:
- it was built from the cache;
- its Ready is backed by AWS after the step;
- its stack was handed out;
- it drops the finalizer only while deleting, and under ReclaimDelete only once its identifiers are released.

`WriteKeeps` turns `WriteOK` into the invariant, for writes that succeed and for writes that are refused. The release write is the case that matters. In the step that removes the finalizer, `_delete` has just asked for the cluster and the recorded stack to be deleted, or found them already gone, and both calls succeeded (`DeleteKeeps`).

TLC checked `PInv` as an invariant on the safety instance, under both reclaim policies, before it was proved.

## Only model-checked

Every invariant and action property of the passing runs has a theorem. What remains for TLC alone:

- The liveness properties (`DeletionCompletes`, `ProvisioningCompletes`, `FailedMasterSurfaced`). TLAPS does not handle liveness under fairness or ENABLED.
- The properties of the violation runs (`NoLeakAfterDeletion`, `SingleWorkerStack`, and the liveness runs that fail). These are counterexamples, not theorems.

## Not modelled

- The IAMRolePolicyAttachment controller: only its tests are in `src/`.
- The content of the aws-auth map and of the connection secret (`generateAWSAuthConfigMap`, `_secret`). These are formatting. Only whether each call succeeded is modelled.
- The values of referenced fields, including the appending `Assign` of list fields (`types.go` lines 102 and 118). The model sees only whether a field is filled.
- Which answer the eks client really gives to `Create` with AlreadyExists and to `Delete("")`. That client is not in the repository, so both answers are constants, and the runs show what each one leads to.
- The order of the two deletions in `_delete` (cluster before stack). AWS does not tie a cluster's deletion to a self-managed worker stack, so the model deletes them independently.
- Controller setup (lines 100-130) and logging.

## Plan for later work

- A list-valued model of the appending `Assign` (types.go lines 102 and 118). It needs the crossplane-runtime resolver loop, which is outside the repository, to decide whether a reference is built again.
- A spec-modelled IAMRolePolicyAttachment module with its diff-and-reconcile update.
