---------------------------- MODULE EKSReconciler ----------------------------
(***************************************************************************)
(* The EKSCluster controller of pkg/controller/compute/eks.go: one        *)
(* managed EKSCluster object, the reconcile passes the controller runs on *)
(* it, and the world those passes talk to:                                *)
(*   - the API server's copy of the object (store) and the informer cache *)
(*     a pass reads it from (cache), which may still hold the version     *)
(*     before the last write;                                             *)
(*   - the AWS side: the EKS control plane ("master") and the             *)
(*     CloudFormation stacks of worker nodes;                             *)
(*   - the aws-auth config map on the cluster and the connection secret;  *)
(*   - the objects the spec's references point to.                        *)
(* A pass runs to completion on one worker (controller-runtime runs one   *)
(* pass per object at a time), so a pass is one step; what may happen     *)
(* between its calls is modelled by the stale cache read and by failures  *)
(* of its final write.                                                    *)
(***************************************************************************)
EXTENDS Naturals, FiniteSets, ReferenceResolver, Conditions

CONSTANTS
    StackIds,          \* identifiers CloudFormation may give a worker stack
    NoStack,           \* the empty Status.CloudFormationStackID
    ReclaimPolicy,     \* Spec.ReclaimPolicy of the object
    MaxRV,             \* bound on the object's resourceVersion (writes)
    TransientErrors,   \* whether AWS and API calls may fail transiently
    BadSpec,           \* whether CreateCluster refuses the spec (BadRequest)
    EmptyNameRejected, \* whether client.Delete("") fails other than NotFound
    AlreadyExistsPanics \* whether Create returns no cluster with AlreadyExists

ASSUME StackAssumption == IsFiniteSet(StackIds) /\ NoStack \notin StackIds
ASSUME ReclaimAssumption == ReclaimPolicy \in {"Delete", "Retain"}
ASSUME BoundAssumption == MaxRV \in Nat \ {0}
ASSUME ErrorsAssumption == TransientErrors \in BOOLEAN
ASSUME ClientAssumption ==
    {BadSpec, EmptyNameRejected, AlreadyExistsPanics} \subseteq BOOLEAN

VARIABLES
    store,            \* the EKSCluster object as the API server holds it
    cache,            \* the version of it a pass reads (r.Get)
    master,           \* the EKS cluster named eks-<UID> in AWS
    stacks,           \* the CloudFormation worker stacks by identifier
    authConfigured,   \* the aws-auth config map has been pushed
    secretPublished,  \* the connection secret has been published
    targets,          \* the referenced objects
    sent              \* the specs (which references were filled) sent to AWS

vars == <<store, cache, master, stacks, authConfigured, secretPublished,
          targets, sent>>
awsVars == <<master, stacks, authConfigured, secretPublished, sent>>

-----------------------------------------------------------------------------
(* EKS cluster statuses; "NONE" is no cluster of that name.                *)
MasterStates == {"NONE", "CREATING", "ACTIVE", "FAILED", "DELETING"}

(* CloudFormation stack statuses: CREATE_IN_PROGRESS, CREATE_COMPLETE,     *)
(* CREATE_FAILED or ROLLBACK_COMPLETE, DELETE_IN_PROGRESS, DELETE_COMPLETE; *)
(* "NONE" is an identifier not handed out yet.                             *)
StackStates == {"NONE", "CREATING", "COMPLETE", "FAILED", "DELETING",
                "DELETED"}

\* completedCFState and failedCFState (eks.go lines 78-91).
CompletedCFState == {"COMPLETE"}
FailedCFState == {"FAILED", "DELETED"}

\* The fields of the object the controller reads or writes.  clusterName is
\* whether Status.ClusterName is set (it is always eks-<UID> when it is).
Obj == [exists : BOOLEAN, rv : 0..MaxRV, deleting : BOOLEAN,
        finalizer : BOOLEAN, filled : [Refs -> BOOLEAN],
        clusterName : BOOLEAN, stackID : StackIds \cup {NoStack},
        conds : ConditionSets]

\* The outcomes of a call that may fail transiently: TRUE is an error.
Err == IF TransientErrors THEN BOOLEAN ELSE {FALSE}

-----------------------------------------------------------------------------
(***************************************************************************)
(* Writing the object back: r.Update of controller-runtime's client.  The *)
(* CRD has no status subresource (types.go line 303), so Update writes     *)
(* spec, status, conditions and finalizers at once, and only if the       *)
(* object still has the resourceVersion the pass read.  An update that    *)
(* changes nothing is not written and bumps no version.  Removing the     *)
(* last finalizer of an object being deleted deletes it.  The informer    *)
(* delivers a new version later (CacheSync): until then a pass reads the  *)
(* version before the write.                                              *)
(***************************************************************************)
SameObject(o, p) == [o EXCEPT !.rv = 0] = [p EXCEPT !.rv = 0]

Inform == cache' = store

\* Mutant: a write that ignores the resourceVersion (last writer wins).
WriteBackBlind(obj) ==
    \/ /\ store.exists
       /\ store.rv < MaxRV
       /\ store' = [obj EXCEPT !.rv = store.rv + 1,
                               !.exists = obj.finalizer \/ ~obj.deleting]
       /\ Inform
    \/ UNCHANGED <<store, cache>>

WriteBack(obj) ==
    \/ /\ store.exists
       /\ obj.rv = store.rv
       /\ SameObject(obj, store)
       /\ UNCHANGED <<store, cache>>
    \/ /\ store.exists
       /\ obj.rv = store.rv
       /\ ~SameObject(obj, store)
       /\ store.rv < MaxRV
       /\ store' = [obj EXCEPT !.rv = store.rv + 1,
                               !.exists = obj.finalizer \/ ~obj.deleting]
       /\ Inform
    \/ /\ obj.rv # store.rv \/ ~store.exists \/ TransientErrors
       /\ UNCHANGED <<store, cache>>

\* fail (lines 133-140): a ReconcileError condition and the write.
Fail(obj) == WriteBack([obj EXCEPT !.conds = SetCondition(@, ReconcileError)])

-----------------------------------------------------------------------------
(* The prefix of Reconcile (lines 414-430).                                *)

\* Line 414: references are resolved on every pass until the
\* ReferencesResolved condition is True.
NeedsResolution(obj) == ~IsConditionTrue(obj.conds["ReferencesResolved"])

\* ResolveReferences succeeds: every unresolved reference is Ready.
CanProceed(obj) ==
    ~NeedsResolution(obj) \/ ~IsBlocked(obj.filled, targets)

\* Lines 414-427 when ResolveReferences succeeds: Build and Assign fill the
\* unresolved fields and ReferenceResolutionSuccess is recorded.
ResolveReferences(obj) ==
    IF NeedsResolution(obj)
    THEN [obj EXCEPT
            !.filled = AssignAll(@, ReadyUnresolved(@, targets)),
            !.conds = SetCondition(@, ReferenceResolutionSuccess)]
    ELSE obj

\* Line 430: meta.AddFinalizer, in memory.
AddFinalizer(obj) == [obj EXCEPT !.finalizer = TRUE]

\* The object a pass goes on with after line 430.
Prepared(obj) == AddFinalizer(ResolveReferences(obj))

-----------------------------------------------------------------------------
(* A panic in a pass ends the manager's process: nothing is written, and   *)
(* the restarted informer lists the stored object afresh.                 *)
CrashRestart == cache' = store /\ UNCHANGED store

(* _create (lines 166-198).  An "already exists" error is carried on from *)
(* as a success (line 172); line 186 then reads createdCluster.Version,    *)
(* which panics when the client returns no cluster with the error         *)
(* (AlreadyExistsPanics).  A bad request (lines 173-180), which AWS      *)
(* answers to every Create of a spec it refuses (BadSpec), and any other   *)
(* error (line 181) both record ReconcileError and write.                 *)
Create(obj) ==
    LET o == [obj EXCEPT !.conds = SetCondition(@, Creating)]
        created == [o EXCEPT !.clusterName = TRUE,
                             !.conds = SetCondition(@, ReconcileSuccess)]
    IN  \/ /\ master = "NONE"
           /\ ~BadSpec
           /\ master' = "CREATING"
           /\ sent' = sent \cup {o.filled}
           /\ WriteBack(created)
        \/ /\ master # "NONE"
           /\ ~AlreadyExistsPanics
           /\ WriteBack(created)
           /\ UNCHANGED <<master, sent>>
        \/ /\ master # "NONE"
           /\ AlreadyExistsPanics
           /\ CrashRestart
           /\ UNCHANGED <<master, sent>>
        \/ /\ TransientErrors \/ BadSpec
           /\ Fail(o)
           /\ UNCHANGED <<master, sent>>

\* Mutant: the stack's identifier is not recorded (line 305 dropped).
CreateWorkerNodesNoRecord(obj) ==
    \/ \E s \in StackIds :
         /\ stacks[s] = "NONE"
         /\ stacks' = [stacks EXCEPT ![s] = "CREATING"]
         /\ sent' = sent \cup {obj.filled}
         /\ WriteBack([obj EXCEPT !.conds = SetCondition(@, ReconcileSuccess)])
    \/ /\ TransientErrors
       /\ Fail(obj)
       /\ UNCHANGED <<stacks, sent>>

\* Lines 300-312: CreateWorkerNodes and record the stack's identifier.
CreateWorkerNodes(obj) ==
    \/ \E s \in StackIds :
         /\ stacks[s] = "NONE"
         /\ stacks' = [stacks EXCEPT ![s] = "CREATING"]
         /\ sent' = sent \cup {obj.filled}
         /\ WriteBack([obj EXCEPT !.stackID = s,
                                  !.conds = SetCondition(@, ReconcileSuccess)])
    \/ /\ TransientErrors
       /\ Fail(obj)
       /\ UNCHANGED <<stacks, sent>>

\* _awsauth (lines 244-284, with generateAWSAuthConfigMap, lines 201-241):
\* create the aws-auth config map in the new cluster, or update it when it
\* already exists.  Any error (marshalling, token, CA, client, the write)
\* leaves the cluster as it was.
AWSAuth(err) == authConfigured' = (authConfigured \/ ~err)

\* _secret (lines 348-365): publish the connection secret, wholesale.
PublishSecret(err) == secretPublished' = (secretPublished \/ ~err)

\* Mutant: a stack still in progress taken for a completed one.
SyncWorkersNoCompleteCheck(obj) ==
    LET ok == [obj EXCEPT !.conds = SetCondition(@, ReconcileSuccess)] IN
    \/ /\ stacks[obj.stackID] \in FailedCFState
       /\ Fail(obj)
       /\ UNCHANGED <<authConfigured, secretPublished>>
    \/ /\ stacks[obj.stackID] \notin FailedCFState
       /\ authConfigured' = TRUE
       /\ secretPublished' = TRUE
       /\ WriteBack([ok EXCEPT !.conds = SetCondition(@, Available)])

\* Lines 314-345: poll the worker stack; once it is complete push the
\* aws-auth config map (_awsauth), publish the connection secret (_secret)
\* and mark the cluster Available.
SyncWorkers(obj) ==
    LET st == stacks[obj.stackID]
        ok == [obj EXCEPT !.conds = SetCondition(@, ReconcileSuccess)]
    IN  \/ /\ TransientErrors \/ st \in FailedCFState
           /\ Fail(obj)
           /\ UNCHANGED <<authConfigured, secretPublished>>
        \/ /\ st \notin FailedCFState \cup CompletedCFState
           /\ WriteBack(ok)
           /\ UNCHANGED <<authConfigured, secretPublished>>
        \/ /\ st \in CompletedCFState
           /\ \E authErr, secretErr \in Err :
                /\ AWSAuth(authErr)
                /\ IF authErr
                   THEN Fail(obj) /\ UNCHANGED secretPublished
                   ELSE /\ PublishSecret(secretErr)
                        /\ IF secretErr
                           THEN Fail(obj)
                           ELSE WriteBack([ok EXCEPT
                                             !.conds = SetCondition(@, Available)])

\* _sync (lines 286-346).  A cluster that is not ACTIVE (line 292) ends the
\* pass with nothing written: that path changes no state and is a stutter.
Sync(obj) ==
    \/ /\ TransientErrors \/ master = "NONE"
       /\ Fail(obj)
       /\ UNCHANGED awsVars
    \/ /\ master = "ACTIVE"
       /\ obj.stackID = NoStack
       /\ CreateWorkerNodes(obj)
       /\ UNCHANGED <<master, authConfigured, secretPublished>>
    \/ /\ master = "ACTIVE"
       /\ obj.stackID # NoStack
       /\ SyncWorkers(obj)
       /\ UNCHANGED <<master, stacks, sent>>

\* Mutant: the finalizer is never removed (line 387 dropped).
ReleaseKeepFinalizer(obj) ==
    WriteBack([obj EXCEPT !.conds = SetCondition(@, ReconcileSuccess)])

\* The last step of _delete: remove the finalizer and write (lines 387-392).
Release(obj) ==
    WriteBack([obj EXCEPT !.finalizer = FALSE,
                          !.conds = SetCondition(@, ReconcileSuccess)])

\* client.Delete(Status.ClusterName) (line 372) is called even when no name
\* was recorded; an empty name is then refused outright when the client
\* rejects it (EmptyNameRejected), and otherwise answers NotFound, which
\* is ignored.
MasterDeleteErr(o) ==
    IF ~o.clusterName /\ EmptyNameRejected THEN {TRUE} ELSE Err

\* Mutant: only the cluster's deletion error keeps the finalizer.
DeleteMasterErrorOnly(obj) ==
    LET o == [obj EXCEPT !.conds = SetCondition(@, Deleting)] IN
    IF ReclaimPolicy = "Delete"
    THEN \E masterErr \in MasterDeleteErr(o), workerErr \in Err :
           /\ master' = IF ~masterErr /\ o.clusterName
                           /\ master \in {"CREATING", "ACTIVE", "FAILED"}
                        THEN "DELETING" ELSE master
           /\ stacks' = IF ~workerErr /\ o.stackID # NoStack
                           /\ stacks[o.stackID] \in {"CREATING", "COMPLETE", "FAILED"}
                        THEN [stacks EXCEPT ![o.stackID] = "DELETING"]
                        ELSE stacks
           /\ IF masterErr THEN Fail(o) ELSE Release(o)
    ELSE Release(o) /\ UNCHANGED <<master, stacks>>

\* _delete (lines 368-393): under ReclaimDelete, delete the cluster and the
\* worker stack, collect both errors, and keep the finalizer if any failed.
\* NotFound answers are no errors.
Delete(obj) ==
    LET o == [obj EXCEPT !.conds = SetCondition(@, Deleting)] IN
    IF ReclaimPolicy = "Delete"
    THEN \E masterErr \in MasterDeleteErr(o), workerErr \in Err :
           /\ master' = IF ~masterErr /\ o.clusterName
                           /\ master \in {"CREATING", "ACTIVE", "FAILED"}
                        THEN "DELETING" ELSE master
           /\ stacks' = IF ~workerErr /\ o.stackID # NoStack
                           /\ stacks[o.stackID] \in {"CREATING", "COMPLETE", "FAILED"}
                        THEN [stacks EXCEPT ![o.stackID] = "DELETING"]
                        ELSE stacks
           /\ IF masterErr \/ (workerErr /\ o.stackID # NoStack)
              THEN Fail(o) ELSE Release(o)
    ELSE Release(o) /\ UNCHANGED <<master, stacks>>

-----------------------------------------------------------------------------
(* Reconcile (lines 397-444), one action per path of a pass.  Every pass  *)
(* starts from r.Get (lines 400-406), read from the cache; a pass on an   *)
(* object the cache no longer has changes nothing.                         *)

\* Lines 409-412: connect fails (the Provider or its secret cannot be read).
ReconcileConnectFail ==
    /\ cache.exists
    /\ TransientErrors
    /\ Fail(cache)
    /\ UNCHANGED <<awsVars, targets>>

\* Mutant: AddFinalizer (line 430) moved before reference resolution.
ReconcileResolveFailWithFinalizer ==
    /\ cache.exists
    /\ NeedsResolution(cache)
    /\ \E built \in SUBSET ReadyUnresolved(cache.filled, targets) :
         LET obj == AddFinalizer([cache EXCEPT !.filled = AssignAll(@, built)]) IN
         \/ /\ TransientErrors
            /\ WriteBack([obj EXCEPT !.conds = SetCondition(@, ReconcileError)])
         \/ /\ built = ReadyUnresolved(cache.filled, targets)
            /\ IsBlocked(cache.filled, targets)
            /\ WriteBack([obj EXCEPT
                            !.conds = SetCondition(@, ReferenceResolutionBlocked)])
    /\ UNCHANGED <<awsVars, targets>>

\* Lines 414-423: ResolveReferences fails.  The Ready unresolved references
\* that were built keep their values; a blocked resolution records
\* ReferenceResolutionBlocked, a read error ReconcileError.
ReconcileResolveFail ==
    /\ cache.exists
    /\ NeedsResolution(cache)
    /\ \E built \in SUBSET ReadyUnresolved(cache.filled, targets) :
         LET obj == [cache EXCEPT !.filled = AssignAll(@, built)] IN
         \/ /\ TransientErrors
            /\ WriteBack([obj EXCEPT !.conds = SetCondition(@, ReconcileError)])
         \/ /\ built = ReadyUnresolved(cache.filled, targets)
            /\ IsBlocked(cache.filled, targets)
            /\ WriteBack([obj EXCEPT
                            !.conds = SetCondition(@, ReferenceResolutionBlocked)])
    /\ UNCHANGED <<awsVars, targets>>

\* Lines 433-435.
ReconcileDelete ==
    /\ cache.exists
    /\ CanProceed(cache)
    /\ Prepared(cache).deleting
    /\ Delete(Prepared(cache))
    /\ UNCHANGED <<authConfigured, secretPublished, sent, targets>>

\* Mutant: the deletion check (line 433) dropped from the create path.
ReconcileCreateNoDeletionCheck ==
    /\ cache.exists
    /\ CanProceed(cache)
    /\ ~Prepared(cache).clusterName
    /\ Create(Prepared(cache))
    /\ UNCHANGED <<stacks, authConfigured, secretPublished, targets>>

\* Lines 438-440.
ReconcileCreate ==
    /\ cache.exists
    /\ CanProceed(cache)
    /\ ~Prepared(cache).deleting
    /\ ~Prepared(cache).clusterName
    /\ Create(Prepared(cache))
    /\ UNCHANGED <<stacks, authConfigured, secretPublished, targets>>

\* Line 443.
ReconcileSync ==
    /\ cache.exists
    /\ CanProceed(cache)
    /\ ~Prepared(cache).deleting
    /\ Prepared(cache).clusterName
    /\ Sync(Prepared(cache))
    /\ UNCHANGED targets

Reconcile ==
    \/ ReconcileConnectFail
    \/ ReconcileResolveFail
    \/ ReconcileDelete
    \/ ReconcileCreate
    \/ ReconcileSync

-----------------------------------------------------------------------------
(* The environment.                                                        *)

\* AWS finishes creating or deleting the cluster.
MasterProgress ==
    /\ \/ master = "CREATING" /\ master' \in {"ACTIVE", "FAILED"}
       \/ master = "DELETING" /\ master' = "NONE"
    /\ UNCHANGED <<store, cache, stacks, authConfigured, secretPublished,
                   targets, sent>>

\* CloudFormation finishes creating or deleting a worker stack.
StackProgress ==
    /\ \E s \in StackIds :
         \/ stacks[s] = "CREATING"
            /\ \E st \in {"COMPLETE", "FAILED"} :
                 stacks' = [stacks EXCEPT ![s] = st]
         \/ stacks[s] = "DELETING"
            /\ stacks' = [stacks EXCEPT ![s] = "DELETED"]
    /\ UNCHANGED <<store, cache, master, authConfigured, secretPublished,
                   targets, sent>>

\* A referenced object is created, deleted, or changes readiness.
TargetChange ==
    /\ \E r \in Refs, t \in Target :
         /\ t # targets[r]
         /\ targets' = [targets EXCEPT ![r] = t]
    /\ UNCHANGED <<store, cache, awsVars>>

\* The user deletes the object: it gets a deletion timestamp, and is gone
\* at once when it has no finalizer.
UserDelete ==
    /\ store.exists
    /\ ~store.deleting
    /\ store.rv < MaxRV
    /\ store' = [store EXCEPT !.deleting = TRUE, !.rv = @ + 1,
                              !.exists = store.finalizer]
    /\ Inform
    /\ UNCHANGED <<awsVars, targets>>

\* The informer catches up with the API server.
CacheSync ==
    /\ cache # store
    /\ cache' = store
    /\ UNCHANGED <<store, awsVars, targets>>

Environment ==
    \/ MasterProgress
    \/ StackProgress
    \/ TargetChange
    \/ UserDelete
    \/ CacheSync

-----------------------------------------------------------------------------
(* A new EKSCluster: the user may have filled some referenced fields with *)
(* literals; nothing exists in AWS yet.                                    *)
Init ==
    /\ \E f \in [Refs -> BOOLEAN] :
         store = [exists |-> TRUE, rv |-> 1, deleting |-> FALSE,
                  finalizer |-> FALSE, filled |-> f, clusterName |-> FALSE,
                  stackID |-> NoStack, conds |-> NoConditions]
    /\ cache = store
    /\ master = "NONE"
    /\ stacks = [s \in StackIds |-> "NONE"]
    /\ authConfigured = FALSE
    /\ secretPublished = FALSE
    /\ targets \in [Refs -> Target]
    /\ sent = {}

Next == Reconcile \/ Environment

Spec == Init /\ [][Next]_vars

\* The controller is requeued after every pass (RequeueAfter, or the error
\* it returns) and AWS finishes what it started; users and referenced
\* objects owe nothing.
Fairness ==
    /\ WF_vars(Reconcile)
    /\ WF_vars(MasterProgress)
    /\ WF_vars(StackProgress)
    /\ WF_vars(CacheSync)

LiveSpec == Spec /\ Fairness

-----------------------------------------------------------------------------
(* Properties.                                                             *)

TypeOK ==
    /\ store \in Obj
    /\ cache \in Obj
    /\ master \in MasterStates
    /\ stacks \in [StackIds -> StackStates]
    /\ authConfigured \in BOOLEAN
    /\ secretPublished \in BOOLEAN
    /\ targets \in [Refs -> Target]
    /\ sent \subseteq [Refs -> BOOLEAN]

\* Reference resolution strictly precedes provisioning (spec 4.3, 5): no
\* Create or CreateWorkerNodes call ever goes to AWS with a referenced
\* field still empty, whatever the cache or the referenced objects did.
ProvisionedOnlyResolved ==
    \A f \in sent : \A r \in Refs : f[r]

\* Resolution runs before the deletion check in Reconcile (lines 414-435),
\* while the spec (4.3 step 3) asks that deletion never wait on references.
\* This is harmless because an object never carries the finalizer before
\* its references are resolved: without the finalizer the API server
\* deletes it outright.
FinalizerImpliesResolved ==
    store.finalizer => IsConditionTrue(store.conds["ReferencesResolved"])

\* _delete removes the finalizer only once the cluster and the worker stack
\* the object records are deleted or being deleted (spec 4.3, Delete-branch).
RecordedResourcesReleased ==
    (~store.exists /\ ReclaimPolicy = "Delete") =>
        /\ store.clusterName => master \in {"NONE", "DELETING"}
        /\ store.stackID # NoStack =>
               stacks[store.stackID] \in {"DELETING", "DELETED"}

\* The cluster is reported Available only after its worker stack completed,
\* the aws-auth map was pushed and the connection secret was published
\* (spec 4.3 steps (c)-(f), lines 319-345).
AvailableOnlyWhenProvisioned ==
    IsConditionTrue(store.conds["Ready"]) =>
        /\ authConfigured
        /\ secretPublished
        /\ store.stackID # NoStack
        /\ stacks[store.stackID] \in {"COMPLETE", "DELETING", "DELETED"}

\* Once persisted, Status.ClusterName and Status.CloudFormationStackID are
\* never cleared or replaced: a pass that read a version without them (a
\* stale cache) must not overwrite them (spec 4.3, "resumable from
\* persisted Status alone").
IdentifiersStable ==
    [][ /\ store.clusterName => store'.clusterName
        /\ store.stackID # NoStack => store'.stackID = store.stackID ]_store

\* Once the object is gone under ReclaimDelete, nothing this controller
\* created in AWS is left running (spec 4.3: no step repeated
\* destructively; "re-issuing step (c) must be a safe no-op").
NoLeakAfterDeletion ==
    (~store.exists /\ ReclaimPolicy = "Delete") =>
        /\ master \in {"NONE", "DELETING"}
        /\ \A s \in StackIds : stacks[s] \in {"NONE", "DELETING", "DELETED"}

\* The worker nodes of the cluster are created once: a pass that runs again
\* after CreateWorkerNodes succeeded resumes polling the recorded stack
\* instead of creating another one (spec 4.3 (c)).
SingleWorkerStack ==
    Cardinality({s \in StackIds : stacks[s] # "NONE"}) <= 1

\* A cluster AWS reports FAILED is eventually surfaced as a reconcile error
\* (spec 4.3 (b): "failing fatally on a provider-reported failed state").
FailedMasterSurfaced ==
    (master = "FAILED" /\ store.exists /\ ~store.deleting)
        ~> (store.conds["Synced"] = ReconcileError \/ ~store.exists
            \/ store.deleting)

\* Once the user deletes the object, _delete eventually removes the
\* finalizer and the object is gone (spec 4.3 Delete-branch): stale reads
\* and conflicting writes only delay it.  Reaching the version bound MaxRV
\* ends the model's history and with it the obligation.
DeletionCompletes ==
    store.deleting ~> (~store.exists \/ store.rv = MaxRV)

\* The referenced objects are Ready and the user keeps the object.
Settled ==
    /\ \A r \in Refs : GetStatus(targets[r]) = "Ready"
    /\ store.exists
    /\ ~store.deleting

\* Once the references are Ready for good and the object is kept, the
\* multi-stage provisioning of _create and _sync (spec 4.3 (a)-(f)) ends
\* with the cluster Available, unless AWS reports the cluster or the
\* recorded worker stack failed, or the version bound is reached.
ProvisioningCompletes ==
    <>[]Settled =>
        <>( \/ IsConditionTrue(store.conds["Ready"])
            \/ master = "FAILED"
            \/ store.stackID # NoStack /\ stacks[store.stackID] \in FailedCFState
            \/ store.rv = MaxRV )

-----------------------------------------------------------------------------
(* Refinement: the object the API server stores goes through the lifecycle *)
(* ManagedLifecycle allows.  A pass works on a cached version, yet what it  *)
(* persists must be a legal successor of the stored one.                    *)

Lifecycle == INSTANCE ManagedLifecycle WITH
    exists    <- store.exists,
    deleting  <- store.deleting,
    finalizer <- store.finalizer,
    resolved  <- IsConditionTrue(store.conds["ReferencesResolved"]),
    named     <- store.clusterName,
    stack     <- store.stackID,
    ready     <- IsConditionTrue(store.conds["Ready"])

\* Every version the reconciler persists (lines 139, 179, 197, 311, 326,
\* 345, 392, 422) is a step the lifecycle allows from the stored version,
\* even when the pass read a stale one: resolution is never undone,
\* identifiers are recorded once and never while deleting, Ready is never
\* written for an unidentified or deleting object, and the finalizer is
\* dropped only on deletion.
ImplementsLifecycle == Lifecycle!Spec
=============================================================================
