--------------------------- MODULE EKSResourceProofs ---------------------------
(***************************************************************************)
(* Proofs of the two invariants that relate the stored object to the AWS  *)
(* side: AvailableOnlyWhenProvisioned and RecordedResourcesReleased, for   *)
(* every value of the constants.                                           *)
(*                                                                         *)
(* Neither is inductive as it stands.  A pass computes on the cache, so    *)
(* the cache must satisfy what the store does (AvailOK, StackRecorded,     *)
(* NamesNeedFinalizer); and once the object is gone a pass may still run  *)
(* on the version before, which is harmless only because that version is  *)
(* being deleted or never recorded an identifier (GoneSafe).  Both rest on *)
(* the refinement invariant RInv of EKSLifecycleProofs: a write lands only *)
(* on the version the pass read.                                           *)
(***************************************************************************)
EXTENDS EKSLifecycleProofs

\* The stack states of a stack that has completed at some point.
Done == {"COMPLETE", "DELETING", "DELETED"}

\* Ready True on o is backed by the aws-auth map (a), the connection secret
\* (p) and a completed stack in st.
AvailAt(o, a, p, st) ==
    IsReady(o) => /\ a /\ p
                  /\ o.stackID # NoStack /\ st[o.stackID] \in Done

AvailOK(o) == AvailAt(o, authConfigured, secretPublished, stacks)

\* A recorded stack identifier names a stack CloudFormation handed out.
RecordedAt(o, st) == o.stackID # NoStack => st[o.stackID] # "NONE"

StackRecorded(o) == RecordedAt(o, stacks)

\* The identifiers o records are deleted or being deleted in m and st.
ReleasedAt(o, m, st) ==
    /\ o.clusterName => m \in {"NONE", "DELETING"}
    /\ o.stackID # NoStack => st[o.stackID] \in {"DELETING", "DELETED"}

\* An existing version that records an identifier carries the finalizer.
NamesNeedFinalizer(o) ==
    o.exists /\ (o.clusterName \/ o.stackID # NoStack) => o.finalizer

\* ExistsOK of the cached version.
CacheExistsOK == cache.exists /\ cache.deleting => cache.finalizer

\* Once the object is gone, a pass can still read the version before it:
\* that version is then being deleted, or the object never recorded an
\* identifier.
GoneSafe ==
    ~store.exists =>
        \/ ~cache.exists
        \/ cache.deleting
        \/ ~store.clusterName /\ store.stackID = NoStack

\* The strengthening, and the inductive invariant of both proofs.
AInv ==
    /\ AvailOK(store) /\ AvailOK(cache)
    /\ StackRecorded(store) /\ StackRecorded(cache)
    /\ NamesNeedFinalizer(store) /\ NamesNeedFinalizer(cache)
    /\ CacheExistsOK
    /\ GoneSafe
    /\ RecordedResourcesReleased

PInv == RInv /\ AInv

\* AWS only moves forward: the aws-auth map and the secret stay, a stack
\* handed out is never handed out again, a completed stack never runs
\* again, and a stack being deleted is never brought back.
Mono ==
    /\ authConfigured => authConfigured'
    /\ secretPublished => secretPublished'
    /\ \A s \in StackIds :
         /\ stacks[s] # "NONE" => stacks'[s] # "NONE"
         /\ stacks[s] \in Done => stacks'[s] \in Done
         /\ stacks[s] \in {"DELETING", "DELETED"} =>
                stacks'[s] \in {"DELETING", "DELETED"}

\* A cluster deleted or being deleted stays so.
MasterMono ==
    master \in {"NONE", "DELETING"} => master' \in {"NONE", "DELETING"}

-----------------------------------------------------------------------------
(* AWS moves forward.                                                      *)

\* The moves of a stack: CreateWorkerNodes (line 300), _delete (line 378)
\* and CloudFormation finishing.
LEMMA StackMoves ==
    ASSUME stacks \in [StackIds -> StackStates],
           authConfigured => authConfigured',
           secretPublished => secretPublished',
           \/ stacks' = stacks
           \/ \E s \in StackIds :
                \/ stacks[s] = "NONE" /\ stacks' = [stacks EXCEPT ![s] = "CREATING"]
                \/ stacks[s] \in {"CREATING", "COMPLETE", "FAILED"}
                   /\ stacks' = [stacks EXCEPT ![s] = "DELETING"]
                \/ stacks[s] = "CREATING"
                   /\ stacks' \in {[stacks EXCEPT ![s] = "COMPLETE"],
                                   [stacks EXCEPT ![s] = "FAILED"]}
                \/ stacks[s] = "DELETING"
                   /\ stacks' = [stacks EXCEPT ![s] = "DELETED"]
    PROVE  Mono
BY DEF Mono, Done, StackStates

\* _delete moves the recorded stack to DELETING, if anything.
LEMMA DeleteStacks ==
    ASSUME TypeOK, NEW obj \in Obj, Delete(obj)
    PROVE  \/ stacks' = stacks
           \/ \E s \in StackIds :
                stacks[s] \in {"CREATING", "COMPLETE", "FAILED"}
                /\ stacks' = [stacks EXCEPT ![s] = "DELETING"]
<1> DEFINE o == [obj EXCEPT !.conds = SetCondition(@, Deleting)]
<1>1. o.stackID = obj.stackID /\ obj.stackID \in StackIds \cup {NoStack}
  BY DEF Obj
<1>2. CASE ReclaimPolicy = "Delete"
  <2>1. PICK masterErr \in MasterDeleteErr(o), workerErr \in Err :
          stacks' = IF ~workerErr /\ o.stackID # NoStack
                       /\ stacks[o.stackID] \in {"CREATING", "COMPLETE", "FAILED"}
                    THEN [stacks EXCEPT ![o.stackID] = "DELETING"]
                    ELSE stacks
    BY <1>2 DEF Delete
  <2>2. QED
    BY <1>1, <2>1
<1>3. CASE ReclaimPolicy # "Delete"
  BY <1>3 DEF Delete
<1>4. QED
  BY <1>2, <1>3

\* Every step of the model keeps AWS moving forward.
LEMMA MonoStep ==
    ASSUME TypeOK, [Next]_vars
    PROVE  Mono
<1>1. CASE UNCHANGED <<authConfigured, secretPublished, stacks>>
  BY <1>1, StackMoves DEF TypeOK
<1>2. CASE ReconcileDelete
  BY <1>2, DeleteStacks, PreparedType, StackMoves
  DEF ReconcileDelete, TypeOK
<1>3. CASE ReconcileSync
  <2> DEFINE P == Prepared(cache)
  <2>1. CASE CreateWorkerNodes(P) /\ UNCHANGED <<authConfigured, secretPublished>>
    BY <2>1, StackMoves DEF CreateWorkerNodes, TypeOK
  <2>2. CASE master = "ACTIVE" /\ P.stackID # NoStack /\ SyncWorkers(P)
             /\ UNCHANGED stacks
    <3>1. authConfigured => authConfigured'
      BY <2>2 DEF SyncWorkers, AWSAuth
    <3>2. secretPublished => secretPublished'
      BY <2>2 DEF SyncWorkers, PublishSecret
    <3>3. QED
      BY <2>2, <3>1, <3>2, StackMoves DEF TypeOK
  <2>3. QED
    BY <1>3, <1>1, <2>1, <2>2 DEF ReconcileSync, Sync, awsVars
<1>4. CASE StackProgress
  BY <1>4, StackMoves DEF StackProgress, TypeOK
<1>5. QED
  BY <1>1, <1>2, <1>3, <1>4
  DEF Next, Reconcile, Environment, ReconcileConnectFail, ReconcileResolveFail,
      ReconcileCreate, MasterProgress, TargetChange, UserDelete, CacheSync,
      awsVars, vars, ReconcileDelete

-----------------------------------------------------------------------------
(* Writes.                                                                 *)

\* What a pass must establish of the object obj it writes: it was built
\* from the cached version, its Ready condition is backed by AWS after the
\* step, its stack was handed out, and it drops the finalizer only while
\* deleting and, under ReclaimDelete, once its identifiers are released.
WriteOK(obj) ==
    /\ obj \in Obj /\ obj.rv = cache.rv
    /\ obj.deleting = cache.deleting
    /\ AvailAt(obj, authConfigured', secretPublished', stacks')
    /\ RecordedAt(obj, stacks')
    /\ \/ obj.finalizer
       \/ ~obj.clusterName /\ obj.stackID = NoStack
       \/ obj.deleting /\ (ReclaimPolicy = "Delete" => ReleasedAt(obj, master', stacks'))

\* What AWS did in the step kept the identifiers of a gone object released.
GoneAWS ==
    ~store.exists /\ ReclaimPolicy = "Delete" => ReleasedAt(store, master', stacks')

\* A version's Ready and recorded stack stay backed as AWS moves forward.
LEMMA AvailMono ==
    ASSUME Mono, NEW o \in Obj, AvailOK(o), StackRecorded(o)
    PROVE  /\ AvailAt(o, authConfigured', secretPublished', stacks')
           /\ RecordedAt(o, stacks')
BY DEF Mono, AvailOK, AvailAt, StackRecorded, RecordedAt, Obj

\* A gone object's released identifiers stay released as AWS moves on,
\* unless a cluster is created.
LEMMA GoneAWSMono ==
    ASSUME TypeOK, RecordedResourcesReleased, Mono, MasterMono
    PROVE  GoneAWS
BY DEF GoneAWS, RecordedResourcesReleased, ReleasedAt, Mono, MasterMono,
   TypeOK, Obj

\* A step that leaves the stored object alone, and the cache as it was or
\* caught up.
LEMMA KeepStore ==
    ASSUME PInv, Mono, store' = store, cache' = cache \/ cache' = store,
           GoneAWS
    PROVE  AInv'
<1>1. store \in Obj /\ cache \in Obj
  BY DEF PInv, RInv, TypeOK
<1>2. /\ AvailAt(store, authConfigured', secretPublished', stacks')
      /\ RecordedAt(store, stacks')
      /\ AvailAt(cache, authConfigured', secretPublished', stacks')
      /\ RecordedAt(cache, stacks')
  BY <1>1, AvailMono DEF PInv, AInv
<1>3. CASE cache' = cache
  BY <1>2, <1>3 DEF PInv, AInv, AvailOK, StackRecorded, NamesNeedFinalizer,
     CacheExistsOK, GoneSafe, RecordedResourcesReleased, GoneAWS, ReleasedAt
<1>4. CASE cache' = store
  BY <1>2, <1>4 DEF PInv, AInv, RInv, ExistsOK, AvailOK, StackRecorded,
     NamesNeedFinalizer, CacheExistsOK, GoneSafe, RecordedResourcesReleased,
     GoneAWS, ReleasedAt
<1>5. QED
  BY <1>3, <1>4

\* A pass's write, successful or refused.
LEMMA WriteKeeps ==
    ASSUME PInv, Mono, GoneAWS, NEW obj, WriteOK(obj), WriteBack(obj)
    PROVE  AInv'
<1>1. CASE UNCHANGED <<store, cache>>
  BY <1>1, KeepStore
<1>2. CASE /\ obj.rv = store.rv
           /\ store.exists
           /\ store' = [obj EXCEPT !.rv = store.rv + 1,
                                   !.exists = obj.finalizer \/ ~obj.deleting]
           /\ Inform
  <2>1. cache = store /\ store \in Obj
    BY <1>2 DEF WriteOK, PInv, RInv, CacheCoherent, TypeOK
  <2>2. /\ store'.deleting = obj.deleting
        /\ store'.finalizer = obj.finalizer
        /\ store'.conds = obj.conds
        /\ store'.clusterName = obj.clusterName
        /\ store'.stackID = obj.stackID
        /\ store'.exists = (obj.finalizer \/ ~obj.deleting)
        /\ cache' = store
    BY <1>2 DEF WriteOK, Obj, Inform
  <2>3. /\ AvailAt(store, authConfigured', secretPublished', stacks')
        /\ RecordedAt(store, stacks')
    BY <2>1, AvailMono DEF PInv, AInv
  <2>4. AvailOK(store)' /\ StackRecorded(store)'
    BY <2>2 DEF WriteOK, AvailOK, AvailAt, StackRecorded, RecordedAt, IsReady
  <2>5. AvailOK(cache)' /\ StackRecorded(cache)'
    BY <2>2, <2>3 DEF AvailOK, StackRecorded
  <2>6. NamesNeedFinalizer(store)' /\ NamesNeedFinalizer(cache)' /\ CacheExistsOK'
    BY <2>1, <2>2 DEF WriteOK, NamesNeedFinalizer, CacheExistsOK, PInv, AInv,
       RInv, ExistsOK
  <2>7. GoneSafe'
    BY <2>1, <2>2 DEF WriteOK, GoneSafe
  <2>8. RecordedResourcesReleased'
    BY <2>2 DEF WriteOK, RecordedResourcesReleased, ReleasedAt
  <2>9. QED
    BY <2>4, <2>5, <2>6, <2>7, <2>8 DEF AInv
<1>3. QED
  BY <1>1, <1>2 DEF WriteBack

\* A failed pass records ReconcileError, which leaves Ready alone.
LEMMA FailKeeps ==
    ASSUME PInv, Mono, GoneAWS, NEW obj, WriteOK(obj), Fail(obj)
    PROVE  AInv'
<1> DEFINE m == [obj EXCEPT !.conds = SetCondition(@, ReconcileError)]
<1>1. /\ m \in Obj /\ m.rv = obj.rv /\ m.deleting = obj.deleting
      /\ m.finalizer = obj.finalizer /\ m.clusterName = obj.clusterName
      /\ m.stackID = obj.stackID /\ IsReady(m) = IsReady(obj)
  <2>1. m \in Obj
    BY SetConditionObj, ConstructorsAreConditions DEF WriteOK
  <2>2. m.conds["Ready"] = obj.conds["Ready"]
    <3>1. ReconcileError.type = "Synced"
      BY DEF ReconcileError
    <3>2. QED
      BY <3>1, SetConditionOther, ConstructorsAreConditions
      DEF WriteOK, Obj, CondTypes
  <2>3. QED
    BY <2>1, <2>2 DEF WriteOK, Obj, IsReady
<1>2. WriteOK(m)
  BY <1>1 DEF WriteOK, AvailAt, RecordedAt, ReleasedAt
<1>3. QED
  BY <1>2, WriteKeeps DEF Fail

\* Recording a condition other than Ready True keeps what a write needs.
LEMMA ConditionWriteOK ==
    ASSUME NEW obj, WriteOK(obj), NEW c \in Condition,
           c.type # "Ready" \/ c.status # "True"
    PROVE  WriteOK([obj EXCEPT !.conds = SetCondition(@, c)])
<1> DEFINE m == [obj EXCEPT !.conds = SetCondition(@, c)]
<1>1. m \in Obj
  BY SetConditionObj DEF WriteOK
<1>2. /\ m.rv = obj.rv /\ m.deleting = obj.deleting
      /\ m.finalizer = obj.finalizer /\ m.clusterName = obj.clusterName
      /\ m.stackID = obj.stackID
  BY DEF WriteOK, Obj
<1>3. IsReady(m) => IsReady(obj)
  <2>1. CASE c.type = "Ready"
    <3>1. m.conds["Ready"] = c
      BY <2>1, SetConditionAt DEF WriteOK, Obj
    <3>2. QED
      BY <2>1, <3>1 DEF IsReady, IsConditionTrue
  <2>2. CASE c.type # "Ready"
    <3>1. m.conds["Ready"] = obj.conds["Ready"]
      BY <2>2, SetConditionOther DEF WriteOK, Obj, CondTypes
    <3>2. QED
      BY <3>1 DEF IsReady
  <2>3. QED
    BY <2>1, <2>2
<1>4. QED
  BY <1>1, <1>2, <1>3 DEF WriteOK, AvailAt, RecordedAt, ReleasedAt

\* An object a pass builds past line 430 carries the finalizer and the
\* cached Ready and stack, so writing it as is keeps the invariant.
LEMMA PastWriteOK ==
    ASSUME PInv, Mono, NEW obj, Past(obj)
    PROVE  WriteOK(obj)
<1>1. /\ AvailAt(cache, authConfigured', secretPublished', stacks')
      /\ RecordedAt(cache, stacks')
  BY AvailMono DEF PInv, AInv, RInv, TypeOK
<1>2. QED
  BY <1>1 DEF Past, WriteOK, AvailAt, RecordedAt

\* The cached version, written back as it is (lines 408-423): it carries
\* the finalizer, or records no identifier.
LEMMA CacheWriteOK ==
    ASSUME PInv, Mono, cache.exists
    PROVE  WriteOK(cache)
<1>1. /\ AvailAt(cache, authConfigured', secretPublished', stacks')
      /\ RecordedAt(cache, stacks')
  BY AvailMono DEF PInv, AInv, RInv, TypeOK
<1>2. cache.finalizer \/ (~cache.clusterName /\ cache.stackID = NoStack)
  <2>1. CASE cache.deleting
    BY <2>1 DEF PInv, AInv, CacheExistsOK
  <2>2. CASE ~cache.finalizer
    BY <2>2 DEF PInv, AInv, NamesNeedFinalizer
  <2>3. QED
    BY <2>1, <2>2
<1>3. QED
  BY <1>1, <1>2 DEF WriteOK, PInv, RInv, TypeOK

-----------------------------------------------------------------------------
(* The paths of a pass.                                                    *)

\* Lines 408-412: the connect error recorded on the cached version.
LEMMA ConnectFailKeeps ==
    ASSUME PInv, Mono, ReconcileConnectFail
    PROVE  AInv'
<1>1. GoneAWS
  BY GoneAWSMono DEF ReconcileConnectFail, awsVars, MasterMono, PInv, AInv,
     RInv
<1>2. QED
  BY <1>1, CacheWriteOK, FailKeeps DEF ReconcileConnectFail

\* Lines 414-423: what a failed resolution assigns is no identifier.
LEMMA ResolveFailKeeps ==
    ASSUME PInv, Mono, ReconcileResolveFail
    PROVE  AInv'
<1>1. GoneAWS
  BY GoneAWSMono DEF ReconcileResolveFail, awsVars, MasterMono, PInv, AInv,
     RInv
<1>2. PICK built \in SUBSET ReadyUnresolved(cache.filled, targets) :
         LET obj == [cache EXCEPT !.filled = AssignAll(@, built)] IN
         \/ WriteBack([obj EXCEPT !.conds = SetCondition(@, ReconcileError)])
         \/ WriteBack([obj EXCEPT
                         !.conds = SetCondition(@, ReferenceResolutionBlocked)])
  BY DEF ReconcileResolveFail
<1> DEFINE obj == [cache EXCEPT !.filled = AssignAll(@, built)]
<1>3. WriteOK(obj)
  <2>1. WriteOK(cache)
    BY CacheWriteOK DEF ReconcileResolveFail
  <2>2. obj \in Obj
    BY AssignAllType DEF PInv, RInv, TypeOK, Obj
  <2>3. QED
    BY <2>1, <2>2 DEF WriteOK, AvailAt, RecordedAt, ReleasedAt, IsReady
<1>4. /\ WriteOK([obj EXCEPT !.conds = SetCondition(@, ReconcileError)])
      /\ WriteOK([obj EXCEPT !.conds = SetCondition(@, ReferenceResolutionBlocked)])
  BY <1>3, ConditionWriteOK, ConstructorsAreConditions
  DEF ReconcileError, ReferenceResolutionBlocked
<1>5. QED
  BY <1>1, <1>2, <1>4, WriteKeeps

\* Line 387: the finalizer is dropped from an object being deleted, whose
\* identifiers _delete released under ReclaimDelete.
LEMMA ReleaseWriteOK ==
    ASSUME NEW o, WriteOK(o), o.deleting, ~IsReady(o),
           ReclaimPolicy = "Delete" => ReleasedAt(o, master', stacks')
    PROVE  WriteOK([o EXCEPT !.finalizer = FALSE,
                             !.conds = SetCondition(@, ReconcileSuccess)])
<1> DEFINE r == [o EXCEPT !.finalizer = FALSE,
                          !.conds = SetCondition(@, ReconcileSuccess)]
<1>1. r \in Obj
  <2>1. SetCondition(o.conds, ReconcileSuccess) \in ConditionSets
    BY SetConditionType, ConstructorsAreConditions DEF WriteOK, Obj
  <2>2. QED
    BY <2>1 DEF WriteOK, Obj
<1>2. /\ r.rv = o.rv /\ r.deleting = o.deleting /\ ~r.finalizer
      /\ r.clusterName = o.clusterName /\ r.stackID = o.stackID
  BY DEF WriteOK, Obj
<1>3. ~IsReady(r)
  <2>1. r.conds["Ready"] = o.conds["Ready"]
    <3>1. ReconcileSuccess.type = "Synced"
      BY DEF ReconcileSuccess
    <3>2. QED
      BY <3>1, SetConditionOther, ConstructorsAreConditions
      DEF WriteOK, Obj, CondTypes
  <2>2. QED
    BY <2>1 DEF IsReady
<1>4. QED
  BY <1>1, <1>2, <1>3 DEF WriteOK, AvailAt, RecordedAt, ReleasedAt

\* _delete (lines 367-393): the cluster and the recorded stack are deleted
\* before the finalizer is dropped, and a failure of either keeps it.
LEMMA DeleteKeeps ==
    ASSUME PInv, Mono, NEW obj, Past(obj), cache.deleting, Delete(obj)
    PROVE  AInv'
<1> DEFINE o == [obj EXCEPT !.conds = SetCondition(@, Deleting)]
<1>1. WriteOK(o) /\ o.deleting /\ ~IsReady(o)
  <2>1. WriteOK(o)
    BY PastWriteOK, ConditionWriteOK, ConstructorsAreConditions DEF Deleting
  <2>2. o.conds["Ready"] = Deleting
    BY SetConditionAt, ConstructorsAreConditions DEF Past, Obj, Deleting
  <2>3. o.deleting
    BY DEF Past, Obj
  <2>4. ~IsReady(o)
    BY <2>2 DEF IsReady, IsConditionTrue, Deleting
  <2>5. QED
    BY <2>1, <2>3, <2>4
<1>2. /\ o.clusterName = cache.clusterName /\ o.stackID = cache.stackID
      /\ o.stackID \in StackIds \cup {NoStack}
  BY DEF Past, Obj
<1>3. CASE ReclaimPolicy = "Delete"
  <2>1. PICK masterErr \in MasterDeleteErr(o), workerErr \in Err :
           /\ master' = IF ~masterErr /\ o.clusterName
                           /\ master \in {"CREATING", "ACTIVE", "FAILED"}
                        THEN "DELETING" ELSE master
           /\ stacks' = IF ~workerErr /\ o.stackID # NoStack
                           /\ stacks[o.stackID] \in {"CREATING", "COMPLETE", "FAILED"}
                        THEN [stacks EXCEPT ![o.stackID] = "DELETING"]
                        ELSE stacks
           /\ IF masterErr \/ (workerErr /\ o.stackID # NoStack)
              THEN Fail(o) ELSE Release(o)
    BY <1>3 DEF Delete
  <2>2. GoneAWS
    <3>1. MasterMono
      BY <2>1 DEF MasterMono
    <3>2. QED
      BY <3>1, GoneAWSMono DEF PInv, AInv, RInv
  <2>3. CASE masterErr \/ (workerErr /\ o.stackID # NoStack)
    BY <1>1, <2>1, <2>2, <2>3, FailKeeps
  <2>4. CASE ~masterErr /\ ~(workerErr /\ o.stackID # NoStack)
    <3>1. ReleasedAt(o, master', stacks')
      <4>1. o.clusterName => master' \in {"NONE", "DELETING"}
        BY <2>1, <2>4 DEF PInv, RInv, TypeOK, MasterStates
      <4>2. o.stackID # NoStack => stacks'[o.stackID] \in {"DELETING", "DELETED"}
        <5>1. o.stackID # NoStack => stacks[o.stackID] # "NONE"
          BY <1>2 DEF PInv, AInv, StackRecorded, RecordedAt
        <5>2. QED
          BY <1>2, <2>1, <2>4, <5>1 DEF PInv, RInv, TypeOK, StackStates
      <4>3. QED
        BY <4>1, <4>2 DEF ReleasedAt
    <3>2. QED
      BY <1>1, <2>1, <2>2, <2>4, <3>1, ReleaseWriteOK, WriteKeeps DEF Release
  <2>5. QED
    BY <2>3, <2>4
<1>4. CASE ReclaimPolicy # "Delete"
  <2>1. Release(o) /\ UNCHANGED <<master, stacks>>
    BY <1>4 DEF Delete
  <2>2. GoneAWS
    BY <2>1, GoneAWSMono DEF PInv, AInv, RInv, MasterMono
  <2>3. QED
    BY <1>1, <1>4, <2>1, <2>2, ReleaseWriteOK, WriteKeeps DEF Release
<1>5. QED
  BY <1>3, <1>4

\* Line 172 onwards: the cluster's name recorded with ReconcileSuccess.
LEMMA NameWriteOK ==
    ASSUME NEW o, WriteOK(o), o.finalizer
    PROVE  WriteOK([o EXCEPT !.clusterName = TRUE,
                             !.conds = SetCondition(@, ReconcileSuccess)])
<1> DEFINE c == [o EXCEPT !.clusterName = TRUE,
                          !.conds = SetCondition(@, ReconcileSuccess)]
<1>1. c \in Obj
  <2>1. SetCondition(o.conds, ReconcileSuccess) \in ConditionSets
    BY SetConditionType, ConstructorsAreConditions DEF WriteOK, Obj
  <2>2. QED
    BY <2>1 DEF WriteOK, Obj
<1>2. /\ c.rv = o.rv /\ c.deleting = o.deleting /\ c.finalizer
      /\ c.stackID = o.stackID
  BY DEF WriteOK, Obj
<1>3. IsReady(c) = IsReady(o)
  <2>1. c.conds["Ready"] = o.conds["Ready"]
    <3>1. ReconcileSuccess.type = "Synced"
      BY DEF ReconcileSuccess
    <3>2. QED
      BY <3>1, SetConditionOther, ConstructorsAreConditions
      DEF WriteOK, Obj, CondTypes
  <2>2. QED
    BY <2>1 DEF IsReady
<1>4. QED
  BY <1>1, <1>2, <1>3 DEF WriteOK, AvailAt, RecordedAt

\* _create (lines 166-198) on the cached version.  Once the object is gone
\* a stale pass may still create a cluster (the leak run), but only for an
\* object that never recorded one: GoneSafe.
LEMMA CreateKeeps ==
    ASSUME PInv, Mono, NEW obj, Past(obj), cache.exists, ~cache.deleting,
           Create(obj)
    PROVE  AInv'
<1> DEFINE o == [obj EXCEPT !.conds = SetCondition(@, Creating)]
           created == [o EXCEPT !.clusterName = TRUE,
                                !.conds = SetCondition(@, ReconcileSuccess)]
<1>1. GoneAWS
  BY DEF GoneAWS, PInv, AInv, GoneSafe, ReleasedAt
<1>2. WriteOK(o) /\ o.finalizer
  <2>1. WriteOK(o)
    BY PastWriteOK, ConditionWriteOK, ConstructorsAreConditions DEF Creating
  <2>2. o.finalizer
    BY DEF Past, Obj
  <2>3. QED
    BY <2>1, <2>2
<1>3. WriteOK(created)
  BY <1>2, NameWriteOK
<1>4. CASE CrashRestart
  BY <1>1, <1>4, KeepStore DEF CrashRestart
<1>5. Fail(o) \/ WriteBack(created) \/ CrashRestart
  BY DEF Create
<1>6. QED
  BY <1>1, <1>2, <1>3, <1>4, <1>5, FailKeeps, WriteKeeps

\* CreateWorkerNodes (lines 295-311): the identifier recorded is that of
\* the stack just handed out, on an object not Ready.
LEMMA CreateWorkerNodesKeeps ==
    ASSUME PInv, Mono, GoneAWS, NEW obj, Past(obj), obj.stackID = NoStack,
           CreateWorkerNodes(obj)
    PROVE  AInv'
<1>1. CASE Fail(obj)
  BY <1>1, PastWriteOK, FailKeeps
<1>2. CASE \E s \in StackIds :
             /\ stacks[s] = "NONE"
             /\ stacks' = [stacks EXCEPT ![s] = "CREATING"]
             /\ WriteBack([obj EXCEPT !.stackID = s,
                                      !.conds = SetCondition(@, ReconcileSuccess)])
  <2>1. PICK s \in StackIds :
             /\ stacks[s] = "NONE"
             /\ stacks' = [stacks EXCEPT ![s] = "CREATING"]
             /\ WriteBack([obj EXCEPT !.stackID = s,
                                      !.conds = SetCondition(@, ReconcileSuccess)])
    BY <1>2
  <2> DEFINE w == [obj EXCEPT !.stackID = s,
                              !.conds = SetCondition(@, ReconcileSuccess)]
  <2>2. w \in Obj
    <3>1. SetCondition(obj.conds, ReconcileSuccess) \in ConditionSets
      BY SetConditionType, ConstructorsAreConditions DEF Past, Obj
    <3>2. QED
      BY <3>1 DEF Past, Obj
  <2>3. /\ w.rv = cache.rv /\ w.deleting = cache.deleting /\ w.finalizer
        /\ w.stackID = s
    BY DEF Past, Obj
  <2>4. ~IsReady(w)
    <3>1. w.conds["Ready"] = obj.conds["Ready"]
      <4>1. ReconcileSuccess.type = "Synced"
        BY DEF ReconcileSuccess
      <4>2. QED
        BY <4>1, SetConditionOther, ConstructorsAreConditions
        DEF Past, Obj, CondTypes
    <3>2. ~IsReady(cache)
      BY DEF Past, PInv, AInv, AvailOK, AvailAt
    <3>3. QED
      BY <3>1, <3>2 DEF Past, IsReady
  <2>5. stacks'[s] = "CREATING"
    BY <2>1 DEF PInv, RInv, TypeOK
  <2>6. WriteOK(w)
    BY <2>2, <2>3, <2>4, <2>5 DEF WriteOK, AvailAt, RecordedAt
  <2>7. QED
    BY <2>1, <2>6, WriteKeeps
<1>3. QED
  BY <1>1, <1>2 DEF CreateWorkerNodes

\* SyncWorkers (lines 314-345): Available is written only in the step
\* that pushed the aws-auth map and published the secret, on a complete
\* stack.
LEMMA SyncWorkersKeeps ==
    ASSUME PInv, Mono, GoneAWS, NEW obj, Past(obj), obj.stackID # NoStack,
           SyncWorkers(obj), UNCHANGED stacks
    PROVE  AInv'
<1> DEFINE ok == [obj EXCEPT !.conds = SetCondition(@, ReconcileSuccess)]
           okA == [ok EXCEPT !.conds = SetCondition(@, Available)]
<1>1. \/ Fail(obj)
      \/ WriteBack(ok)
      \/ /\ authConfigured' /\ secretPublished'
         /\ stacks[obj.stackID] \in CompletedCFState
         /\ WriteBack(okA)
  BY DEF SyncWorkers, AWSAuth, PublishSecret
<1>2. WriteOK(obj)
  BY PastWriteOK
<1>3. WriteOK(ok)
  BY <1>2, ConditionWriteOK, ConstructorsAreConditions DEF ReconcileSuccess
<1>4. ASSUME authConfigured', secretPublished',
             stacks[obj.stackID] \in CompletedCFState
      PROVE  WriteOK(okA)
  <2>1. okA \in Obj
    BY <1>3, SetConditionObj, ConstructorsAreConditions DEF WriteOK
  <2>2. /\ okA.rv = cache.rv /\ okA.deleting = cache.deleting
        /\ okA.finalizer /\ okA.stackID = obj.stackID
    BY <1>3 DEF WriteOK, Obj, Past
  <2>3. stacks'[obj.stackID] \in Done
    BY <1>4 DEF CompletedCFState, Done
  <2>4. QED
    BY <1>4, <2>1, <2>2, <2>3 DEF WriteOK, AvailAt, RecordedAt, Done
<1>5. QED
  BY <1>1, <1>2, <1>3, <1>4, FailKeeps, WriteKeeps

\* _sync (lines 286-346) never touches the cluster.
LEMMA SyncKeeps ==
    ASSUME PInv, Mono, NEW obj, Past(obj), Sync(obj)
    PROVE  AInv'
<1>1. GoneAWS
  BY GoneAWSMono DEF Sync, awsVars, MasterMono, PInv, AInv, RInv
<1>2. CASE Fail(obj)
  BY <1>1, <1>2, PastWriteOK, FailKeeps
<1>3. QED
  BY <1>1, <1>2, CreateWorkerNodesKeeps, SyncWorkersKeeps DEF Sync

-----------------------------------------------------------------------------
(* Reconcile, the environment, and the invariants.                         *)

LEMMA ReconcileKeeps ==
    ASSUME PInv, Mono, Reconcile
    PROVE  AInv'
<1> DEFINE P == Prepared(cache)
<1>1. CASE ReconcileConnectFail
  BY <1>1, ConnectFailKeeps
<1>2. CASE ReconcileResolveFail
  BY <1>2, ResolveFailKeeps
<1>3. ASSUME CanProceed(cache) PROVE Past(P)
  BY <1>3, PreparedProps DEF PInv, RInv, Past
<1>4. CASE ReconcileDelete
  BY <1>3, <1>4, DeleteKeeps DEF ReconcileDelete, Past
<1>5. CASE ReconcileCreate
  BY <1>3, <1>5, CreateKeeps DEF ReconcileCreate, Past
<1>6. CASE ReconcileSync
  BY <1>3, <1>6, SyncKeeps DEF ReconcileSync
<1>7. QED
  BY <1>1, <1>2, <1>4, <1>5, <1>6 DEF Reconcile

\* AWS finishing its work, referenced objects and the informer keep the
\* invariant; so does the user's deletion, which removes at once only an
\* object without the finalizer, and so without identifiers.
LEMMA EnvironmentKeeps ==
    ASSUME PInv, Mono, Environment
    PROVE  AInv'
<1>1. CASE MasterProgress
  BY <1>1, GoneAWSMono, KeepStore DEF MasterProgress, MasterMono, PInv, AInv,
     RInv
<1>2. CASE StackProgress \/ TargetChange \/ CacheSync
  <2>1. UNCHANGED <<store, master>> /\ (cache' = cache \/ cache' = store)
    BY <1>2 DEF StackProgress, TargetChange, CacheSync, awsVars
  <2>2. QED
    BY <2>1, GoneAWSMono, KeepStore DEF MasterMono, PInv, AInv, RInv
<1>3. CASE UserDelete
  <2>1. /\ store.exists /\ store \in Obj
        /\ store'.deleting /\ store'.exists = store.finalizer
        /\ store'.finalizer = store.finalizer /\ store'.conds = store.conds
        /\ store'.clusterName = store.clusterName
        /\ store'.stackID = store.stackID
        /\ cache' = store
        /\ UNCHANGED awsVars
    BY <1>3 DEF UserDelete, Inform, PInv, RInv, TypeOK, Obj
  <2>2. AvailOK(store)' /\ AvailOK(cache)' /\ StackRecorded(store)'
        /\ StackRecorded(cache)'
    BY <2>1 DEF awsVars, PInv, AInv, AvailOK, AvailAt, StackRecorded,
       RecordedAt, IsReady
  <2>3. NamesNeedFinalizer(store)' /\ NamesNeedFinalizer(cache)'
        /\ CacheExistsOK'
    BY <2>1 DEF PInv, AInv, RInv, ExistsOK, NamesNeedFinalizer, CacheExistsOK
  <2>4. GoneSafe' /\ RecordedResourcesReleased'
    BY <2>1 DEF PInv, AInv, NamesNeedFinalizer, GoneSafe,
       RecordedResourcesReleased
  <2>5. QED
    BY <2>2, <2>3, <2>4 DEF AInv
<1>4. QED
  BY <1>1, <1>2, <1>3 DEF Environment

\* A new object is not Ready, records nothing and exists.
LEMMA PInvInit ==
    Init => PInv
<1> SUFFICES ASSUME Init PROVE PInv
  OBVIOUS
<1>1. RInv
  BY RInvInit
<1>2. /\ ~IsReady(store) /\ store.exists /\ ~store.deleting
      /\ ~store.clusterName /\ store.stackID = NoStack /\ cache = store
  <2>1. PICK f \in [Refs -> BOOLEAN] :
          store = [exists |-> TRUE, rv |-> 1, deleting |-> FALSE,
                   finalizer |-> FALSE, filled |-> f, clusterName |-> FALSE,
                   stackID |-> NoStack, conds |-> NoConditions]
    BY DEF Init
  <2>2. NoConditions["Ready"].status = "Unknown"
    BY DEF NoConditions, NoCondition, CondTypes
  <2>3. QED
    BY <2>1, <2>2 DEF Init, IsReady, IsConditionTrue
<1>3. AInv
  BY <1>2 DEF AInv, AvailOK, AvailAt, StackRecorded, RecordedAt,
     NamesNeedFinalizer, CacheExistsOK, GoneSafe, RecordedResourcesReleased
<1>4. QED
  BY <1>1, <1>3 DEF PInv

\* Every step keeps the invariant.
LEMMA PInvStep ==
    PInv /\ [Next]_vars => PInv'
<1> SUFFICES ASSUME PInv, [Next]_vars PROVE PInv'
  OBVIOUS
<1>1. RInv'
  BY RefinementStep DEF PInv
<1>2. Mono
  BY MonoStep DEF PInv, RInv
<1>3. AInv'
  <2>1. CASE Reconcile
    BY <1>2, <2>1, ReconcileKeeps
  <2>2. CASE Environment
    BY <1>2, <2>2, EnvironmentKeeps
  <2>3. CASE UNCHANGED vars
    BY <1>2, <2>3, GoneAWSMono, KeepStore DEF vars, MasterMono, PInv, AInv,
       RInv
  <2>4. QED
    BY <2>1, <2>2, <2>3 DEF Next
<1>4. QED
  BY <1>1, <1>3 DEF PInv

\* _delete drops the finalizer only after client.Delete of the cluster and
\* DeleteStack of the recorded worker stack succeeded (lines 372-387), and
\* a stale pass after the object is gone cannot recreate what it recorded:
\* under ReclaimDelete a gone object's recorded cluster and stack are
\* deleted or being deleted, for every set of stack identifiers and
\* references, any version bound, with or without transient errors and
\* whatever the EKS client does with an empty name or an existing cluster.
THEOREM RecordedResourcesReleasedCorrect == Spec => []RecordedResourcesReleased
<1>1. PInv => RecordedResourcesReleased
  BY DEF PInv, AInv
<1>2. QED
  BY <1>1, PInvInit, PInvStep, PTL DEF Spec

\* SyncWorkers writes Available only in the pass that saw the worker stack
\* complete, pushed the aws-auth map and published the secret (lines
\* 319-345), and no pass working on a stale version writes Ready True for
\* a stack that was never completed.
THEOREM AvailableOnlyWhenProvisionedCorrect ==
    Spec => []AvailableOnlyWhenProvisioned
<1>1. PInv => AvailableOnlyWhenProvisioned
  BY DEF PInv, AInv, AvailOK, AvailAt, AvailableOnlyWhenProvisioned, IsReady,
     Done
<1>2. QED
  BY <1>1, PInvInit, PInvStep, PTL DEF Spec
=============================================================================
