-------------------------- MODULE EKSLifecycleProofs --------------------------
(***************************************************************************)
(* Proof that EKSReconciler implements ManagedLifecycle under the mapping *)
(* Lifecycle of EKSReconciler, for every value of the constants.           *)
(*                                                                         *)
(* A pass computes on the cached version, and its write succeeds only     *)
(* when that version is still the stored one (CacheCoherent): so every     *)
(* successful write is a successor of the stored object built by the      *)
(* pass, and it suffices to show that each path builds either a legal     *)
(* successor of the cached object (LegalObj) or one with the same         *)
(* lifecycle (SameAbs, an abstract stutter).                               *)
(***************************************************************************)
EXTENDS EKSReconcilerProofs

\* The conditions the lifecycle reads.
Resolved(o) == IsConditionTrue(o.conds["ReferencesResolved"])
IsReady(o) == IsConditionTrue(o.conds["Ready"])

\* A version the cache holds with the stored resourceVersion is the stored
\* object: every write bumps the version and the cache only copies store.
CacheCoherent == cache.rv = store.rv => cache = store

\* A stored object being deleted exists only because of its finalizer.
ExistsOK == store.exists /\ store.deleting => store.finalizer

\* Ready is True only on an object with both identifiers recorded.
ReadyOK(o) == IsReady(o) => o.clusterName /\ o.stackID # NoStack

\* The inductive invariant of the refinement.
RInv ==
    /\ TypeOK
    /\ CacheCoherent
    /\ ExistsOK
    /\ ReadyOK(store)
    /\ ReadyOK(cache)

\* n has the lifecycle of o.
SameAbs(o, n) ==
    /\ n.deleting = o.deleting
    /\ n.finalizer = o.finalizer
    /\ Resolved(n) = Resolved(o)
    /\ n.clusterName = o.clusterName
    /\ n.stackID = o.stackID
    /\ IsReady(n) = IsReady(o)

\* Writing n over o is a Persist step of the lifecycle.
LegalObj(o, n) ==
    /\ n.deleting = o.deleting
    /\ Resolved(o) => Resolved(n)
    /\ n.finalizer => Resolved(n)
    /\ o.clusterName => n.clusterName
    /\ ~o.clusterName /\ n.clusterName => Resolved(n) /\ ~o.deleting
    /\ o.stackID # NoStack => n.stackID = o.stackID
    /\ o.stackID = NoStack /\ n.stackID # NoStack =>
           o.clusterName /\ Resolved(n) /\ ~o.deleting
    /\ ReadyOK(n)
    /\ o.deleting => ~IsReady(n)
    /\ o.finalizer /\ ~n.finalizer => o.deleting

\* The lifecycle variables, as the mapping gives them.
LV == Lifecycle!lvars

-----------------------------------------------------------------------------
(* A write of an object built from the cached version.                     *)

LEMMA WriteRefines ==
    ASSUME RInv, NEW obj \in Obj, obj.rv = cache.rv,
           LegalObj(cache, obj) \/ (SameAbs(cache, obj) /\ ReadyOK(obj)),
           WriteBack(obj)
    PROVE  /\ CacheCoherent' /\ ExistsOK' /\ ReadyOK(store') /\ ReadyOK(cache')
           /\ [Lifecycle!Next]_LV
<1>1. CASE UNCHANGED <<store, cache>>
  BY <1>1 DEF RInv, CacheCoherent, ExistsOK, ReadyOK, IsReady, LV, Lifecycle!lvars
<1>2. CASE /\ obj.rv = store.rv
           /\ store.exists
           /\ store.rv < MaxRV
           /\ store' = [obj EXCEPT !.rv = store.rv + 1,
                                   !.exists = obj.finalizer \/ ~obj.deleting]
           /\ Inform
  <2>1. cache = store
    BY <1>2 DEF RInv, CacheCoherent
  <2>2. /\ store'.deleting = obj.deleting
        /\ store'.finalizer = obj.finalizer
        /\ store'.conds = obj.conds
        /\ store'.clusterName = obj.clusterName
        /\ store'.stackID = obj.stackID
        /\ store'.exists = (obj.finalizer \/ ~obj.deleting)
        /\ store'.rv = store.rv + 1
    BY <1>2 DEF Obj
  <2>3. cache' = store
    BY <1>2 DEF Inform
  <2>4. CacheCoherent'
    <3>1. store.rv \in Nat
      BY DEF RInv, TypeOK, Obj
    <3>2. QED
      BY <2>2, <2>3, <3>1 DEF CacheCoherent
  <2>5. ExistsOK'
    BY <2>2 DEF ExistsOK
  <2>6. ReadyOK(store') /\ ReadyOK(cache')
    BY <2>2, <2>3 DEF LegalObj, RInv, ReadyOK, IsReady
  <2>7. CASE SameAbs(cache, obj) /\ ReadyOK(obj)
    <3>1. store.finalizer \/ ~store.deleting
      BY <1>2 DEF RInv, ExistsOK
    <3>2. LV' = LV
      BY <2>1, <2>2, <2>7, <3>1, <1>2
      DEF SameAbs, Resolved, IsReady, LV, Lifecycle!lvars
    <3>3. QED
      BY <2>4, <2>5, <2>6, <3>2
  <2>8. CASE LegalObj(cache, obj)
    <3>1. Lifecycle!Persist
      <4>1. Lifecycle!Resolution
        BY <2>1, <2>2, <2>8 DEF LegalObj, Resolved, Lifecycle!Resolution
      <4>2. Lifecycle!Identifiers
        BY <2>1, <2>2, <2>8 DEF LegalObj, Resolved, Lifecycle!Identifiers, Obj
      <4>3. Lifecycle!Readiness
        BY <2>1, <2>2, <2>8 DEF LegalObj, ReadyOK, IsReady, Lifecycle!Readiness
      <4>4. Lifecycle!Release
        BY <2>1, <2>2, <2>8 DEF LegalObj, Lifecycle!Release
      <4>5. QED
        BY <1>2, <2>1, <2>2, <2>8, <4>1, <4>2, <4>3, <4>4
        DEF LegalObj, Lifecycle!Persist
    <3>2. QED
      BY <2>4, <2>5, <2>6, <3>1 DEF Lifecycle!Next
  <2>9. QED
    BY <2>7, <2>8
<1>3. QED
  BY <1>1, <1>2 DEF WriteBack

\* What every step of a pass or of the environment must establish.
RStep ==
    /\ CacheCoherent' /\ ExistsOK' /\ ReadyOK(store') /\ ReadyOK(cache')
    /\ [Lifecycle!Next]_LV

\* Recording a Synced condition changes nothing the lifecycle reads.
LEMMA SyncedKeeps ==
    ASSUME NEW o \in Obj, NEW n \in Obj, NEW c \in Condition, c.type = "Synced"
    PROVE  LET m == [n EXCEPT !.conds = SetCondition(@, c)]
           IN  /\ m \in Obj
               /\ m.rv = n.rv
               /\ LegalObj(o, n) => LegalObj(o, m)
               /\ SameAbs(o, n) /\ ReadyOK(n) => SameAbs(o, m) /\ ReadyOK(m)
<1> DEFINE m == [n EXCEPT !.conds = SetCondition(@, c)]
<1>1. m \in Obj
  BY SetConditionObj
<1>2. /\ m.conds["Ready"] = n.conds["Ready"]
      /\ m.conds["ReferencesResolved"] = n.conds["ReferencesResolved"]
  BY SetConditionOther DEF Obj, CondTypes
<1>3. /\ m.rv = n.rv /\ m.deleting = n.deleting /\ m.finalizer = n.finalizer
      /\ m.clusterName = n.clusterName /\ m.stackID = n.stackID
  BY DEF Obj
<1>4. QED
  BY <1>1, <1>2, <1>3 DEF LegalObj, SameAbs, ReadyOK, Resolved, IsReady

\* A failed pass records ReconcileError over what it computed.
LEMMA FailRefines ==
    ASSUME RInv, NEW obj \in Obj, obj.rv = cache.rv,
           LegalObj(cache, obj) \/ (SameAbs(cache, obj) /\ ReadyOK(obj)),
           Fail(obj)
    PROVE  RStep
<1> DEFINE m == [obj EXCEPT !.conds = SetCondition(@, ReconcileError)]
<1>1. /\ m \in Obj /\ m.rv = cache.rv
      /\ LegalObj(cache, m) \/ (SameAbs(cache, m) /\ ReadyOK(m))
  BY SyncedKeeps, ConstructorsAreConditions DEF ReconcileError, RInv, TypeOK
<1>2. QED
  BY <1>1, WriteRefines DEF Fail, RStep

\* A write of a legal successor, or of one with the cached lifecycle.
LEMMA WriteStep ==
    ASSUME RInv, NEW obj \in Obj, obj.rv = cache.rv,
           LegalObj(cache, obj) \/ (SameAbs(cache, obj) /\ ReadyOK(obj)),
           WriteBack(obj)
    PROVE  RStep
BY WriteRefines DEF RStep

\* The object a pass works on past resolution: resolved and finalized, and
\* otherwise the cached one.
LEMMA PreparedProps ==
    ASSUME TypeOK, CanProceed(cache)
    PROVE  LET P == Prepared(cache)
           IN  /\ P \in Obj
               /\ P.rv = cache.rv
               /\ P.deleting = cache.deleting
               /\ P.finalizer
               /\ Resolved(P)
               /\ P.clusterName = cache.clusterName
               /\ P.stackID = cache.stackID
               /\ IsReady(P) = IsReady(cache)
<1>1. Prepared(cache) \in Obj
  BY PreparedType
<1>2. CASE NeedsResolution(cache)
  <2>1. ReferenceResolutionSuccess \in Condition
    BY ConstructorsAreConditions
  <2>2. LET cs == SetCondition(cache.conds, ReferenceResolutionSuccess)
        IN  cs["ReferencesResolved"] = ReferenceResolutionSuccess
            /\ cs["Ready"] = cache.conds["Ready"]
    BY <2>1, SetConditionOther DEF TypeOK, Obj, ConditionSets, SetCondition,
       ReferenceResolutionSuccess, CondTypes
  <2>3. QED
    BY <1>1, <1>2, <2>2 DEF Prepared, AddFinalizer, ResolveReferences, TypeOK,
       Obj, Resolved, IsReady, IsConditionTrue, ReferenceResolutionSuccess
<1>3. CASE ~NeedsResolution(cache)
  BY <1>1, <1>3 DEF Prepared, AddFinalizer, ResolveReferences, TypeOK, Obj,
     Resolved, IsReady, NeedsResolution
<1>4. QED
  BY <1>2, <1>3

\* On an object not being deleted, the prepared object is a legal successor.
LEMMA PreparedLegal ==
    ASSUME RInv, CanProceed(cache), ~cache.deleting
    PROVE  LegalObj(cache, Prepared(cache))
BY PreparedProps DEF RInv, LegalObj, ReadyOK

\* Recording a condition sets the condition of its type.
LEMMA SetConditionAt ==
    ASSUME NEW cs \in ConditionSets, NEW c \in Condition
    PROVE  SetCondition(cs, c)[c.type] = c
BY DEF ConditionSets, SetCondition, Condition

\* The facts a pass has about the object it works on past line 430.
Past(obj) ==
    /\ obj \in Obj
    /\ obj.rv = cache.rv
    /\ obj.deleting = cache.deleting
    /\ obj.finalizer
    /\ Resolved(obj)
    /\ obj.clusterName = cache.clusterName
    /\ obj.stackID = cache.stackID
    /\ IsReady(obj) = IsReady(cache)

-----------------------------------------------------------------------------
(* The paths of a pass.                                                    *)

\* Lines 408-412: the connect error is recorded on the cached object.
LEMMA ConnectFailRefines ==
    ASSUME RInv, ReconcileConnectFail
    PROVE  RStep
BY FailRefines DEF ReconcileConnectFail, RInv, TypeOK, SameAbs

\* Lines 414-423: a failed or blocked resolution never sets
\* ReferencesResolved True, and what it assigns is not part of the lifecycle.
LEMMA ResolveFailRefines ==
    ASSUME RInv, ReconcileResolveFail
    PROVE  RStep
<1>1. PICK built \in SUBSET ReadyUnresolved(cache.filled, targets) :
         LET obj == [cache EXCEPT !.filled = AssignAll(@, built)] IN
         \/ WriteBack([obj EXCEPT !.conds = SetCondition(@, ReconcileError)])
         \/ WriteBack([obj EXCEPT
                         !.conds = SetCondition(@, ReferenceResolutionBlocked)])
  BY DEF ReconcileResolveFail
<1> DEFINE obj == [cache EXCEPT !.filled = AssignAll(@, built)]
<1>2. /\ obj \in Obj /\ obj.rv = cache.rv
      /\ SameAbs(cache, obj) /\ ReadyOK(obj)
  BY AssignAllType DEF RInv, TypeOK, Obj, SameAbs, ReadyOK, Resolved, IsReady
<1>3. CASE WriteBack([obj EXCEPT !.conds = SetCondition(@, ReconcileError)])
  BY <1>2, <1>3, FailRefines DEF Fail
<1>4. CASE WriteBack([obj EXCEPT
                        !.conds = SetCondition(@, ReferenceResolutionBlocked)])
  <2> DEFINE m == [obj EXCEPT !.conds = SetCondition(@, ReferenceResolutionBlocked)]
  <2>1. /\ m \in Obj /\ m.rv = obj.rv
        /\ m.conds["ReferencesResolved"] = ReferenceResolutionBlocked
        /\ m.conds["Ready"] = obj.conds["Ready"]
        /\ m.deleting = obj.deleting /\ m.finalizer = obj.finalizer
        /\ m.clusterName = obj.clusterName /\ m.stackID = obj.stackID
    <3>1. m \in Obj
      BY <1>2, SetConditionObj, ConstructorsAreConditions
    <3>2. /\ m.conds = SetCondition(obj.conds, ReferenceResolutionBlocked)
          /\ m.rv = obj.rv /\ m.deleting = obj.deleting
          /\ m.finalizer = obj.finalizer /\ m.clusterName = obj.clusterName
          /\ m.stackID = obj.stackID
      BY <1>2 DEF Obj
    <3>3. /\ SetCondition(obj.conds, ReferenceResolutionBlocked)["ReferencesResolved"]
               = ReferenceResolutionBlocked
          /\ SetCondition(obj.conds, ReferenceResolutionBlocked)["Ready"]
               = obj.conds["Ready"]
      <4>1. ReferenceResolutionBlocked.type = "ReferencesResolved"
        BY DEF ReferenceResolutionBlocked
      <4>2. QED
        BY <1>2, <4>1, SetConditionAt, SetConditionOther,
           ConstructorsAreConditions DEF Obj, CondTypes
    <3>4. QED
      BY <3>1, <3>2, <3>3
  <2>2. ~Resolved(cache)
    BY DEF ReconcileResolveFail, NeedsResolution, Resolved
  <2>3. SameAbs(cache, m) /\ ReadyOK(m)
    BY <1>2, <2>1, <2>2
    DEF SameAbs, ReadyOK, Resolved, IsReady, IsConditionTrue,
        ReferenceResolutionBlocked
  <2>4. QED
    BY <1>2, <1>4, <2>1, <2>3, WriteStep
<1>5. QED
  BY <1>1, <1>3, <1>4

\* _delete (lines 367-393) writes Deleting, and drops the finalizer only
\* on an object the user is deleting.
LEMMA DeleteRefines ==
    ASSUME RInv, NEW obj, Past(obj), cache.deleting, Delete(obj)
    PROVE  RStep
<1> DEFINE o == [obj EXCEPT !.conds = SetCondition(@, Deleting)]
           r == [o EXCEPT !.finalizer = FALSE,
                          !.conds = SetCondition(@, ReconcileSuccess)]
<1>1. /\ o \in Obj /\ o.rv = cache.rv
      /\ o.conds["Ready"] = Deleting
      /\ o.conds["ReferencesResolved"] = obj.conds["ReferencesResolved"]
      /\ o.deleting = obj.deleting /\ o.finalizer = obj.finalizer
      /\ o.clusterName = obj.clusterName /\ o.stackID = obj.stackID
  <2>1. o \in Obj
    BY SetConditionObj, ConstructorsAreConditions DEF Past
  <2>2. /\ o.conds = SetCondition(obj.conds, Deleting)
        /\ o.rv = obj.rv /\ o.deleting = obj.deleting
        /\ o.finalizer = obj.finalizer /\ o.clusterName = obj.clusterName
        /\ o.stackID = obj.stackID
    BY DEF Past, Obj
  <2>3. /\ SetCondition(obj.conds, Deleting)["Ready"] = Deleting
        /\ SetCondition(obj.conds, Deleting)["ReferencesResolved"]
             = obj.conds["ReferencesResolved"]
    <3>1. Deleting.type = "Ready"
      BY DEF Deleting
    <3>2. QED
      BY <3>1, SetConditionAt, SetConditionOther, ConstructorsAreConditions
      DEF Past, Obj, CondTypes
  <2>4. QED
    BY <2>1, <2>2, <2>3 DEF Past
<1>2. ~IsReady(o) /\ Resolved(o)
  BY <1>1 DEF Past, Resolved, IsReady, IsConditionTrue, Deleting
<1>3. LegalObj(cache, o)
  BY <1>1, <1>2 DEF Past, LegalObj, ReadyOK
<1>4. /\ r \in Obj /\ r.rv = cache.rv
      /\ r.conds["Ready"] = o.conds["Ready"]
      /\ r.conds["ReferencesResolved"] = o.conds["ReferencesResolved"]
      /\ r.deleting = o.deleting /\ ~r.finalizer
      /\ r.clusterName = o.clusterName /\ r.stackID = o.stackID
  <2>1. r \in Obj
    <3>1. SetCondition(o.conds, ReconcileSuccess) \in ConditionSets
      BY <1>1, SetConditionType, ConstructorsAreConditions DEF Obj
    <3>2. QED
      BY <1>1, <3>1 DEF Obj
  <2>2. /\ r.conds = SetCondition(o.conds, ReconcileSuccess)
        /\ r.rv = o.rv /\ r.deleting = o.deleting /\ ~r.finalizer
        /\ r.clusterName = o.clusterName /\ r.stackID = o.stackID
    BY <1>1 DEF Obj
  <2>3. /\ SetCondition(o.conds, ReconcileSuccess)["Ready"] = o.conds["Ready"]
        /\ SetCondition(o.conds, ReconcileSuccess)["ReferencesResolved"]
             = o.conds["ReferencesResolved"]
    <3>1. ReconcileSuccess.type = "Synced"
      BY DEF ReconcileSuccess
    <3>2. QED
      BY <1>1, <3>1, SetConditionOther, ConstructorsAreConditions
      DEF Obj, CondTypes
  <2>4. QED
    BY <1>1, <2>1, <2>2, <2>3
<1>5. ~IsReady(r) /\ Resolved(r)
  BY <1>2, <1>4 DEF Resolved, IsReady
<1>6. LegalObj(cache, r)
  BY <1>1, <1>4, <1>5 DEF Past, LegalObj, ReadyOK
<1>7. Fail(o) \/ WriteBack(r)
  <2>1. CASE ReclaimPolicy = "Delete"
    <3>1. PICK masterErr \in MasterDeleteErr(o), workerErr \in Err :
            IF masterErr \/ (workerErr /\ o.stackID # NoStack)
            THEN Fail(o) ELSE Release(o)
      BY <2>1 DEF Delete
    <3>2. QED
      BY <3>1 DEF Release
  <2>2. CASE ReclaimPolicy # "Delete"
    BY <2>2 DEF Delete, Release
  <2>3. QED
    BY <2>1, <2>2
<1>8. QED
  BY <1>1, <1>3, <1>4, <1>6, <1>7, FailRefines, WriteStep

\* _create (lines 166-198) records the cluster's name, with Ready False
\* (Creating), on a resolved object that is not being deleted.
LEMMA CreateRefines ==
    ASSUME RInv, NEW obj, Past(obj), ~cache.deleting, ~obj.clusterName,
           Create(obj)
    PROVE  RStep
<1> DEFINE o == [obj EXCEPT !.conds = SetCondition(@, Creating)]
           created == [o EXCEPT !.clusterName = TRUE,
                                !.conds = SetCondition(@, ReconcileSuccess)]
<1>1. /\ o \in Obj /\ o.rv = cache.rv
      /\ o.conds["Ready"] = Creating
      /\ o.conds["ReferencesResolved"] = obj.conds["ReferencesResolved"]
      /\ o.deleting = obj.deleting /\ o.finalizer = obj.finalizer
      /\ o.clusterName = obj.clusterName /\ o.stackID = obj.stackID
  <2>1. o \in Obj
    BY SetConditionObj, ConstructorsAreConditions DEF Past
  <2>2. /\ o.conds = SetCondition(obj.conds, Creating)
        /\ o.rv = obj.rv /\ o.deleting = obj.deleting
        /\ o.finalizer = obj.finalizer /\ o.clusterName = obj.clusterName
        /\ o.stackID = obj.stackID
    BY DEF Past, Obj
  <2>3. /\ SetCondition(obj.conds, Creating)["Ready"] = Creating
        /\ SetCondition(obj.conds, Creating)["ReferencesResolved"]
             = obj.conds["ReferencesResolved"]
    <3>1. Creating.type = "Ready"
      BY DEF Creating
    <3>2. QED
      BY <3>1, SetConditionAt, SetConditionOther, ConstructorsAreConditions
      DEF Past, Obj, CondTypes
  <2>4. QED
    BY <2>1, <2>2, <2>3 DEF Past
<1>2. ~IsReady(o) /\ Resolved(o)
  BY <1>1 DEF Past, Resolved, IsReady, IsConditionTrue, Creating
<1>3. LegalObj(cache, o)
  BY <1>1, <1>2 DEF Past, LegalObj, ReadyOK
<1>4. /\ created \in Obj /\ created.rv = cache.rv
      /\ created.conds["Ready"] = o.conds["Ready"]
      /\ created.conds["ReferencesResolved"] = o.conds["ReferencesResolved"]
      /\ created.deleting = o.deleting /\ created.finalizer = o.finalizer
      /\ created.clusterName /\ created.stackID = o.stackID
  <2>1. SetCondition(o.conds, ReconcileSuccess) \in ConditionSets
    BY <1>1, SetConditionType, ConstructorsAreConditions DEF Obj
  <2>2. /\ SetCondition(o.conds, ReconcileSuccess)["Ready"] = o.conds["Ready"]
        /\ SetCondition(o.conds, ReconcileSuccess)["ReferencesResolved"]
             = o.conds["ReferencesResolved"]
    <3>1. ReconcileSuccess.type = "Synced"
      BY DEF ReconcileSuccess
    <3>2. QED
      BY <1>1, <3>1, SetConditionOther, ConstructorsAreConditions
      DEF Obj, CondTypes
  <2>3. QED
    BY <1>1, <2>1, <2>2 DEF Obj
<1>5. ~IsReady(created) /\ Resolved(created)
  BY <1>2, <1>4 DEF Resolved, IsReady
<1>6. LegalObj(cache, created)
  BY <1>1, <1>4, <1>5 DEF Past, LegalObj, ReadyOK
<1>7. CASE CrashRestart
  BY <1>7 DEF CrashRestart, RInv, RStep, CacheCoherent, ExistsOK, ReadyOK,
     IsReady, LV, Lifecycle!lvars
<1>8. Fail(o) \/ WriteBack(created) \/ CrashRestart
  BY DEF Create
<1>9. QED
  BY <1>1, <1>3, <1>4, <1>6, <1>7, <1>8, FailRefines, WriteStep

\* CreateWorkerNodes (lines 295-311) records the new stack's identifier on
\* a named object that has none, which therefore is not Ready.
LEMMA CreateWorkerNodesRefines ==
    ASSUME RInv, NEW obj, Past(obj), LegalObj(cache, obj), ~cache.deleting,
           obj.clusterName, obj.stackID = NoStack, CreateWorkerNodes(obj)
    PROVE  RStep
<1>1. CASE Fail(obj)
  BY <1>1, FailRefines DEF Past
<1>2. CASE \E s \in StackIds :
             WriteBack([obj EXCEPT !.stackID = s,
                                   !.conds = SetCondition(@, ReconcileSuccess)])
  <2>1. PICK s \in StackIds :
          WriteBack([obj EXCEPT !.stackID = s,
                                !.conds = SetCondition(@, ReconcileSuccess)])
    BY <1>2
  <2> DEFINE w == [obj EXCEPT !.stackID = s,
                              !.conds = SetCondition(@, ReconcileSuccess)]
  <2>2. /\ w \in Obj /\ w.rv = cache.rv
        /\ w.conds["Ready"] = obj.conds["Ready"]
        /\ w.conds["ReferencesResolved"] = obj.conds["ReferencesResolved"]
        /\ w.deleting = obj.deleting /\ w.finalizer = obj.finalizer
        /\ w.clusterName = obj.clusterName /\ w.stackID = s
    <3>1. SetCondition(obj.conds, ReconcileSuccess) \in ConditionSets
      BY SetConditionType, ConstructorsAreConditions DEF Past, Obj
    <3>2. /\ SetCondition(obj.conds, ReconcileSuccess)["Ready"]
               = obj.conds["Ready"]
          /\ SetCondition(obj.conds, ReconcileSuccess)["ReferencesResolved"]
               = obj.conds["ReferencesResolved"]
      <4>1. ReconcileSuccess.type = "Synced"
        BY DEF ReconcileSuccess
      <4>2. QED
        BY <4>1, SetConditionOther, ConstructorsAreConditions
        DEF Past, Obj, CondTypes
    <3>3. QED
      BY <3>1, <3>2 DEF Past, Obj
  <2>3. ~IsReady(w) /\ Resolved(w)
    <3>1. ~IsReady(cache)
      BY DEF Past, RInv, ReadyOK
    <3>2. QED
      BY <2>2, <3>1 DEF Past, Resolved, IsReady
  <2>4. s # NoStack
    BY StackAssumption
  <2>5. LegalObj(cache, w)
    BY <2>2, <2>3, <2>4 DEF Past, LegalObj, ReadyOK
  <2>6. QED
    BY <2>1, <2>2, <2>5, WriteStep
<1>3. QED
  BY <1>1, <1>2 DEF CreateWorkerNodes

\* SyncWorkers (lines 314-345) reports Available only on an object whose
\* cluster and stack identifiers are both recorded.
LEMMA SyncWorkersRefines ==
    ASSUME RInv, NEW obj, Past(obj), LegalObj(cache, obj), ~cache.deleting,
           obj.clusterName, obj.stackID # NoStack, SyncWorkers(obj)
    PROVE  RStep
<1> DEFINE ok == [obj EXCEPT !.conds = SetCondition(@, ReconcileSuccess)]
           okA == [ok EXCEPT !.conds = SetCondition(@, Available)]
<1>1. /\ ok \in Obj /\ ok.rv = obj.rv /\ LegalObj(cache, ok)
  <2>1. /\ cache \in Obj /\ obj \in Obj
        /\ ReconcileSuccess \in Condition /\ ReconcileSuccess.type = "Synced"
    BY ConstructorsAreConditions DEF Past, RInv, TypeOK, ReconcileSuccess
  <2>2. QED
    BY <2>1, SyncedKeeps
<1>2. /\ okA \in Obj /\ okA.rv = cache.rv
      /\ okA.conds["Ready"] = Available
      /\ okA.conds["ReferencesResolved"] = ok.conds["ReferencesResolved"]
      /\ okA.deleting = ok.deleting /\ okA.finalizer = ok.finalizer
      /\ okA.clusterName = ok.clusterName /\ okA.stackID = ok.stackID
  <2>1. okA \in Obj
    BY <1>1, SetConditionObj, ConstructorsAreConditions
  <2>2. /\ SetCondition(ok.conds, Available)["Ready"] = Available
        /\ SetCondition(ok.conds, Available)["ReferencesResolved"]
             = ok.conds["ReferencesResolved"]
    <3>1. Available.type = "Ready"
      BY DEF Available
    <3>2. QED
      BY <1>1, <3>1, SetConditionAt, SetConditionOther,
         ConstructorsAreConditions DEF Obj, CondTypes
  <2>3. QED
    BY <1>1, <2>1, <2>2 DEF Past, Obj
<1>3. LegalObj(cache, okA)
  <3>1. IsReady(okA) /\ (Resolved(okA) = Resolved(ok))
    BY <1>2 DEF IsReady, Resolved, IsConditionTrue, Available
  <3>2. QED
    BY <1>1, <1>2, <3>1 DEF Past, LegalObj, ReadyOK
<1>4. \/ Fail(obj) \/ WriteBack(ok) \/ WriteBack(okA)
  BY DEF SyncWorkers
<1>5. QED
  BY <1>1, <1>2, <1>3, <1>4, FailRefines, WriteStep DEF Past

\* _sync (lines 286-346) on an object past resolution and not being deleted.
LEMMA SyncRefines ==
    ASSUME RInv, NEW obj, Past(obj), ~cache.deleting, obj.clusterName,
           Sync(obj)
    PROVE  RStep
<1>1. LegalObj(cache, obj)
  BY DEF Past, RInv, LegalObj, ReadyOK
<1>2. \/ Fail(obj)
      \/ obj.stackID = NoStack /\ CreateWorkerNodes(obj)
      \/ obj.stackID # NoStack /\ SyncWorkers(obj)
  BY DEF Sync
<1>3. QED
  BY <1>1, <1>2, FailRefines, CreateWorkerNodesRefines, SyncWorkersRefines
  DEF Past

-----------------------------------------------------------------------------
(* Reconcile, the environment, and the refinement.                         *)

\* Every pass of Reconcile is a lifecycle step or a stutter.
LEMMA ReconcileRefines ==
    ASSUME RInv, Reconcile
    PROVE  RStep
<1> DEFINE P == Prepared(cache)
<1>1. CASE ReconcileConnectFail
  BY <1>1, ConnectFailRefines
<1>2. CASE ReconcileResolveFail
  BY <1>2, ResolveFailRefines
<1>3. ASSUME CanProceed(cache) PROVE Past(P)
  BY <1>3, PreparedProps DEF RInv, Past
<1>4. CASE ReconcileDelete
  BY <1>3, <1>4, DeleteRefines DEF ReconcileDelete, Past
<1>5. CASE ReconcileCreate
  BY <1>3, <1>5, CreateRefines DEF ReconcileCreate, Past
<1>6. CASE ReconcileSync
  BY <1>3, <1>6, SyncRefines DEF ReconcileSync, Past
<1>7. QED
  BY <1>1, <1>2, <1>4, <1>5, <1>6 DEF Reconcile

\* AWS, referenced objects and the informer leave the stored lifecycle
\* alone; a user's deletion is the lifecycle's RequestDeletion.
LEMMA EnvironmentRefines ==
    ASSUME RInv, Environment
    PROVE  RStep
<1>1. CASE UNCHANGED <<store, cache>>
  BY <1>1 DEF RInv, RStep, CacheCoherent, ExistsOK, ReadyOK, IsReady, LV,
     Lifecycle!lvars
<1>2. CASE UserDelete
  <2>1. /\ store'.deleting /\ store'.exists = store.finalizer
        /\ store'.finalizer = store.finalizer /\ store'.conds = store.conds
        /\ store'.clusterName = store.clusterName
        /\ store'.stackID = store.stackID
        /\ store'.rv = store.rv + 1 /\ store.rv \in Nat
        /\ cache' = store
    BY <1>2 DEF UserDelete, Inform, RInv, TypeOK, Obj
  <2>2. Lifecycle!RequestDeletion
    BY <1>2, <2>1 DEF UserDelete, Lifecycle!RequestDeletion
  <2>3. QED
    BY <2>1, <2>2 DEF RInv, RStep, CacheCoherent, ExistsOK, ReadyOK, IsReady,
       Lifecycle!Next
<1>3. CASE CacheSync
  BY <1>3 DEF CacheSync, RInv, RStep, CacheCoherent, ExistsOK, ReadyOK,
     IsReady, LV, Lifecycle!lvars
<1>4. QED
  BY <1>1, <1>2, <1>3
  DEF Environment, MasterProgress, StackProgress, TargetChange

\* A new object satisfies the invariant and is the lifecycle's start.
LEMMA RInvInit ==
    Init => RInv /\ Lifecycle!Init
<1> SUFFICES ASSUME Init PROVE RInv /\ Lifecycle!Init
  OBVIOUS
<1>1. TypeOK
  BY TypeInit
<1>2. /\ ~IsReady(store) /\ ~Resolved(store)
      /\ store.exists /\ ~store.deleting /\ ~store.finalizer
      /\ ~store.clusterName /\ store.stackID = NoStack /\ cache = store
  <2>1. PICK f \in [Refs -> BOOLEAN] :
          store = [exists |-> TRUE, rv |-> 1, deleting |-> FALSE,
                   finalizer |-> FALSE, filled |-> f, clusterName |-> FALSE,
                   stackID |-> NoStack, conds |-> NoConditions]
    BY DEF Init
  <2>2. /\ NoConditions["Ready"].status = "Unknown"
        /\ NoConditions["ReferencesResolved"].status = "Unknown"
    BY DEF NoConditions, NoCondition, CondTypes
  <2>3. QED
    BY <2>1, <2>2 DEF Init, IsReady, Resolved, IsConditionTrue
<1>3. RInv
  BY <1>1, <1>2 DEF RInv, CacheCoherent, ExistsOK, ReadyOK
<1>4. Lifecycle!Init
  BY <1>2 DEF Lifecycle!Init, IsReady, Resolved
<1>5. QED
  BY <1>3, <1>4

\* Every step keeps the invariant and maps to a lifecycle step or stutter.
LEMMA RefinementStep ==
    RInv /\ [Next]_vars => RInv' /\ [Lifecycle!Next]_LV
<1> SUFFICES ASSUME RInv, [Next]_vars PROVE RInv' /\ [Lifecycle!Next]_LV
  OBVIOUS
<1>1. TypeOK'
  BY TypeStep DEF RInv
<1>2. RStep
  <2>1. CASE Reconcile
    BY <2>1, ReconcileRefines
  <2>2. CASE Environment
    BY <2>2, EnvironmentRefines
  <2>3. CASE UNCHANGED vars
    BY <2>3 DEF vars, RInv, RStep, CacheCoherent, ExistsOK, ReadyOK, IsReady,
       LV, Lifecycle!lvars
  <2>4. QED
    BY <2>1, <2>2, <2>3 DEF Next
<1>3. QED
  BY <1>1, <1>2 DEF RInv, RStep

\* The Reconcile Loop, together with the API server, AWS, the informer and
\* the users, only ever changes the stored object the way ManagedLifecycle
\* allows: resolution precedes the finalizer and both identifiers, the
\* cluster is named before its stack, neither is replaced, Ready needs both
\* and is never set during deletion, and the finalizer is dropped only on
\* deletion (the writes of lines 139, 179, 197, 311, 326, 345, 392, 422).
THEOREM ImplementsLifecycleCorrect == Spec => ImplementsLifecycle
<1>1. Init => RInv /\ Lifecycle!Init
  BY RInvInit
<1>2. RInv /\ [Next]_vars => RInv' /\ [Lifecycle!Next]_LV
  BY RefinementStep
<1>3. QED
  BY <1>1, <1>2, PTL DEF Spec, ImplementsLifecycle, Lifecycle!Spec, LV

-----------------------------------------------------------------------------
(* Consequences of the refinement.                                         *)

\* In the lifecycle, the finalizer is only ever set on a resolved object.
LEMMA LifecycleFinalizerResolved ==
    ImplementsLifecycle => []FinalizerImpliesResolved
<1>1. Lifecycle!Init => FinalizerImpliesResolved
  BY DEF Lifecycle!Init, FinalizerImpliesResolved
<1>2. FinalizerImpliesResolved /\ [Lifecycle!Next]_LV
        => FinalizerImpliesResolved'
  BY DEF Lifecycle!Next, Lifecycle!Persist, Lifecycle!Resolution,
     Lifecycle!RequestDeletion, LV, Lifecycle!lvars, FinalizerImpliesResolved
<1>3. QED
  BY <1>1, <1>2, PTL DEF ImplementsLifecycle, Lifecycle!Spec, LV

\* Resolution runs before the deletion check (lines 414-435), yet deletion
\* never waits on references: the stored object carries the finalizer only
\* once ReferencesResolved is True, for every set of references and stack
\* identifiers, both reclaim policies and any resourceVersion bound.
THEOREM FinalizerImpliesResolvedCorrect == Spec => []FinalizerImpliesResolved
BY ImplementsLifecycleCorrect, LifecycleFinalizerResolved, PTL

\* A lifecycle step or stutter never clears the cluster name or replaces
\* the stack identifier of the stored object.
LEMMA LifecycleKeepsIdentifiers ==
    [Lifecycle!Next]_LV =>
        [ /\ store.clusterName => store'.clusterName
          /\ store.stackID # NoStack => store'.stackID = store.stackID ]_store
BY DEF Lifecycle!Next, Lifecycle!Persist, Lifecycle!Identifiers,
   Lifecycle!RequestDeletion, LV, Lifecycle!lvars

\* A pass that read a stale version without Status.ClusterName or
\* Status.CloudFormationStackID (lines 401, 305) never clears or replaces
\* them once persisted: the pass's write is refused on the stale
\* resourceVersion (WriteBack), so the resumable Status survives.
THEOREM IdentifiersStableCorrect == Spec => IdentifiersStable
<1>1. ImplementsLifecycle => IdentifiersStable
  BY LifecycleKeepsIdentifiers, PTL
  DEF ImplementsLifecycle, Lifecycle!Spec, LV, IdentifiersStable
<1>2. QED
  BY <1>1, ImplementsLifecycleCorrect

=============================================================================
