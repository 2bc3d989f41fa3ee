------------------------- MODULE EKSReconcilerProofs -------------------------
(***************************************************************************)
(* Proofs about EKSReconciler, for every set of references, every set of  *)
(* stack identifiers, both reclaim policies, every bound on the writes and *)
(* with or without transient errors.                                      *)
(***************************************************************************)
EXTENDS EKSReconciler, TLAPS

\* An object whose ReferencesResolved condition is True has every
\* referenced field filled: the condition is only ever set True together
\* with the fields (ResolveReferences) and no step empties a field.
RefsSound(o) ==
    IsConditionTrue(o.conds["ReferencesResolved"]) => \A r \in Refs : o.filled[r]

\* The inductive invariant behind ProvisionedOnlyResolved.  The cache must
\* satisfy it too, since a pass works on the version the cache holds.
IInv ==
    /\ TypeOK
    /\ ProvisionedOnlyResolved
    /\ RefsSound(store)
    /\ RefsSound(cache)

-----------------------------------------------------------------------------
(* Lemmas on the condition tracker and on the object's type.               *)

\* The condition constructors are conditions.
LEMMA ConstructorsAreConditions ==
    /\ Creating \in Condition
    /\ Deleting \in Condition
    /\ Available \in Condition
    /\ ReconcileSuccess \in Condition
    /\ ReconcileError \in Condition
    /\ ReferenceResolutionSuccess \in Condition
    /\ ReferenceResolutionBlocked \in Condition
BY DEF Creating, Deleting, Available, ReconcileSuccess, ReconcileError,
       ReferenceResolutionSuccess, ReferenceResolutionBlocked, Condition,
       CondTypes, Reasons

\* SetConditions keeps one condition per type.
LEMMA SetConditionType ==
    ASSUME NEW cs \in ConditionSets, NEW c \in Condition
    PROVE  SetCondition(cs, c) \in ConditionSets
BY DEF ConditionSets, SetCondition, Condition

\* Setting a condition of another type leaves a condition untouched.
LEMMA SetConditionOther ==
    ASSUME NEW cs \in ConditionSets, NEW c \in Condition,
           NEW t \in CondTypes, c.type # t
    PROVE  SetCondition(cs, c)[t] = cs[t]
BY DEF ConditionSets, SetCondition, Condition

\* Recording a condition on an object keeps it an object.
LEMMA SetConditionObj ==
    ASSUME NEW o \in Obj, NEW c \in Condition
    PROVE  [o EXCEPT !.conds = SetCondition(@, c)] \in Obj
BY SetConditionType DEF Obj

LEMMA AssignAllType ==
    ASSUME NEW f \in [Refs -> BOOLEAN], NEW S
    PROVE  AssignAll(f, S) \in [Refs -> BOOLEAN]
BY DEF AssignAll

\* The object a pass goes on with after line 430 is an object.
LEMMA PreparedType ==
    ASSUME TypeOK
    PROVE  Prepared(cache) \in Obj
<1>1. ResolveReferences(cache) \in Obj
  <2>1. CASE NeedsResolution(cache)
    <3>1. AssignAll(cache.filled, ReadyUnresolved(cache.filled, targets))
            \in [Refs -> BOOLEAN]
      BY AssignAllType DEF TypeOK, Obj
    <3>2. SetCondition(cache.conds, ReferenceResolutionSuccess) \in ConditionSets
      BY SetConditionType, ConstructorsAreConditions DEF TypeOK, Obj
    <3>3. QED
      BY <2>1, <3>1, <3>2 DEF ResolveReferences, TypeOK, Obj
  <2>2. CASE ~NeedsResolution(cache)
    BY <2>2 DEF ResolveReferences, TypeOK
  <2>3. QED
    BY <2>1, <2>2
<1>2. QED
  BY <1>1 DEF Prepared, AddFinalizer, Obj

\* A write leaves both the API server's object and the cache well typed.
LEMMA WriteBackType ==
    ASSUME TypeOK, NEW obj \in Obj, WriteBack(obj)
    PROVE  store' \in Obj /\ cache' \in Obj
<1>1. CASE UNCHANGED <<store, cache>>
  BY <1>1 DEF TypeOK
<1>2. CASE /\ obj.rv = store.rv
           /\ store.rv < MaxRV
           /\ store' = [obj EXCEPT !.rv = store.rv + 1,
                                   !.exists = obj.finalizer \/ ~obj.deleting]
           /\ Inform
  <2>1. store.rv + 1 \in 0..MaxRV
    BY <1>2, BoundAssumption DEF TypeOK, Obj
  <2>2. (obj.finalizer \/ ~obj.deleting) \in BOOLEAN
    OBVIOUS
  <2>3. store' \in Obj
    <3> DEFINE o1 == [obj EXCEPT !.rv = store.rv + 1]
    <3>1. o1 \in Obj
      BY <2>1 DEF Obj
    <3>2. store' = [o1 EXCEPT !.exists = obj.finalizer \/ ~obj.deleting]
      BY <1>2
    <3>3. QED
      BY <3>1, <3>2, <2>2 DEF Obj
  <2>4. QED
    BY <2>3, <1>2 DEF TypeOK, Inform
<1>3. QED
  BY <1>1, <1>2 DEF WriteBack

LEMMA FailType ==
    ASSUME TypeOK, NEW obj \in Obj, Fail(obj)
    PROVE  store' \in Obj /\ cache' \in Obj
BY WriteBackType, SetConditionObj, ConstructorsAreConditions DEF Fail
LEMMA ReleaseType ==
    ASSUME TypeOK, NEW obj \in Obj, Release(obj)
    PROVE  store' \in Obj /\ cache' \in Obj
<1>1. [obj EXCEPT !.finalizer = FALSE] \in Obj
  BY DEF Obj
<1>2. [obj EXCEPT !.finalizer = FALSE,
                  !.conds = SetCondition(@, ReconcileSuccess)] \in Obj
  BY <1>1, SetConditionObj, ConstructorsAreConditions
<1>3. QED
  BY <1>2, WriteBackType DEF Release

-----------------------------------------------------------------------------
(* Type correctness, one step per path of a pass and per environment      *)
(* action.                                                                 *)

LEMMA DeleteType ==
    ASSUME TypeOK, NEW obj \in Obj, Delete(obj)
    PROVE  /\ store' \in Obj /\ cache' \in Obj
           /\ master' \in MasterStates
           /\ stacks' \in [StackIds -> StackStates]
<1> DEFINE o == [obj EXCEPT !.conds = SetCondition(@, Deleting)]
<1>1. o \in Obj
  BY SetConditionObj, ConstructorsAreConditions
<1>2. CASE ReclaimPolicy = "Delete"
  <2>1. PICK masterErr \in MasterDeleteErr(o), workerErr \in Err :
           /\ master' = IF ~masterErr /\ o.clusterName
                           /\ master \in {"CREATING", "ACTIVE", "FAILED"}
                        THEN "DELETING" ELSE master
           /\ stacks' = IF ~workerErr /\ o.stackID # NoStack
                           /\ stacks[o.stackID] \in {"CREATING", "COMPLETE", "FAILED"}
                        THEN [stacks EXCEPT ![o.stackID] = "DELETING"]
                        ELSE stacks
           /\ IF masterErr \/ (workerErr /\ o.stackID # NoStack)
              THEN Fail(o) ELSE Release(o)
    BY <1>2 DEF Delete
  <2>2. master' \in MasterStates /\ stacks' \in [StackIds -> StackStates]
    BY <2>1 DEF TypeOK, MasterStates, StackStates
  <2>3. store' \in Obj /\ cache' \in Obj
    BY <2>1, <1>1, FailType, ReleaseType
  <2>4. QED
    BY <2>2, <2>3
<1>3. CASE ReclaimPolicy # "Delete"
  <2>1. Release(o) /\ UNCHANGED <<master, stacks>>
    BY <1>3 DEF Delete
  <2>2. QED
    BY <2>1, <1>1, ReleaseType DEF TypeOK
<1>4. QED
  BY <1>2, <1>3

LEMMA CreateType ==
    ASSUME TypeOK, NEW obj \in Obj, Create(obj)
    PROVE  /\ store' \in Obj /\ cache' \in Obj
           /\ master' \in MasterStates
           /\ sent' \subseteq [Refs -> BOOLEAN]
<1> DEFINE o == [obj EXCEPT !.conds = SetCondition(@, Creating)]
           created == [o EXCEPT !.clusterName = TRUE,
                                !.conds = SetCondition(@, ReconcileSuccess)]
<1>1. o \in Obj
  BY SetConditionObj, ConstructorsAreConditions
<1>2. created \in Obj
  <2>1. [o EXCEPT !.clusterName = TRUE] \in Obj
    BY <1>1 DEF Obj
  <2>2. QED
    BY <2>1, SetConditionObj, ConstructorsAreConditions
<1>3. o.filled \in [Refs -> BOOLEAN]
  BY <1>1 DEF Obj
<1>4. CASE master = "NONE" /\ master' = "CREATING" /\ sent' = sent \cup {o.filled}
           /\ WriteBack(created)
  BY <1>4, <1>2, <1>3, WriteBackType DEF TypeOK, MasterStates
<1>5. CASE master # "NONE" /\ WriteBack(created) /\ UNCHANGED <<master, sent>>
  BY <1>5, <1>2, WriteBackType DEF TypeOK
<1>6. CASE Fail(o) /\ UNCHANGED <<master, sent>>
  BY <1>6, <1>1, FailType DEF TypeOK
<1>7. CASE CrashRestart /\ UNCHANGED <<master, sent>>
  BY <1>7 DEF CrashRestart, TypeOK
<1>8. QED
  BY <1>4, <1>5, <1>6, <1>7 DEF Create

LEMMA CreateWorkerNodesType ==
    ASSUME TypeOK, NEW obj \in Obj, CreateWorkerNodes(obj)
    PROVE  /\ store' \in Obj /\ cache' \in Obj
           /\ stacks' \in [StackIds -> StackStates]
           /\ sent' \subseteq [Refs -> BOOLEAN]
<1>1. CASE \E s \in StackIds :
             /\ stacks[s] = "NONE"
             /\ stacks' = [stacks EXCEPT ![s] = "CREATING"]
             /\ sent' = sent \cup {obj.filled}
             /\ WriteBack([obj EXCEPT !.stackID = s,
                                      !.conds = SetCondition(@, ReconcileSuccess)])
  <2>1. PICK s \in StackIds :
             /\ stacks' = [stacks EXCEPT ![s] = "CREATING"]
             /\ sent' = sent \cup {obj.filled}
             /\ WriteBack([obj EXCEPT !.stackID = s,
                                      !.conds = SetCondition(@, ReconcileSuccess)])
    BY <1>1
  <2>2. [obj EXCEPT !.stackID = s] \in Obj
    BY DEF Obj
  <2>3. [obj EXCEPT !.stackID = s,
                    !.conds = SetCondition(@, ReconcileSuccess)] \in Obj
    BY <2>2, SetConditionObj, ConstructorsAreConditions
  <2>4. QED
    BY <2>1, <2>3, WriteBackType DEF TypeOK, StackStates, Obj
<1>2. CASE Fail(obj) /\ UNCHANGED <<stacks, sent>>
  BY <1>2, FailType DEF TypeOK
<1>3. QED
  BY <1>1, <1>2 DEF CreateWorkerNodes

LEMMA SyncWorkersType ==
    ASSUME TypeOK, NEW obj \in Obj, SyncWorkers(obj)
    PROVE  /\ store' \in Obj /\ cache' \in Obj
           /\ authConfigured' \in BOOLEAN
           /\ secretPublished' \in BOOLEAN
<1> DEFINE ok == [obj EXCEPT !.conds = SetCondition(@, ReconcileSuccess)]
<1>1. ok \in Obj
  BY SetConditionObj, ConstructorsAreConditions
<1>2. [ok EXCEPT !.conds = SetCondition(@, Available)] \in Obj
  BY <1>1, SetConditionObj, ConstructorsAreConditions
<1>3. authConfigured' \in BOOLEAN /\ secretPublished' \in BOOLEAN
  BY DEF SyncWorkers, AWSAuth, PublishSecret, TypeOK
<1>4. \/ Fail(obj)
      \/ WriteBack(ok)
      \/ WriteBack([ok EXCEPT !.conds = SetCondition(@, Available)])
  BY DEF SyncWorkers
<1>5. QED
  BY <1>1, <1>2, <1>3, <1>4, FailType, WriteBackType

LEMMA SyncType ==
    ASSUME TypeOK, NEW obj \in Obj, Sync(obj)
    PROVE  /\ store' \in Obj /\ cache' \in Obj
           /\ master' \in MasterStates
           /\ stacks' \in [StackIds -> StackStates]
           /\ authConfigured' \in BOOLEAN
           /\ secretPublished' \in BOOLEAN
           /\ sent' \subseteq [Refs -> BOOLEAN]
<1>1. CASE Fail(obj) /\ UNCHANGED awsVars
  BY <1>1, FailType DEF TypeOK, awsVars
<1>2. CASE CreateWorkerNodes(obj)
           /\ UNCHANGED <<master, authConfigured, secretPublished>>
  BY <1>2, CreateWorkerNodesType DEF TypeOK
<1>3. CASE SyncWorkers(obj) /\ UNCHANGED <<master, stacks, sent>>
  BY <1>3, SyncWorkersType DEF TypeOK
<1>4. QED
  BY <1>1, <1>2, <1>3 DEF Sync

\* The initial states are well typed.
LEMMA TypeInit == Init => TypeOK
<2> SUFFICES ASSUME Init PROVE TypeOK
  OBVIOUS
<2>1. NoConditions \in ConditionSets
  BY DEF NoConditions, NoCondition, ConditionSets, Condition, Reasons
<2>2. store \in Obj
  BY <2>1, BoundAssumption DEF Init, Obj
<2>3. QED
  BY <2>2 DEF Init, TypeOK, MasterStates, StackStates

\* Every step keeps the variables in their types.
LEMMA TypeStep == TypeOK /\ [Next]_vars => TypeOK'
<2> SUFFICES ASSUME TypeOK, [Next]_vars PROVE TypeOK'
  OBVIOUS
<2>0. Prepared(cache) \in Obj
  BY PreparedType
<2>1. CASE ReconcileConnectFail
  BY <2>1, FailType DEF ReconcileConnectFail, TypeOK, awsVars
<2>2. CASE ReconcileResolveFail
  <3>1. PICK built \in SUBSET ReadyUnresolved(cache.filled, targets) :
           LET obj == [cache EXCEPT !.filled = AssignAll(@, built)] IN
           \/ WriteBack([obj EXCEPT !.conds = SetCondition(@, ReconcileError)])
           \/ WriteBack([obj EXCEPT
                           !.conds = SetCondition(@, ReferenceResolutionBlocked)])
    BY <2>2 DEF ReconcileResolveFail
  <3> DEFINE obj == [cache EXCEPT !.filled = AssignAll(@, built)]
  <3>2. obj \in Obj
    BY AssignAllType DEF TypeOK, Obj
  <3>3. store' \in Obj /\ cache' \in Obj
    BY <3>1, <3>2, SetConditionObj, ConstructorsAreConditions, WriteBackType
  <3>4. QED
    BY <3>3, <2>2 DEF ReconcileResolveFail, TypeOK, awsVars
<2>3. CASE ReconcileDelete
  BY <2>3, <2>0, DeleteType DEF ReconcileDelete, TypeOK
<2>4. CASE ReconcileCreate
  BY <2>4, <2>0, CreateType DEF ReconcileCreate, TypeOK
<2>5. CASE ReconcileSync
  BY <2>5, <2>0, SyncType DEF ReconcileSync, TypeOK
<2>6. CASE MasterProgress
  BY <2>6 DEF MasterProgress, TypeOK, MasterStates
<2>7. CASE StackProgress
  BY <2>7 DEF StackProgress, TypeOK, StackStates
<2>8. CASE TargetChange
  BY <2>8 DEF TargetChange, TypeOK, awsVars
<2>9. CASE UserDelete
  <3>1. store' \in Obj
    <4>1. store.rv + 1 \in 0..MaxRV
      BY <2>9, BoundAssumption DEF UserDelete, TypeOK, Obj
    <4>2. store.finalizer \in BOOLEAN
      BY DEF TypeOK, Obj
    <4>3. [store EXCEPT !.deleting = TRUE, !.rv = store.rv + 1,
                        !.exists = store.finalizer] \in Obj
      BY <4>1, <4>2 DEF TypeOK, Obj
    <4>4. QED
      BY <2>9, <4>3 DEF UserDelete
  <3>2. QED
    BY <2>9, <3>1 DEF UserDelete, TypeOK, Inform, awsVars
<2>10. CASE CacheSync
  BY <2>10 DEF CacheSync, TypeOK, awsVars
<2>11. CASE UNCHANGED vars
  BY <2>11 DEF vars, TypeOK, awsVars
<2>12. QED
  BY <2>1, <2>2, <2>3, <2>4, <2>5, <2>6, <2>7, <2>8, <2>9, <2>10, <2>11
  DEF Next, Reconcile, Environment

\* Spec keeps every variable in its type: the object, the cache, the
\* AWS resources and every spec sent to AWS.
THEOREM TypeCorrect == Spec => []TypeOK
BY TypeInit, TypeStep, PTL DEF Spec

-----------------------------------------------------------------------------
(* ProvisionedOnlyResolved.  A pass goes on to _create, _sync or _delete  *)
(* only with every referenced field filled (PreparedFilled), so every     *)
(* object it writes and every spec it sends to AWS is filled; the passes  *)
(* that stop at resolution write either the ReferencesResolved condition  *)
(* it had (not True) or False.                                             *)

\* An object with every referenced field filled.
Filled(o) == \A r \in Refs : o.filled[r]

LEMMA FilledSound ==
    ASSUME NEW o, Filled(o)
    PROVE  RefsSound(o)
BY DEF Filled, RefsSound

\* Recording a Ready or Synced condition keeps an object sound.
LEMMA SetConditionSound ==
    ASSUME NEW o \in Obj, NEW c \in Condition, c.type # "ReferencesResolved",
           RefsSound(o)
    PROVE  RefsSound([o EXCEPT !.conds = SetCondition(@, c)])
<1>1. SetCondition(o.conds, c)["ReferencesResolved"] = o.conds["ReferencesResolved"]
  BY SetConditionOther DEF Obj, CondTypes
<1>2. QED
  BY <1>1 DEF RefsSound

\* Writing a sound object keeps the API server's object and the cache sound.
LEMMA WriteBackSound ==
    ASSUME TypeOK, RefsSound(store), RefsSound(cache),
           NEW obj \in Obj, RefsSound(obj), WriteBack(obj)
    PROVE  RefsSound(store') /\ RefsSound(cache')
<1>1. CASE UNCHANGED <<store, cache>>
  BY <1>1
<1>2. CASE /\ store' = [obj EXCEPT !.rv = store.rv + 1,
                                   !.exists = obj.finalizer \/ ~obj.deleting]
           /\ Inform
  <2>1. store'.conds = obj.conds /\ store'.filled = obj.filled
    BY <1>2 DEF Obj
  <2>2. QED
    BY <1>2, <2>1 DEF RefsSound, Inform
<1>3. QED
  BY <1>1, <1>2 DEF WriteBack

\* Writing a filled object keeps both sound.
LEMMA WriteFilled ==
    ASSUME TypeOK, RefsSound(store), RefsSound(cache),
           NEW obj \in Obj, Filled(obj), WriteBack(obj)
    PROVE  RefsSound(store') /\ RefsSound(cache')
BY WriteBackSound, FilledSound

\* Fail on a filled object.
LEMMA FailFilled ==
    ASSUME TypeOK, RefsSound(store), RefsSound(cache),
           NEW obj \in Obj, Filled(obj), Fail(obj)
    PROVE  RefsSound(store') /\ RefsSound(cache')
<1> DEFINE o == [obj EXCEPT !.conds = SetCondition(@, ReconcileError)]
<1>1. o \in Obj /\ Filled(o)
  BY SetConditionObj, ConstructorsAreConditions DEF Filled
<1>2. QED
  BY <1>1, WriteFilled DEF Fail

\* ResolveReferences succeeded: the object a pass goes on with is filled.
LEMMA PreparedFilled ==
    ASSUME TypeOK, RefsSound(cache), CanProceed(cache)
    PROVE  Filled(Prepared(cache))
<1>1. Prepared(cache).filled = ResolveReferences(cache).filled
  BY PreparedType DEF Prepared, AddFinalizer
<1>2. CASE NeedsResolution(cache)
  <2>1. ~IsBlocked(cache.filled, targets)
    BY <1>2 DEF CanProceed
  <2>2. ResolveReferences(cache).filled
          = AssignAll(cache.filled, ReadyUnresolved(cache.filled, targets))
    BY <1>2 DEF ResolveReferences, TypeOK, Obj
  <2>3. \A r \in Refs : ~cache.filled[r] => r \in ReadyUnresolved(cache.filled, targets)
    BY <2>1 DEF IsBlocked, ReadyUnresolved, Unresolved
  <2>4. QED
    BY <1>1, <2>2, <2>3 DEF Filled, AssignAll
<1>3. CASE ~NeedsResolution(cache)
  BY <1>1, <1>3 DEF ResolveReferences, NeedsResolution, RefsSound, Filled
<1>4. QED
  BY <1>2, <1>3

\* Recording a condition on a filled object keeps it filled.
LEMMA SetConditionFilled ==
    ASSUME NEW o \in Obj, NEW c \in Condition, Filled(o)
    PROVE  [o EXCEPT !.conds = SetCondition(@, c)] \in Obj
           /\ Filled([o EXCEPT !.conds = SetCondition(@, c)])
BY SetConditionObj DEF Filled

\* The facts every pass past resolution starts from.
Sound == TypeOK /\ RefsSound(store) /\ RefsSound(cache)

LEMMA ReleaseFilled ==
    ASSUME Sound, NEW obj \in Obj, Filled(obj), Release(obj)
    PROVE  RefsSound(store') /\ RefsSound(cache')
<1>1. [obj EXCEPT !.finalizer = FALSE] \in Obj
      /\ Filled([obj EXCEPT !.finalizer = FALSE])
  BY DEF Obj, Filled
<1>2. QED
  BY <1>1, SetConditionFilled, ConstructorsAreConditions, WriteFilled
  DEF Release, Sound

LEMMA DeleteSound ==
    ASSUME Sound, NEW obj \in Obj, Filled(obj), Delete(obj)
    PROVE  RefsSound(store') /\ RefsSound(cache')
<1> DEFINE o == [obj EXCEPT !.conds = SetCondition(@, Deleting)]
<1>1. o \in Obj /\ Filled(o)
  BY SetConditionFilled, ConstructorsAreConditions
<1>2. Fail(o) \/ Release(o)
  BY DEF Delete
<1>3. QED
  BY <1>1, <1>2, FailFilled, ReleaseFilled DEF Sound

LEMMA CreateSound ==
    ASSUME Sound, NEW obj \in Obj, Filled(obj), Create(obj)
    PROVE  /\ RefsSound(store') /\ RefsSound(cache')
           /\ sent' \subseteq sent \cup {obj.filled}
<1> DEFINE o == [obj EXCEPT !.conds = SetCondition(@, Creating)]
           created == [o EXCEPT !.clusterName = TRUE,
                                !.conds = SetCondition(@, ReconcileSuccess)]
<1>1. o \in Obj /\ Filled(o) /\ o.filled = obj.filled
  BY SetConditionFilled, ConstructorsAreConditions
<1>2. created \in Obj /\ Filled(created)
  <2>1. [o EXCEPT !.clusterName = TRUE] \in Obj
        /\ Filled([o EXCEPT !.clusterName = TRUE])
    BY <1>1 DEF Obj, Filled
  <2>2. QED
    BY <2>1, SetConditionFilled, ConstructorsAreConditions
<1>3. CASE sent' = sent \cup {o.filled} /\ WriteBack(created)
  BY <1>1, <1>2, <1>3, WriteFilled DEF Sound
<1>4. CASE WriteBack(created) /\ UNCHANGED sent
  BY <1>2, <1>4, WriteFilled DEF Sound
<1>5. CASE Fail(o) /\ UNCHANGED sent
  BY <1>1, <1>5, FailFilled DEF Sound
<1>6. CASE CrashRestart /\ UNCHANGED sent
  BY <1>6 DEF CrashRestart, Sound
<1>7. QED
  BY <1>3, <1>4, <1>5, <1>6 DEF Create

LEMMA CreateWorkerNodesSound ==
    ASSUME Sound, NEW obj \in Obj, Filled(obj), CreateWorkerNodes(obj)
    PROVE  /\ RefsSound(store') /\ RefsSound(cache')
           /\ sent' \subseteq sent \cup {obj.filled}
<1>1. CASE \E s \in StackIds :
             /\ sent' = sent \cup {obj.filled}
             /\ WriteBack([obj EXCEPT !.stackID = s,
                                      !.conds = SetCondition(@, ReconcileSuccess)])
  <2>1. PICK s \in StackIds :
             /\ sent' = sent \cup {obj.filled}
             /\ WriteBack([obj EXCEPT !.stackID = s,
                                      !.conds = SetCondition(@, ReconcileSuccess)])
    BY <1>1
  <2>2. [obj EXCEPT !.stackID = s] \in Obj /\ Filled([obj EXCEPT !.stackID = s])
    BY DEF Obj, Filled
  <2>3. QED
    BY <2>1, <2>2, SetConditionFilled, ConstructorsAreConditions, WriteFilled
    DEF Sound
<1>2. CASE Fail(obj) /\ UNCHANGED sent
  BY <1>2, FailFilled DEF Sound
<1>3. QED
  BY <1>1, <1>2 DEF CreateWorkerNodes

LEMMA SyncWorkersSound ==
    ASSUME Sound, NEW obj \in Obj, Filled(obj), SyncWorkers(obj)
    PROVE  RefsSound(store') /\ RefsSound(cache')
<1> DEFINE ok == [obj EXCEPT !.conds = SetCondition(@, ReconcileSuccess)]
<1>1. ok \in Obj /\ Filled(ok)
  BY SetConditionFilled, ConstructorsAreConditions
<1>2. [ok EXCEPT !.conds = SetCondition(@, Available)] \in Obj
      /\ Filled([ok EXCEPT !.conds = SetCondition(@, Available)])
  BY <1>1, SetConditionFilled, ConstructorsAreConditions
<1>3. \/ Fail(obj)
      \/ WriteBack(ok)
      \/ WriteBack([ok EXCEPT !.conds = SetCondition(@, Available)])
  BY DEF SyncWorkers
<1>4. QED
  BY <1>1, <1>2, <1>3, FailFilled, WriteFilled DEF Sound

LEMMA SyncSound ==
    ASSUME Sound, NEW obj \in Obj, Filled(obj), Sync(obj)
    PROVE  /\ RefsSound(store') /\ RefsSound(cache')
           /\ sent' \subseteq sent \cup {obj.filled}
<1>1. CASE Fail(obj) /\ UNCHANGED sent
  BY <1>1, FailFilled DEF Sound
<1>2. CASE CreateWorkerNodes(obj)
  BY <1>2, CreateWorkerNodesSound
<1>3. CASE SyncWorkers(obj) /\ UNCHANGED sent
  BY <1>3, SyncWorkersSound
<1>4. QED
  BY <1>1, <1>2, <1>3 DEF Sync, awsVars

\* A pass that stops at resolution writes an object whose
\* ReferencesResolved condition is not True.
LEMMA ResolveFailSound ==
    ASSUME Sound, ReconcileResolveFail
    PROVE  RefsSound(store') /\ RefsSound(cache') /\ sent' = sent
<1>1. PICK built \in SUBSET ReadyUnresolved(cache.filled, targets) :
         LET obj == [cache EXCEPT !.filled = AssignAll(@, built)] IN
         \/ WriteBack([obj EXCEPT !.conds = SetCondition(@, ReconcileError)])
         \/ WriteBack([obj EXCEPT
                         !.conds = SetCondition(@, ReferenceResolutionBlocked)])
  BY DEF ReconcileResolveFail
<1> DEFINE obj == [cache EXCEPT !.filled = AssignAll(@, built)]
<1>2. obj \in Obj
  BY AssignAllType DEF Sound, TypeOK, Obj
<1>3. RefsSound(obj)
  <2>1. obj.conds = cache.conds
    BY DEF Sound, TypeOK, Obj
  <2>2. QED
    BY <2>1 DEF ReconcileResolveFail, NeedsResolution, RefsSound
<1>4. RefsSound([obj EXCEPT !.conds = SetCondition(@, ReconcileError)])
      /\ [obj EXCEPT !.conds = SetCondition(@, ReconcileError)] \in Obj
  BY <1>2, <1>3, SetConditionSound, SetConditionObj, ConstructorsAreConditions
  DEF ReconcileError
<1>5. RefsSound([obj EXCEPT !.conds = SetCondition(@, ReferenceResolutionBlocked)])
      /\ [obj EXCEPT !.conds = SetCondition(@, ReferenceResolutionBlocked)] \in Obj
  <2>1. SetCondition(obj.conds, ReferenceResolutionBlocked)["ReferencesResolved"]
          = ReferenceResolutionBlocked
    BY <1>2 DEF SetCondition, Obj, ConditionSets, CondTypes,
               ReferenceResolutionBlocked
  <2> DEFINE o2 == [obj EXCEPT !.conds = SetCondition(@, ReferenceResolutionBlocked)]
  <2>2. o2.conds = SetCondition(obj.conds, ReferenceResolutionBlocked)
    BY <1>2 DEF Obj
  <2>3. ~IsConditionTrue(o2.conds["ReferencesResolved"])
    BY <2>1, <2>2 DEF IsConditionTrue, ReferenceResolutionBlocked
  <2>4. QED
    BY <1>2, <2>3, SetConditionObj, ConstructorsAreConditions DEF RefsSound
<1>6. QED
  BY <1>1, <1>4, <1>5, WriteBackSound DEF Sound, ReconcileResolveFail, awsVars

\* The initial object has no condition True and nothing was sent.
LEMMA IInvInit == Init => IInv
<1> SUFFICES ASSUME Init PROVE IInv
  OBVIOUS
<1>1. ~IsConditionTrue(store.conds["ReferencesResolved"])
  BY DEF Init, NoConditions, NoCondition, IsConditionTrue, CondTypes
<1>2. QED
  BY <1>1, TypeInit DEF IInv, RefsSound, ProvisionedOnlyResolved, Init

\* Every step keeps IInv.
LEMMA IInvStep == IInv /\ [Next]_vars => IInv'
<1> SUFFICES ASSUME IInv, [Next]_vars PROVE IInv'
  OBVIOUS
<1>0. Sound
  BY DEF IInv, Sound
<1>1. TypeOK'
  BY TypeStep DEF IInv
\* The three paths past resolution start from a filled object.
<1>2. ASSUME CanProceed(cache)
      PROVE  Prepared(cache) \in Obj /\ Filled(Prepared(cache))
  BY <1>0, <1>2, PreparedType, PreparedFilled DEF Sound
<1>3. ASSUME RefsSound(store'), RefsSound(cache'),
             NEW f, Filled(f), sent' \subseteq sent \cup {f.filled}
      PROVE  IInv'
  BY <1>1, <1>3 DEF IInv, ProvisionedOnlyResolved, Filled
<1>4. CASE ReconcileConnectFail
  <2>1. Fail(cache) /\ sent' = sent
    BY <1>4 DEF ReconcileConnectFail, awsVars
  <2>2. [cache EXCEPT !.conds = SetCondition(@, ReconcileError)] \in Obj
        /\ RefsSound([cache EXCEPT !.conds = SetCondition(@, ReconcileError)])
    BY <1>0, SetConditionObj, SetConditionSound, ConstructorsAreConditions
    DEF Sound, TypeOK, ReconcileError
  <2>3. QED
    BY <1>0, <1>1, <2>1, <2>2, WriteBackSound
    DEF Fail, Sound, IInv, ProvisionedOnlyResolved
<1>5. CASE ReconcileResolveFail
  BY <1>0, <1>1, <1>5, ResolveFailSound DEF IInv, ProvisionedOnlyResolved
<1>6. CASE ReconcileDelete
  <2>1. Prepared(cache) \in Obj /\ Filled(Prepared(cache))
    BY <1>2, <1>6 DEF ReconcileDelete
  <2>2. QED
    BY <1>0, <1>6, <2>1, <1>3, DeleteSound DEF ReconcileDelete
<1>7. CASE ReconcileCreate
  <2>1. Prepared(cache) \in Obj /\ Filled(Prepared(cache))
    BY <1>2, <1>7 DEF ReconcileCreate
  <2>2. QED
    BY <1>0, <1>7, <2>1, <1>3, CreateSound DEF ReconcileCreate
<1>8. CASE ReconcileSync
  <2>1. Prepared(cache) \in Obj /\ Filled(Prepared(cache))
    BY <1>2, <1>8 DEF ReconcileSync
  <2>2. QED
    BY <1>0, <1>8, <2>1, <1>3, SyncSound DEF ReconcileSync
<1>9. CASE MasterProgress \/ StackProgress \/ TargetChange \/ CacheSync
      \/ UNCHANGED vars
  BY <1>0, <1>1, <1>9
  DEF MasterProgress, StackProgress, TargetChange, CacheSync, vars, awsVars,
      IInv, Sound, ProvisionedOnlyResolved, RefsSound
<1>10. CASE UserDelete
  <2>1. store'.conds = store.conds /\ store'.filled = store.filled
    BY <1>0, <1>10 DEF UserDelete, Sound, TypeOK, Obj
  <2>2. QED
    BY <1>0, <1>1, <1>10, <2>1
    DEF UserDelete, Inform, awsVars, IInv, Sound, ProvisionedOnlyResolved,
        RefsSound
<1>11. QED
  BY <1>4, <1>5, <1>6, <1>7, <1>8, <1>9, <1>10
  DEF Next, Reconcile, Environment

\* No CreateCluster or CreateWorkerNodes call ever goes to AWS with a
\* referenced field still empty (the resolution at lines 414-427 precedes
\* _create and _sync), for every set of references and stacks, every
\* bound on the writes, and with stale caches and lost writes.
THEOREM ProvisionedOnlyResolvedCorrect == Spec => []ProvisionedOnlyResolved
<1>1. IInv => ProvisionedOnlyResolved
  BY DEF IInv
<1>2. QED
  BY <1>1, IInvInit, IInvStep, PTL DEF Spec

=============================================================================
