------------------------------ MODULE Conditions ------------------------------
(***************************************************************************)
(* The condition set of a managed resource (the Condition Tracker).  The  *)
(* condition constructors and SetConditions are crossplane-runtime         *)
(* (apis/core/v1alpha1), outside this repository: modelled from the spec, *)
(* section 4.4.  The transition time is left out: no property reads it.   *)
(***************************************************************************)

CondTypes == {"Ready", "Synced", "ReferencesResolved"}

Reasons == {"Creating", "Deleting", "Available", "ReconcileSuccess",
            "ReconcileError", "ReferenceResolutionSuccess",
            "ReferenceResolutionBlocked", "None"}

Condition == [type : CondTypes, status : {"True", "False", "Unknown"},
              reason : Reasons]

\* The value of a condition type the resource has never had.
NoCondition(t) == [type |-> t, status |-> "Unknown", reason |-> "None"]

NoConditions == [t \in CondTypes |-> NoCondition(t)]

\* A condition set holds at most one condition per type, under that type.
ConditionSets ==
    {cs \in [CondTypes -> Condition] : \A t \in CondTypes : cs[t].type = t}

Creating   == [type |-> "Ready", status |-> "False", reason |-> "Creating"]
Deleting   == [type |-> "Ready", status |-> "False", reason |-> "Deleting"]
Available  == [type |-> "Ready", status |-> "True",  reason |-> "Available"]
ReconcileSuccess ==
    [type |-> "Synced", status |-> "True", reason |-> "ReconcileSuccess"]
ReconcileError ==
    [type |-> "Synced", status |-> "False", reason |-> "ReconcileError"]
ReferenceResolutionSuccess ==
    [type |-> "ReferencesResolved", status |-> "True",
     reason |-> "ReferenceResolutionSuccess"]
ReferenceResolutionBlocked ==
    [type |-> "ReferencesResolved", status |-> "False",
     reason |-> "ReferenceResolutionBlocked"]

\* Mutant: a tracker that files every condition under Ready.
SetConditionUntyped(conds, c) == [conds EXCEPT !["Ready"] = c]

\* SetConditions: a condition replaces the one of its type.
SetCondition(conds, c) == [conds EXCEPT ![c.type] = c]

IsConditionTrue(c) == c.status = "True"
=============================================================================
