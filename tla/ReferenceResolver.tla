-------------------------- MODULE ReferenceResolver --------------------------
(***************************************************************************)
(* The attribute referencers of a managed resource and the resolver that  *)
(* runs them.  A reference names another managed resource (a VPC, a       *)
(* Subnet, a SecurityGroup, an IAMRole) whose status attribute is copied  *)
(* into a spec field of the referencing resource once that target is      *)
(* Ready.                                                                  *)
(*                                                                         *)
(* GetStatus and Build are the referencers of                              *)
(* apis/network/v1alpha2/securitygroup_referencers.go (the other          *)
(* referencers, e.g. InternetGatewayIDReferencer, have the same body).    *)
(* The loop over the referencers (ResolveReferences) lives in the         *)
(* crossplane-runtime library, outside this repository: it is modelled    *)
(* from the spec, section 4.1.                                             *)
(***************************************************************************)
EXTENDS FiniteSets

CONSTANT Refs          \* the references of the resource's spec

ASSUME RefsAssumption == IsFiniteSet(Refs)

\* The state of a referenced object as the API reader sees it: whether it
\* exists and whether its Ready condition is True.
Target == {t \in [exists : BOOLEAN, ready : BOOLEAN] : t.ready => t.exists}

RefStatuses == {"NotFound", "NotReady", "Ready"}

\* GetStatus: a NotFound read is ReferenceNotFound, an object whose Ready
\* condition is not True is ReferenceNotReady, any other is ReferenceReady.
GetStatus(t) ==
    CASE ~t.exists -> "NotFound"
      [] ~t.ready  -> "NotReady"
      [] OTHER     -> "Ready"

\* The references whose literal field is still empty (spec 4.1: only those
\* are looked up; a filled field is never assigned again).
Unresolved(filled) == {r \in Refs : ~filled[r]}

\* The unresolved references whose target is Ready: Build reads the target's
\* status attribute and Assign copies it into the spec.
ReadyUnresolved(filled, targets) ==
    {r \in Unresolved(filled) : GetStatus(targets[r]) = "Ready"}

\* Assign for the references in S: their fields become filled.
AssignAll(filled, S) == [r \in Refs |-> filled[r] \/ r \in S]

\* Mutant: only a missing target blocks; a NotReady one is let through.
IsBlockedNotFoundOnly(filled, targets) ==
    \E r \in Unresolved(filled) : GetStatus(targets[r]) = "NotFound"

\* The aggregate outcome is a ReferencesAccessError ("blocked") when some
\* unresolved reference is NotFound or NotReady.
IsBlocked(filled, targets) ==
    \E r \in Unresolved(filled) : GetStatus(targets[r]) # "Ready"
=============================================================================
