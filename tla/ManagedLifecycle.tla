--------------------------- MODULE ManagedLifecycle ---------------------------
(***************************************************************************)
(* What the Reconcile Loop promises about the managed resource as the API *)
(* server stores it (spec 3, 4.3, 5), whatever the controller does in      *)
(* between: a pass either persists a new version (Persist) or the user     *)
(* asks for deletion (RequestDeletion).                                    *)
(*                                                                         *)
(*   exists     the object is stored                                       *)
(*   deleting   a deletion was requested                                   *)
(*   finalizer  the controller's finalizer is set                          *)
(*   resolved   ReferencesResolved is True                                 *)
(*   named      the external cluster's identifier is recorded              *)
(*   stack      the worker stack's identifier, or NoStack                  *)
(*   ready      Ready is True                                              *)
(***************************************************************************)
CONSTANTS StackIds, NoStack

VARIABLES exists, deleting, finalizer, resolved, named, stack, ready

lvars == <<exists, deleting, finalizer, resolved, named, stack, ready>>

Init ==
    /\ exists = TRUE
    /\ deleting = FALSE
    /\ finalizer = FALSE
    /\ resolved = FALSE
    /\ named = FALSE
    /\ stack = NoStack
    /\ ready = FALSE

\* Resolution is done once and never undone; the finalizer only guards a
\* resolved object (so deletion never waits on references).
Resolution ==
    /\ resolved => resolved'
    /\ finalizer' => resolved'

\* Each external identifier is recorded at most once, in order (cluster,
\* then worker stack), only on a resolved object that is not being
\* deleted, and never replaced afterwards (resumable from Status alone).
Identifiers ==
    /\ named => named'
    /\ ~named /\ named' => resolved' /\ ~deleting
    /\ stack' \in StackIds \cup {NoStack}
    /\ stack # NoStack => stack' = stack
    /\ stack = NoStack /\ stack' # NoStack => named /\ resolved' /\ ~deleting

\* Ready only for a fully identified object, never on one being deleted.
Readiness ==
    /\ ready' => named' /\ stack' # NoStack
    /\ deleting => ~ready'

\* The finalizer is only dropped once deletion was asked for, and an
\* object without it that is being deleted is gone.
Release ==
    /\ finalizer /\ ~finalizer' => deleting
    /\ exists' = (finalizer' \/ ~deleting)

\* The controller persists a new version of the object.
Persist ==
    /\ exists
    /\ deleting' = deleting
    /\ Resolution
    /\ Identifiers
    /\ Readiness
    /\ Release

\* The user deletes the object; without the finalizer it is gone at once.
RequestDeletion ==
    /\ exists
    /\ ~deleting
    /\ deleting' = TRUE
    /\ exists' = finalizer
    /\ UNCHANGED <<finalizer, resolved, named, stack, ready>>

Next == Persist \/ RequestDeletion

Spec == Init /\ [][Next]_lvars
=============================================================================
