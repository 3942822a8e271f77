----------------------------- MODULE Reconciler -----------------------------
(***************************************************************************)
(* The reconciliation engine of the interoperator (resources.go) driving   *)
(* the sub-resources of ONE service instance or binding in a target        *)
(* cluster, together with the caller that persists the returned Source     *)
(* list on the request (status.resources) and the other actors of the      *)
(* target cluster.                                                         *)
(*                                                                         *)
(* A resource is identified by its {kind, apiVersion, name, namespace}:    *)
(* a member of Keys.  Its managed fields (what the templates render) are   *)
(* abstracted to one value of Specs; its ownership annotations             *)
(* (SetOwnerReference) to one Boolean; status.state = "delete" to another. *)
(*                                                                         *)
(* One call of ReconcileResources or DeleteSubResources is a sequence of   *)
(* steps, one per loop iteration (each iteration issues its own API calls  *)
(* and other actors of the cluster may act between them); pc says where    *)
(* the call is.  The work queue serialises calls for one request (spec    *)
(* section 5), so there is a single pc.                                    *)
(***************************************************************************)
EXTENDS Naturals, FiniteSets

CONSTANTS
    Keys,        \* identities of the resources the templates can render
    Special,     \* keys whose apiVersion is in specialDelete (graceful teardown)
    Specs,       \* values of the managed (templated) fields of a resource
    MaxChanges,  \* bound on updates of the request's spec by its user
    MaxFaults    \* bound on API calls that fail with a transient error

ASSUME ConstantsAssumption ==
    /\ Keys # {}
    /\ Special \subseteq Keys
    /\ Specs # {}
    /\ MaxChanges \in Nat
    /\ MaxFaults \in Nat

VARIABLES
    \* --- the target cluster ---
    live,      \* keys of the objects that exist in the target cluster
    content,   \* managed fields of each object
    owned,     \* the object carries this request's four owner annotations
    teardown,  \* the object's status.state is "delete"
    \* --- the declarative request (SFServiceInstance / SFServiceBinding) ---
    req,       \* "active", "deleting" (deletionTimestamp set) or "gone"
    desired,   \* keys the request's current spec renders to
    params,    \* managed-field value the request's current spec renders to
    changes,   \* number of spec updates so far (bounded by MaxChanges)
    sources,   \* status.resources: the persisted Source list
    \* --- the call in progress ---
    pc,        \* "idle", "apply", "cleanup", "persist", "delete", "persistDel"
    exp,       \* keys of expectedResources of this call
    expSpec,   \* managed fields of expectedResources of this call
    todo,      \* expectedResources not processed yet
    last,      \* lastResources (ReconcileResources) or subResources (DeleteSubResources)
    pending,   \* members of last not processed yet
    found,     \* foundResources (ReconcileResources) or remainingResource (DeleteSubResources)
    lastErr,   \* lastError of DeleteSubResources is not nil
    faults,    \* transient API failures so far (bounded by MaxFaults)
    \* --- observation ---
    call       \* the API writes the last step issued on the target cluster

cluster == <<live, content, owned, teardown>>
request == <<req, desired, params, changes, sources>>
engine  == <<pc, exp, expSpec, todo, last, pending, found, lastErr, faults>>
vars    == <<cluster, request, engine, call>>

Ops == {"create", "update", "delete", "setStateDelete"}
NoCall == {}
Call(op, k) == {[op |-> op, key |-> k]}

-----------------------------------------------------------------------------
(* The objects of the target cluster that carry this request's owner       *)
(* annotations.                                                            *)
OwnedLive == {k \in live : owned[k]}

(* Mutant of TransientFailure: the retry bound is not enforced.           *)
TransientFailureUnbounded == faults' = faults + 1

(* An API call fails with an error other than not-found (a conflict, a    *)
(* timeout); the work queue retries with a bounded retry count.           *)
TransientFailure ==
    /\ faults < MaxFaults
    /\ faults' = faults + 1

TypeOK ==
    /\ live \subseteq Keys
    /\ content \in [Keys -> Specs]
    /\ owned \in [Keys -> BOOLEAN]
    /\ teardown \in [Keys -> BOOLEAN]
    /\ req \in {"active", "deleting", "gone"}
    /\ desired \subseteq Keys
    /\ params \in Specs
    /\ changes \in 0..MaxChanges
    /\ sources \subseteq Keys
    /\ pc \in {"idle", "apply", "cleanup", "persist", "delete", "persistDel"}
    /\ exp \subseteq Keys
    /\ expSpec \in Specs
    /\ todo \subseteq Keys
    /\ last \subseteq Keys
    /\ pending \subseteq Keys
    /\ found \subseteq Keys
    /\ lastErr \in BOOLEAN
    /\ faults \in 0..MaxFaults
    /\ call \subseteq [op : Ops, key : Keys]

(* The target cluster may already hold objects with the names the          *)
(* templates render, put there by someone else: they carry no owner        *)
(* annotations.                                                            *)
Init ==
    /\ live \in SUBSET Keys
    /\ content \in [Keys -> Specs]
    /\ owned = [k \in Keys |-> FALSE]
    /\ teardown = [k \in Keys |-> FALSE]
    /\ req = "active"
    /\ desired \in SUBSET Keys
    /\ params \in Specs
    /\ changes = 0
    /\ sources = {}
    /\ pc = "idle"
    /\ exp = {}
    /\ expSpec = params
    /\ todo = {}
    /\ last = {}
    /\ pending = {}
    /\ found = {}
    /\ lastErr = FALSE
    /\ faults = 0
    /\ call = NoCall

-----------------------------------------------------------------------------
(***************************************************************************)
(* ReconcileResources(sourceClient, targetClient, expectedResources,       *)
(* lastResources), called by the request's controller with the resources   *)
(* ComputeExpectedResources rendered, stamped by SetOwnerReference, and    *)
(* with the persisted status.resources as lastResources.                   *)
(***************************************************************************)
StartReconcile ==
    /\ pc = "idle"
    /\ req = "active"
    /\ pc' = "apply"
    /\ exp' = desired
    /\ expSpec' = params
    /\ todo' = desired
    /\ last' = sources
    /\ pending' = sources
    /\ found' = {}
    /\ call' = NoCall
    /\ UNCHANGED <<cluster, request, lastErr, faults>>

(* Mutant of NeedsUpdate: DeepUpdate compares only the managed fields and *)
(* ignores the owner annotations.                                          *)
NeedsUpdateContentOnly(k) == content[k] # expSpec

(* DeepUpdate(found, expected) reports a change when a managed field or an *)
(* owner annotation of the live object differs from the expected one.      *)
NeedsUpdate(k) == content[k] # expSpec \/ ~owned[k]

(* Mutant of ResourceCreated: the created object is not appended to       *)
(* foundResources before the loop continues.                               *)
ResourceCreatedUnrecorded(k) ==
    /\ k \notin live
    /\ live' = live \cup {k}
    /\ content' = [content EXCEPT ![k] = expSpec]
    /\ owned' = [owned EXCEPT ![k] = TRUE]
    /\ teardown' = [teardown EXCEPT ![k] = FALSE]
    /\ call' = Call("create", k)
    /\ UNCHANGED found

(* Get returns not-found: the expected resource is created, with its      *)
(* owner annotations, and recorded as found.                               *)
ResourceCreated(k) ==
    /\ k \notin live
    /\ live' = live \cup {k}
    /\ content' = [content EXCEPT ![k] = expSpec]
    /\ owned' = [owned EXCEPT ![k] = TRUE]
    /\ teardown' = [teardown EXCEPT ![k] = FALSE]
    /\ call' = Call("create", k)
    /\ found' = found \cup {k}

(* Mutant of ResourceUpdated: the updated object is not appended to       *)
(* foundResources.                                                         *)
ResourceUpdatedUnrecorded(k) ==
    /\ k \in live
    /\ NeedsUpdate(k)
    /\ content' = [content EXCEPT ![k] = expSpec]
    /\ owned' = [owned EXCEPT ![k] = TRUE]
    /\ call' = Call("update", k)
    /\ UNCHANGED <<live, teardown, found>>

(* Get finds it and DeepUpdate reports a change: the merged object, whose  *)
(* unmanaged fields and status are those of the live one, is written.     *)
ResourceUpdated(k) ==
    /\ k \in live
    /\ NeedsUpdate(k)
    /\ content' = [content EXCEPT ![k] = expSpec]
    /\ owned' = [owned EXCEPT ![k] = TRUE]
    /\ call' = Call("update", k)
    /\ found' = found \cup {k}
    /\ UNCHANGED <<live, teardown>>

(* Get finds it and DeepUpdate reports no change: nothing is written.      *)
ResourceUpToDate(k) ==
    /\ k \in live
    /\ ~NeedsUpdate(k)
    /\ call' = NoCall
    /\ found' = found \cup {k}
    /\ UNCHANGED <<live, content, owned, teardown>>

(* One iteration of the loop over expectedResources.                       *)
ReconcileApply(k) ==
    /\ pc = "apply"
    /\ k \in todo
    /\ \/ ResourceCreated(k)
       \/ ResourceUpdated(k)
       \/ ResourceUpToDate(k)
    /\ todo' = todo \ {k}
    /\ UNCHANGED <<request, pc, exp, expSpec, last, pending, lastErr, faults>>

(* A Get (other than not-found), Create or Update fails: the call returns  *)
(* (nil, err) at once, and what earlier iterations wrote stays.            *)
ReconcileApplyFails ==
    /\ pc = "apply"
    /\ todo # {}
    /\ TransientFailure
    /\ pc' = "idle"
    /\ call' = NoCall
    /\ UNCHANGED <<cluster, request, exp, expSpec, todo, last, pending, found, lastErr>>

ReconcileApplyDone ==
    /\ pc = "apply"
    /\ todo = {}
    /\ pc' = "cleanup"
    /\ call' = NoCall
    /\ UNCHANGED <<cluster, request, exp, expSpec, todo, last, pending, found, lastErr, faults>>

(* One iteration of the loop over lastResources: a resource not among the  *)
(* found ones (findUnstructuredObject) is deleted with targetClient.Delete; *)
(* any error, not-found included, puts it back into foundResources.        *)
ReconcileCleanup(k) ==
    /\ pc = "cleanup"
    /\ k \in pending
    /\ \/ /\ k \in found
          /\ UNCHANGED <<live, found, faults>>
          /\ call' = NoCall
       \/ /\ k \notin found
          /\ k \in live
          /\ live' = live \ {k}
          /\ call' = Call("delete", k)
          /\ UNCHANGED <<found, faults>>
       \/ /\ k \notin found
          /\ k \notin live
          /\ found' = found \cup {k}
          /\ call' = NoCall
          /\ UNCHANGED <<live, faults>>
       \/ /\ k \notin found
          /\ k \in live
          /\ TransientFailure
          /\ found' = found \cup {k}
          /\ call' = NoCall
          /\ UNCHANGED live
    /\ pending' = pending \ {k}
    /\ UNCHANGED <<content, owned, teardown, request, pc, exp, expSpec, todo, last, lastErr>>

(* The loop ends: the call returns the Sources of foundResources.          *)
ReconcileCleanupDone ==
    /\ pc = "cleanup"
    /\ pending = {}
    /\ pc' = "persist"
    /\ call' = NoCall
    /\ UNCHANGED <<cluster, request, exp, expSpec, todo, last, pending, found, lastErr, faults>>

(* The controller writes the returned Sources to status.resources; the     *)
(* status update can fail (a conflict), and then nothing is written.       *)
PersistSources ==
    /\ pc = "persist"
    /\ \/ /\ sources' = found
          /\ UNCHANGED faults
       \/ /\ TransientFailure
          /\ UNCHANGED sources
    /\ pc' = "idle"
    /\ call' = NoCall
    /\ UNCHANGED <<cluster, req, desired, params, changes, exp, expSpec, todo, last, pending, found, lastErr>>

-----------------------------------------------------------------------------
(***************************************************************************)
(* DeleteSubResources(client, subResources), called by the controller of a *)
(* request whose deletion has been requested, with status.resources.       *)
(***************************************************************************)
StartDeleteSubResources ==
    /\ pc = "idle"
    /\ req = "deleting"
    /\ pc' = "delete"
    /\ last' = sources
    /\ pending' = sources
    /\ found' = {}
    /\ lastErr' = FALSE
    /\ call' = NoCall
    /\ UNCHANGED <<cluster, request, exp, expSpec, todo, faults>>

(* Mutant of SubResourceNotFound: not-found is handled like any other     *)
(* error, so the Source stays.                                             *)
SubResourceNotFoundKept(k) ==
    /\ k \notin live
    /\ found' = found \cup {k}
    /\ call' = NoCall
    /\ UNCHANGED <<live, teardown, lastErr, faults>>

(* deleteSubResource returns not-found (from Delete, or from the Get of a  *)
(* special apiVersion): DeleteSubResources drops the Source.               *)
SubResourceNotFound(k) ==
    /\ k \notin live
    /\ call' = NoCall
    /\ UNCHANGED <<live, teardown, found, lastErr, faults>>

(* Any other apiVersion is deleted; the deletion was only triggered, so    *)
(* the Source is kept.                                                     *)
SubResourceDeleted(k) ==
    /\ k \in live
    /\ k \notin Special
    /\ live' = live \ {k}
    /\ found' = found \cup {k}
    /\ call' = Call("delete", k)
    /\ UNCHANGED <<teardown, lastErr, faults>>

(* A special apiVersion is fetched and updated with status.state =        *)
(* "delete" (its status map created if absent); the Source is kept.       *)
SubResourceMarkedForDelete(k) ==
    /\ k \in live
    /\ k \in Special
    /\ teardown' = [teardown EXCEPT ![k] = TRUE]
    /\ found' = found \cup {k}
    /\ call' = Call("setStateDelete", k)
    /\ UNCHANGED <<live, lastErr, faults>>

(* Mutant of SubResourceDeleteFailed: the failed Source is not appended   *)
(* to remainingResource.                                                   *)
SubResourceDeleteFailedDropped(k) ==
    /\ k \in live
    /\ TransientFailure
    /\ lastErr' = TRUE
    /\ call' = NoCall
    /\ UNCHANGED <<live, teardown, found>>

(* Any other error: the Source is kept and the error becomes lastError.   *)
SubResourceDeleteFailed(k) ==
    /\ k \in live
    /\ TransientFailure
    /\ found' = found \cup {k}
    /\ lastErr' = TRUE
    /\ call' = NoCall
    /\ UNCHANGED <<live, teardown>>

(* One iteration of the loop over subResources, deleteSubResource          *)
(* included.                                                               *)
DeleteSubResource(k) ==
    /\ pc = "delete"
    /\ k \in pending
    /\ \/ SubResourceNotFound(k)
       \/ SubResourceDeleted(k)
       \/ SubResourceMarkedForDelete(k)
       \/ SubResourceDeleteFailed(k)
    /\ pending' = pending \ {k}
    /\ UNCHANGED <<content, owned, request, pc, exp, expSpec, todo, last>>

DeleteSubResourcesDone ==
    /\ pc = "delete"
    /\ pending = {}
    /\ pc' = "persistDel"
    /\ call' = NoCall
    /\ UNCHANGED <<cluster, request, exp, expSpec, todo, last, pending, found, lastErr, faults>>

(* The controller writes the remaining Sources to status.resources and,    *)
(* once none remains, removes its finalizer: the request is gone.          *)
PersistRemaining ==
    /\ pc = "persistDel"
    /\ \/ /\ sources' = found
          /\ req' = IF found = {} THEN "gone" ELSE req
          /\ UNCHANGED faults
       \/ /\ TransientFailure
          /\ UNCHANGED <<sources, req>>
    /\ pc' = "idle"
    /\ call' = NoCall
    /\ UNCHANGED <<cluster, desired, params, changes, exp, expSpec, todo, last, pending, found, lastErr>>

-----------------------------------------------------------------------------
(* The user updates the request's parameters or plan: it renders to other  *)
(* resources with other managed fields.                                    *)
UpdateRequest ==
    /\ req = "active"
    /\ changes < MaxChanges
    /\ \E D \in SUBSET Keys, p \in Specs :
          /\ desired' = D
          /\ params' = p
    /\ changes' = changes + 1
    /\ call' = NoCall
    /\ UNCHANGED <<cluster, req, sources, engine>>

(* The user deletes the request: its deletionTimestamp is set; a call in   *)
(* progress runs to its end.                                               *)
DeleteRequest ==
    /\ req = "active"
    /\ req' = "deleting"
    /\ call' = NoCall
    /\ UNCHANGED <<cluster, desired, params, changes, sources, engine>>

(* The controller of a special apiVersion tears down an object whose       *)
(* status.state is "delete".                                               *)
TeardownController(k) ==
    /\ k \in live
    /\ teardown[k]
    /\ live' = live \ {k}
    /\ call' = NoCall
    /\ UNCHANGED <<content, owned, teardown, request, engine>>

(* Someone else deletes an object of the target cluster.                   *)
ExternalDelete(k) ==
    /\ k \in live
    /\ live' = live \ {k}
    /\ call' = NoCall
    /\ UNCHANGED <<content, owned, teardown, request, engine>>

(* Someone else edits a managed field of an object.                        *)
ExternalEdit(k) ==
    /\ k \in live
    /\ \E v \in Specs \ {content[k]} : content' = [content EXCEPT ![k] = v]
    /\ call' = NoCall
    /\ UNCHANGED <<live, owned, teardown, request, engine>>

(* The request is gone and no call is in progress: nothing is left to do.  *)
Finished ==
    /\ req = "gone"
    /\ pc = "idle"
    /\ UNCHANGED vars

-----------------------------------------------------------------------------
(* The steps of the controller and of the engine it calls.                 *)
Controller ==
    \/ StartReconcile
    \/ \E k \in Keys : ReconcileApply(k)
    \/ ReconcileApplyFails
    \/ ReconcileApplyDone
    \/ \E k \in Keys : ReconcileCleanup(k)
    \/ ReconcileCleanupDone
    \/ PersistSources
    \/ StartDeleteSubResources
    \/ \E k \in Keys : DeleteSubResource(k)
    \/ DeleteSubResourcesDone
    \/ PersistRemaining

Environment ==
    \/ UpdateRequest
    \/ DeleteRequest
    \/ \E k \in Keys : TeardownController(k)
    \/ \E k \in Keys : ExternalDelete(k)
    \/ \E k \in Keys : ExternalEdit(k)

Next == Controller \/ Environment \/ Finished

(* The work queue keeps handing the request to its controller (it retries  *)
(* a failed call, and MaxFaults bounds the failures), and the controller   *)
(* of a special apiVersion keeps running.  The user owes nothing.          *)
Fairness ==
    /\ WF_vars(Controller)
    /\ WF_vars(\E k \in Keys : TeardownController(k))

Spec == Init /\ [][Next]_vars /\ Fairness

-----------------------------------------------------------------------------
(***************************************************************************)
(* Properties                                                              *)
(***************************************************************************)

(* No object outlives its request (spec sections 1 and 3: status.resources *)
(* tracks every subordinate resource the request owns).  Once the          *)
(* finalizer is gone, no object of the target cluster carries the          *)
(* request's owner annotations.                                            *)
NoOrphanAfterDelete == req = "gone" => OwnedLive = {}

(* The same, in the behaviours in which no API call has failed: it is the  *)
(* interleaving of reconciles, spec updates, deletion, the teardown        *)
(* controller and other writers alone that must not leak an object.       *)
FaultFreeNoOrphan == faults = 0 => NoOrphanAfterDelete

(* Orphan cleanup (spec section 8): when a ReconcileResources call in      *)
(* which nothing failed returns, no Source of lastResources that is not    *)
(* expected any more is among the returned ones.                           *)
OrphanCleanup == (pc = "persist" /\ faults = 0) => found \cap (last \ exp) = {}

(* Special-case delete (spec sections 4.5, 4.7 and 8): an object of a      *)
(* graceful-teardown apiVersion is never deleted by the engine; it is      *)
(* handed to its own controller with status.state = "delete".              *)
GracefulTeardown == \A c \in call : c.op = "delete" => c.key \notin Special

(* DeleteSubResources never forgets an object that still exists: when it   *)
(* returns, every subResource whose object is still in the target cluster  *)
(* is among the remaining ones.                                            *)
DeleteKeepsUndeleted == pc = "persistDel" => {k \in last : k \in live} \subseteq found

(* The engine deletes, or hands to graceful teardown, only objects that   *)
(* carry the request's owner annotations: an object that was in the target *)
(* cluster before the request, under a name the templates render, is       *)
(* never deleted by the orphan cleanup or by DeleteSubResources unless the *)
(* engine took it over (DeepUpdate writes the annotations), however        *)
(* status.resources and the request's spec evolved.  Other writers of the  *)
(* model edit and delete objects but do not create them.                   *)
DestructiveCallsOwned ==
    [][\A c \in call' : c.op \in {"delete", "setStateDelete"} => owned[c.key]]_vars

(* DeleteSubResources returns as remaining only Sources whose object is  *)
(* still there: spec 8 (partial-failure resilience) says a Source whose   *)
(* deletion succeeded is not in the remaining set.                         *)
RemainingStillExist == pc = "persistDel" => found \subseteq live

(* The bookkeeping that makes FaultFreeNoOrphan hold, while no API call   *)
(* has failed: an object carrying the request's owner annotations is       *)
(* listed in status.resources or, during a call, among the found ones; a   *)
(* call works on lastResources = status.resources, and every Source it has *)
(* processed is either found again or its object is gone.                  *)
Tracked ==
    /\ pc = "idle" => OwnedLive \subseteq sources
    /\ pc # "idle" => /\ sources = last
                      /\ pending \subseteq last
                      /\ OwnedLive \subseteq sources \cup found
    /\ pc = "apply" => pending = last
    /\ pc \in {"cleanup", "persist", "delete", "persistDel"} =>
          \A k \in last \ pending : k \in found \/ k \notin live
    /\ pc \in {"persist", "persistDel"} => pending = {}
    /\ req = "gone" => pc = "idle" /\ sources = {}

Tracking == faults = 0 => Tracked

(* Once deletion of a request has been asked for, its finalizer is         *)
(* eventually removed.                                                     *)
DeletionCompletes == req = "deleting" ~> req = "gone"

=============================================================================
