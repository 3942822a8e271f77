-------------------------- MODULE Reconciler_proofs --------------------------
(***************************************************************************)
(* Proofs about Reconciler for every value of its constants: the type      *)
(* invariant, and that without a failed API call no object carrying the    *)
(* request's owner annotations outlives the request.                       *)
(***************************************************************************)
EXTENDS Reconciler, TLAPS

USE ConstantsAssumption

-----------------------------------------------------------------------------
(* Type correctness.                                                       *)

LEMMA InitTypeOK == Init => TypeOK
<1> SUFFICES ASSUME Init PROVE TypeOK
    OBVIOUS
<1>1. owned \in [Keys -> BOOLEAN] /\ teardown \in [Keys -> BOOLEAN]
    BY DEF Init
<1>2. changes \in 0..MaxChanges /\ faults \in 0..MaxFaults
    BY DEF Init
<1>3. call \subseteq [op : Ops, key : Keys]
    BY DEF Init, NoCall
<1>4. pc \in {"idle", "apply", "cleanup", "persist", "delete", "persistDel"}
    BY DEF Init
<1>5. QED
    BY <1>1, <1>2, <1>3, <1>4 DEF Init, TypeOK

LEMMA CallTyped ==
    ASSUME NEW op \in Ops, NEW k \in Keys
    PROVE  Call(op, k) \subseteq [op : Ops, key : Keys]
BY DEF Call

LEMMA NextTypeOK == TypeOK /\ [Next]_vars => TypeOK'
<1> SUFFICES ASSUME TypeOK, [Next]_vars PROVE TypeOK'
    OBVIOUS
<1> USE DEF TypeOK, NoCall, TransientFailure
<1>1. CASE StartReconcile
    BY <1>1 DEF StartReconcile, request, cluster
<1>2. ASSUME NEW k \in Keys, ReconcileApply(k) PROVE TypeOK'
    <2>1. CASE ResourceCreated(k)
        BY <1>2, <2>1, CallTyped DEF ReconcileApply, ResourceCreated, Ops, request
    <2>2. CASE ResourceUpdated(k)
        BY <1>2, <2>2, CallTyped DEF ReconcileApply, ResourceUpdated, Ops, request
    <2>3. CASE ResourceUpToDate(k)
        BY <1>2, <2>3 DEF ReconcileApply, ResourceUpToDate, request
    <2>4. QED
        BY <1>2, <2>1, <2>2, <2>3 DEF ReconcileApply
<1>3. CASE ReconcileApplyFails
    BY <1>3 DEF ReconcileApplyFails, cluster, request
<1>4. CASE ReconcileApplyDone
    BY <1>4 DEF ReconcileApplyDone, cluster, request
<1>5. ASSUME NEW k \in Keys, ReconcileCleanup(k) PROVE TypeOK'
    BY <1>5, CallTyped DEF ReconcileCleanup, Ops, request
<1>6. CASE ReconcileCleanupDone
    BY <1>6 DEF ReconcileCleanupDone, cluster, request
<1>7. CASE PersistSources
    BY <1>7 DEF PersistSources, cluster
<1>8. CASE StartDeleteSubResources
    BY <1>8 DEF StartDeleteSubResources, cluster, request
<1>9. ASSUME NEW k \in Keys, DeleteSubResource(k) PROVE TypeOK'
    <2>1. CASE SubResourceNotFound(k)
        BY <1>9, <2>1 DEF DeleteSubResource, SubResourceNotFound, request
    <2>2. CASE SubResourceDeleted(k)
        BY <1>9, <2>2, CallTyped DEF DeleteSubResource, SubResourceDeleted, Ops, request
    <2>3. CASE SubResourceMarkedForDelete(k)
        BY <1>9, <2>3, CallTyped DEF DeleteSubResource, SubResourceMarkedForDelete, Ops, request
    <2>4. CASE SubResourceDeleteFailed(k)
        BY <1>9, <2>4 DEF DeleteSubResource, SubResourceDeleteFailed, request
    <2>5. QED
        BY <1>9, <2>1, <2>2, <2>3, <2>4 DEF DeleteSubResource
<1>10. CASE DeleteSubResourcesDone
    BY <1>10 DEF DeleteSubResourcesDone, cluster, request
<1>11. CASE PersistRemaining
    BY <1>11 DEF PersistRemaining, cluster
<1>12. CASE UpdateRequest
    BY <1>12 DEF UpdateRequest, cluster, engine
<1>13. CASE DeleteRequest
    BY <1>13 DEF DeleteRequest, cluster, engine
<1>14. ASSUME NEW k \in Keys, TeardownController(k) PROVE TypeOK'
    BY <1>14 DEF TeardownController, request, engine
<1>15. ASSUME NEW k \in Keys, ExternalDelete(k) PROVE TypeOK'
    BY <1>15 DEF ExternalDelete, request, engine
<1>16. ASSUME NEW k \in Keys, ExternalEdit(k) PROVE TypeOK'
    BY <1>16 DEF ExternalEdit, request, engine
<1>17. CASE Finished \/ UNCHANGED vars
    BY <1>17 DEF Finished, vars, cluster, request, engine
<1>18. QED
    BY <1>1, <1>2, <1>3, <1>4, <1>5, <1>6, <1>7, <1>8, <1>9, <1>10,
       <1>11, <1>12, <1>13, <1>14, <1>15, <1>16, <1>17
    DEF Next, Controller, Environment

(* The type invariant holds in every reachable state.                      *)
THEOREM TypeCorrect == Spec => []TypeOK
BY InitTypeOK, NextTypeOK, PTL DEF Spec

-----------------------------------------------------------------------------
(* The failure counter never decreases.                                    *)

LEMMA FaultsMonotone == TypeOK /\ [Next]_vars => faults <= faults'
<1> SUFFICES ASSUME TypeOK, [Next]_vars PROVE faults <= faults'
    OBVIOUS
<1> USE DEF TypeOK, TransientFailure
<1>1. CASE Controller
    <2>1. ASSUME NEW k \in Keys, ReconcileApply(k) PROVE faults <= faults'
        BY <2>1 DEF ReconcileApply
    <2>2. ASSUME NEW k \in Keys, ReconcileCleanup(k) PROVE faults <= faults'
        BY <2>2 DEF ReconcileCleanup
    <2>3. ASSUME NEW k \in Keys, DeleteSubResource(k) PROVE faults <= faults'
        BY <2>3 DEF DeleteSubResource, SubResourceNotFound, SubResourceDeleted,
                    SubResourceMarkedForDelete, SubResourceDeleteFailed
    <2>4. QED
        BY <1>1, <2>1, <2>2, <2>3
        DEF Controller, StartReconcile, ReconcileApplyFails, ReconcileApplyDone,
            ReconcileCleanupDone, PersistSources, StartDeleteSubResources,
            DeleteSubResourcesDone, PersistRemaining, engine
<1>2. CASE Environment \/ Finished \/ UNCHANGED vars
    BY <1>2 DEF Environment, Finished, UpdateRequest, DeleteRequest,
                TeardownController, ExternalDelete, ExternalEdit, vars, engine
<1>3. QED
    BY <1>1, <1>2 DEF Next

-----------------------------------------------------------------------------
(* Tracking: the steps that keep Tracked while no call has failed.         *)

LEMMA InitTracking == Init => Tracking
BY DEF Init, Tracking, Tracked, OwnedLive

(* The hypotheses of one step that keeps faults at 0.                      *)
FaultFreeStep == TypeOK /\ Tracked /\ faults = 0 /\ faults' = 0

LEMMA StartReconcileTracked ==
    FaultFreeStep /\ StartReconcile => Tracked'
BY DEF FaultFreeStep, StartReconcile, Tracked, OwnedLive, TypeOK, cluster, request

LEMMA ReconcileApplyTracked ==
    ASSUME NEW k \in Keys, FaultFreeStep, ReconcileApply(k) PROVE Tracked'
BY DEF FaultFreeStep, ReconcileApply, ResourceCreated, ResourceUpdated, ResourceUpToDate,
       Tracked, OwnedLive, TypeOK, request

LEMMA ReconcileApplyFailsTracked ==
    FaultFreeStep /\ ReconcileApplyFails => Tracked'
BY DEF FaultFreeStep, ReconcileApplyFails, TransientFailure

LEMMA ReconcileApplyDoneTracked ==
    FaultFreeStep /\ ReconcileApplyDone => Tracked'
BY DEF FaultFreeStep, ReconcileApplyDone, Tracked, OwnedLive, TypeOK, cluster, request

LEMMA ReconcileCleanupTracked ==
    ASSUME NEW k \in Keys, FaultFreeStep, ReconcileCleanup(k) PROVE Tracked'
BY DEF FaultFreeStep, ReconcileCleanup, TransientFailure, Tracked, OwnedLive, TypeOK, request

LEMMA ReconcileCleanupDoneTracked ==
    FaultFreeStep /\ ReconcileCleanupDone => Tracked'
BY DEF FaultFreeStep, ReconcileCleanupDone, Tracked, OwnedLive, TypeOK, cluster, request

LEMMA PersistSourcesTracked ==
    FaultFreeStep /\ PersistSources => Tracked'
BY DEF FaultFreeStep, PersistSources, TransientFailure, Tracked, OwnedLive, TypeOK, cluster

LEMMA StartDeleteSubResourcesTracked ==
    FaultFreeStep /\ StartDeleteSubResources => Tracked'
BY DEF FaultFreeStep, StartDeleteSubResources, Tracked, OwnedLive, TypeOK, cluster, request

LEMMA DeleteSubResourceTracked ==
    ASSUME NEW k \in Keys, FaultFreeStep, DeleteSubResource(k) PROVE Tracked'
BY DEF FaultFreeStep, DeleteSubResource, SubResourceNotFound, SubResourceDeleted,
       SubResourceMarkedForDelete, SubResourceDeleteFailed, TransientFailure,
       Tracked, OwnedLive, TypeOK, request

LEMMA DeleteSubResourcesDoneTracked ==
    FaultFreeStep /\ DeleteSubResourcesDone => Tracked'
BY DEF FaultFreeStep, DeleteSubResourcesDone, Tracked, OwnedLive, TypeOK, cluster, request

LEMMA PersistRemainingTracked ==
    FaultFreeStep /\ PersistRemaining => Tracked'
BY DEF FaultFreeStep, PersistRemaining, TransientFailure, Tracked, OwnedLive, TypeOK, cluster

LEMMA EnvironmentTracked ==
    FaultFreeStep /\ (Environment \/ Finished \/ UNCHANGED vars) => Tracked'
BY DEF FaultFreeStep, Environment, Finished, UpdateRequest, DeleteRequest,
       TeardownController, ExternalDelete, ExternalEdit,
       Tracked, OwnedLive, TypeOK, vars, cluster, request, engine

LEMMA NextTracking == TypeOK /\ Tracking /\ [Next]_vars => Tracking'
<1> SUFFICES ASSUME TypeOK, Tracking, [Next]_vars, faults' = 0 PROVE Tracked'
    BY DEF Tracking
<1>1. faults = 0
    BY FaultsMonotone DEF TypeOK
<1>2. FaultFreeStep
    BY <1>1 DEF FaultFreeStep, Tracking
<1>3. CASE Controller
    BY <1>2, <1>3, StartReconcileTracked, ReconcileApplyTracked, ReconcileApplyFailsTracked,
       ReconcileApplyDoneTracked, ReconcileCleanupTracked, ReconcileCleanupDoneTracked,
       PersistSourcesTracked, StartDeleteSubResourcesTracked, DeleteSubResourceTracked,
       DeleteSubResourcesDoneTracked, PersistRemainingTracked
    DEF Controller
<1>4. CASE Environment \/ Finished \/ UNCHANGED vars
    BY <1>2, <1>4, EnvironmentTracked
<1>5. QED
    BY <1>3, <1>4 DEF Next

(* While no API call has failed, every object that carries the request's   *)
(* owner annotations is listed in status.resources or among the resources *)
(* the call in progress has found (the inductive form of the property).    *)
THEOREM TrackingInvariant == Spec => []Tracking
BY TypeCorrect, InitTracking, NextTracking, PTL DEF Spec

(* While no API call has failed, once the request's finalizer is removed   *)
(* no object of the target cluster carries its owner annotations: the      *)
(* reconciles, the spec updates, the deletion rounds, the teardown         *)
(* controller and the other writers of the cluster cannot leak an object. *)
THEOREM FaultFreeNoOrphanInvariant == Spec => []FaultFreeNoOrphan
<1>1. Tracking => FaultFreeNoOrphan
    BY DEF Tracking, Tracked, FaultFreeNoOrphan, NoOrphanAfterDelete
<1>2. QED
    BY TrackingInvariant, <1>1, PTL

-----------------------------------------------------------------------------
(* A deletion round.  DeleteKeepsUndeleted is not inductive by itself: it  *)
(* speaks of the end of the round, and during the round every Source       *)
(* already handled must be remembered as remaining unless its object is    *)
(* gone.  That is kept because no step creates an object outside the apply *)
(* loop of ReconcileResources, so the set of live objects only shrinks    *)
(* while a deletion round is in progress.                                  *)
DeleteRound ==
    /\ pc \in {"delete", "persistDel"} =>
          \A k \in last \ pending : k \in live => k \in found
    /\ pc = "persistDel" => pending = {}

LEMMA InitDeleteRound == Init => DeleteRound
BY DEF Init, DeleteRound

LEMMA NextDeleteRound == TypeOK /\ DeleteRound /\ [Next]_vars => DeleteRound'
<1> SUFFICES ASSUME TypeOK, DeleteRound, [Next]_vars PROVE DeleteRound'
    OBVIOUS
<1> USE DEF DeleteRound
<1>1. CASE StartReconcile \/ ReconcileApplyFails \/ ReconcileApplyDone
             \/ ReconcileCleanupDone \/ PersistSources \/ PersistRemaining
    BY <1>1 DEF StartReconcile, ReconcileApplyFails, ReconcileApplyDone,
                ReconcileCleanupDone, PersistSources, PersistRemaining
<1>2. ASSUME NEW k \in Keys, ReconcileApply(k) \/ ReconcileCleanup(k)
      PROVE  DeleteRound'
    BY <1>2 DEF ReconcileApply, ReconcileCleanup
<1>3. CASE StartDeleteSubResources
    BY <1>3 DEF StartDeleteSubResources
<1>4. ASSUME NEW k \in Keys, DeleteSubResource(k) PROVE DeleteRound'
    <2>1. /\ pc' = "delete" /\ last' = last /\ pending' = pending \ {k}
          /\ k \in pending /\ live' \subseteq live /\ found \subseteq found'
        BY <1>4 DEF DeleteSubResource, SubResourceNotFound, SubResourceDeleted,
                    SubResourceMarkedForDelete, SubResourceDeleteFailed
    <2>2. k \in live' => k \in found'
        BY <1>4 DEF DeleteSubResource, SubResourceNotFound, SubResourceDeleted,
                    SubResourceMarkedForDelete, SubResourceDeleteFailed
    <2>3. QED
        BY <1>4, <2>1, <2>2 DEF DeleteSubResource
<1>5. CASE DeleteSubResourcesDone
    BY <1>5 DEF DeleteSubResourcesDone, cluster, request
<1>6. CASE Environment \/ Finished \/ UNCHANGED vars
    BY <1>6 DEF Environment, Finished, UpdateRequest, DeleteRequest,
                TeardownController, ExternalDelete, ExternalEdit, vars, engine,
                cluster, request
<1>7. QED
    BY <1>1, <1>2, <1>3, <1>4, <1>5, <1>6 DEF Next, Controller

(* Whether or not API calls fail, a round of DeleteSubResources returns    *)
(* every subResource whose object is still in the target cluster among the *)
(* remaining ones, so the finalizer is never removed while one is left.    *)
THEOREM DeleteKeepsUndeletedInvariant == Spec => []DeleteKeepsUndeleted
<1>1. Init => TypeOK /\ DeleteRound
    BY InitTypeOK, InitDeleteRound
<1>2. TypeOK /\ DeleteRound /\ [Next]_vars => TypeOK' /\ DeleteRound'
    BY NextTypeOK, NextDeleteRound
<1>3. DeleteRound => DeleteKeepsUndeleted
    BY DEF DeleteRound, DeleteKeepsUndeleted
<1>4. QED
    BY <1>1, <1>2, <1>3, PTL DEF Spec

-----------------------------------------------------------------------------
(* Destructive calls.  Every Source the engine keeps (in status.resources, *)
(* in the lastResources of a call, or found by it) names an object that    *)
(* carries the request's owner annotations; annotations are never removed. *)
SourcesOwned ==
    /\ pending \subseteq last
    /\ \A k \in sources \cup last \cup found : owned[k]

LEMMA InitSourcesOwned == Init => SourcesOwned
BY DEF Init, SourcesOwned

(* Every step keeps the owner annotations of every object.                 *)
LEMMA OwnedMonotone ==
    TypeOK /\ [Next]_vars => \A k \in Keys : owned[k] => owned'[k]
<1> SUFFICES ASSUME TypeOK, [Next]_vars, NEW k \in Keys, owned[k]
             PROVE  owned'[k]
    OBVIOUS
<1> USE DEF TypeOK
<1>1. ASSUME NEW j \in Keys, ReconcileApply(j) PROVE owned'[k]
    BY <1>1 DEF ReconcileApply, ResourceCreated, ResourceUpdated, ResourceUpToDate
<1>2. CASE Controller /\ ~\E j \in Keys : ReconcileApply(j)
    BY <1>2 DEF Controller, StartReconcile, ReconcileApplyFails, ReconcileApplyDone,
                ReconcileCleanup, ReconcileCleanupDone, PersistSources,
                StartDeleteSubResources, DeleteSubResource, DeleteSubResourcesDone,
                PersistRemaining, cluster
<1>3. CASE Environment \/ Finished \/ UNCHANGED vars
    BY <1>3 DEF Environment, Finished, UpdateRequest, DeleteRequest,
                TeardownController, ExternalDelete, ExternalEdit, vars, cluster
<1>4. QED
    BY <1>1, <1>2, <1>3 DEF Next

LEMMA NextSourcesOwned ==
    TypeOK /\ SourcesOwned /\ [Next]_vars => SourcesOwned'
<1> SUFFICES ASSUME TypeOK, SourcesOwned, [Next]_vars PROVE SourcesOwned'
    OBVIOUS
<1>0. \A k \in Keys : owned[k] => owned'[k]
    BY OwnedMonotone
<1> USE DEF SourcesOwned, TypeOK
<1>1. CASE StartReconcile \/ StartDeleteSubResources
    BY <1>0, <1>1 DEF StartReconcile, StartDeleteSubResources, request
<1>2. CASE ReconcileApplyFails \/ ReconcileApplyDone \/ ReconcileCleanupDone
             \/ DeleteSubResourcesDone
    BY <1>0, <1>2 DEF ReconcileApplyFails, ReconcileApplyDone, ReconcileCleanupDone,
                      DeleteSubResourcesDone, request
<1>3. CASE PersistSources \/ PersistRemaining
    BY <1>0, <1>3 DEF PersistSources, PersistRemaining
<1>4. ASSUME NEW k \in Keys, ReconcileApply(k) PROVE SourcesOwned'
    <2>1. owned'[k]
        BY <1>4 DEF ReconcileApply, ResourceCreated, ResourceUpdated,
                    ResourceUpToDate, NeedsUpdate
    <2>2. QED
        BY <1>0, <1>4, <2>1 DEF ReconcileApply, ResourceCreated, ResourceUpdated,
                                ResourceUpToDate, request
<1>5. ASSUME NEW k \in Keys, ReconcileCleanup(k) PROVE SourcesOwned'
    BY <1>0, <1>5 DEF ReconcileCleanup, request
<1>6. ASSUME NEW k \in Keys, DeleteSubResource(k) PROVE SourcesOwned'
    BY <1>0, <1>6 DEF DeleteSubResource, SubResourceNotFound, SubResourceDeleted,
                      SubResourceMarkedForDelete, SubResourceDeleteFailed, request
<1>7. CASE Environment \/ Finished \/ UNCHANGED vars
    BY <1>0, <1>7 DEF Environment, Finished, UpdateRequest, DeleteRequest,
                      TeardownController, ExternalDelete, ExternalEdit, vars,
                      engine, request
<1>8. QED
    BY <1>1, <1>2, <1>3, <1>4, <1>5, <1>6, <1>7 DEF Next, Controller

(* One step: a delete or teardown request names an owned object.           *)
OwnedWrites ==
    \A c \in call' : c.op \in {"delete", "setStateDelete"} => owned[c.key]

LEMMA NextOwnedWrites ==
    TypeOK /\ SourcesOwned /\ [Next]_vars => [OwnedWrites]_vars
<1> SUFFICES ASSUME TypeOK, SourcesOwned, [Next]_vars PROVE [OwnedWrites]_vars
    OBVIOUS
<1> USE DEF OwnedWrites, NoCall, Call
<1>1. ASSUME NEW k \in Keys, ReconcileCleanup(k) PROVE OwnedWrites
    BY <1>1 DEF ReconcileCleanup, SourcesOwned
<1>2. ASSUME NEW k \in Keys, DeleteSubResource(k) PROVE OwnedWrites
    BY <1>2 DEF DeleteSubResource, SubResourceNotFound, SubResourceDeleted,
                SubResourceMarkedForDelete, SubResourceDeleteFailed, SourcesOwned
<1>3. ASSUME NEW k \in Keys, ReconcileApply(k) PROVE OwnedWrites
    BY <1>3 DEF ReconcileApply, ResourceCreated, ResourceUpdated, ResourceUpToDate
<1>4. CASE StartReconcile \/ ReconcileApplyFails \/ ReconcileApplyDone
             \/ ReconcileCleanupDone \/ PersistSources \/ StartDeleteSubResources
             \/ DeleteSubResourcesDone \/ PersistRemaining
    BY <1>4 DEF StartReconcile, ReconcileApplyFails, ReconcileApplyDone,
                ReconcileCleanupDone, PersistSources, StartDeleteSubResources,
                DeleteSubResourcesDone, PersistRemaining
<1>5. CASE Environment
    BY <1>5 DEF Environment, UpdateRequest, DeleteRequest, TeardownController,
                ExternalDelete, ExternalEdit
<1>6. CASE Finished \/ UNCHANGED vars
    BY <1>6 DEF Finished, vars
<1>7. QED
    BY <1>1, <1>2, <1>3, <1>4, <1>5, <1>6 DEF Next, Controller

(* Whatever the interleaving of reconciles, spec updates, failed calls,    *)
(* deletion rounds and other writers, the engine never deletes (or marks   *)
(* for graceful teardown) an object that does not carry the request's      *)
(* owner annotations.                                                      *)
THEOREM DestructiveCallsOwnedProperty == Spec => DestructiveCallsOwned
<1>1. Init => TypeOK /\ SourcesOwned
    BY InitTypeOK, InitSourcesOwned
<1>2. TypeOK /\ SourcesOwned /\ [Next]_vars => TypeOK' /\ SourcesOwned'
    BY NextTypeOK, NextSourcesOwned
<1>3. TypeOK /\ SourcesOwned /\ [Next]_vars => [OwnedWrites]_vars
    BY NextOwnedWrites
<1>4. QED
    BY <1>1, <1>2, <1>3, PTL DEF Spec, DestructiveCallsOwned, OwnedWrites

=============================================================================
