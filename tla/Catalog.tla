------------------------------ MODULE Catalog ------------------------------
(***************************************************************************)
(* The two catalog controllers: ReconcilePlan (plan_controller.go) labels a *)
(* plan with its serviceId and planId and makes the service with that id   *)
(* its controller owner; ReconcileSfService (sfservice_controller.go)       *)
(* labels a service with its id.  Each controller has one worker fed by a  *)
(* work queue: a watch event or a returned error marks the object dirty.   *)
(* Both read through the manager's cache and write with Update, which the  *)
(* API server rejects when the object's resourceVersion moved (conflict).  *)
(* A panic in a Reconcile stops the manager process; it restarts and       *)
(* reconciles every object again.  Users edit the services' and the plan's *)
(* ids.                                                                    *)
(***************************************************************************)
EXTENDS Naturals

CONSTANTS
    Svcs,          \* service object names
    IDs,           \* service ids (Spec.ID of a service, Spec.ServiceID of a plan)
    InitLabels,    \* the serviceId label values an object may be created with
    MaxSvcEdits,   \* how often users change a service's id
    MaxPlanEdits,  \* how often users change the plan's service id
    MaxFaults      \* how many API calls fail with a transient error

Absent == "absent"   \* the labels map exists without a serviceId key
NilMap == "nil"      \* the object has no labels map at all
NoSvc  == "none"
PlanObj == "plan"    \* the plan, as one more labelled catalog object

ASSUME CatalogAssumption ==
    /\ IDs # {} /\ Svcs # {}
    /\ NoSvc \notin Svcs /\ PlanObj \notin Svcs
    /\ InitLabels \subseteq IDs \cup {Absent, NilMap}
    /\ InitLabels # {}
    /\ MaxSvcEdits \in Nat /\ MaxPlanEdits \in Nat /\ MaxFaults \in Nat

VARIABLES
    svcID, svcLabel, svcVer,                  \* the services
    planSvc, planLabel, planIdLabeled, planOwner, planVer,   \* the plan
    sDirty, sPc, sCur, sSnap,                 \* service controller
    pDirty, pPc, pSnap, pChosen, pChosenID, pUpdate,   \* plan controller
    crashed, svcEdits, planEdits, faults,
    userSvcID, userPlanSvc                    \* the ids users last wrote

services == <<svcID, svcLabel, svcVer>>
plan == <<planSvc, planLabel, planIdLabeled, planOwner, planVer>>
sctl == <<sDirty, sPc, sCur, sSnap>>
pctl == <<pDirty, pPc, pSnap, pChosen, pChosenID, pUpdate>>
env == <<crashed, svcEdits, planEdits, faults, userSvcID, userPlanSvc>>
vars == <<services, plan, sctl, pctl, env>>

Labels == IDs \cup {Absent, NilMap}
SvcSnaps == [ver : Nat, id : IDs, label : Labels]
PlanSnaps == [ver : Nat, svc : IDs, label : Labels, idLabeled : BOOLEAN,
              owner : Svcs \cup {NoSvc}]

TypeOK ==
    /\ svcID \in [Svcs -> IDs] /\ svcLabel \in [Svcs -> Labels]
    /\ svcVer \in [Svcs -> Nat]
    /\ planSvc \in IDs /\ planLabel \in Labels /\ planIdLabeled \in BOOLEAN
    /\ planOwner \in Svcs \cup {NoSvc} /\ planVer \in Nat
    /\ sDirty \in [Svcs -> BOOLEAN] /\ sPc \in {"idle", "got"}
    /\ sCur \in Svcs /\ sSnap \in SvcSnaps
    /\ pDirty \in BOOLEAN /\ pPc \in {"idle", "got", "listed"}
    /\ pSnap \in PlanSnaps
    /\ pChosen \in Svcs \cup {NoSvc} /\ pChosenID \in IDs
    /\ pUpdate \in BOOLEAN
    /\ crashed \in BOOLEAN
    /\ svcEdits \in 0..MaxSvcEdits /\ planEdits \in 0..MaxPlanEdits
    /\ faults \in 0..MaxFaults
    /\ userSvcID \in [Svcs -> IDs] /\ userPlanSvc \in IDs

(* The catalog as users create it: every object is queued when the        *)
(* controllers start; nothing has been reconciled and no plan has an owner.*)
Init ==
    /\ svcID \in [Svcs -> IDs] /\ svcLabel \in [Svcs -> InitLabels]
    /\ svcVer = [s \in Svcs |-> 0]
    /\ planSvc \in IDs /\ planLabel \in InitLabels
    /\ planIdLabeled \in IF planLabel = NilMap THEN {FALSE} ELSE BOOLEAN
    /\ planOwner = NoSvc /\ planVer = 0
    /\ sDirty = [s \in Svcs |-> TRUE] /\ sPc = "idle"
    /\ sCur = CHOOSE s \in Svcs : TRUE
    /\ sSnap = [ver |-> 0, id |-> planSvc, label |-> Absent]
    /\ pDirty = TRUE /\ pPc = "idle"
    /\ pSnap = [ver |-> 0, svc |-> planSvc, label |-> Absent, idLabeled |-> FALSE,
                 owner |-> NoSvc]
    /\ pChosen = NoSvc /\ pChosenID = planSvc /\ pUpdate = FALSE
    /\ crashed = FALSE /\ svcEdits = 0 /\ planEdits = 0 /\ faults = 0
    /\ userSvcID = svcID /\ userPlanSvc = planSvc

(***************************************************************************)
(* ReconcileSfService.                                                     *)
(***************************************************************************)

(* Mutant: only a missing serviceId label is written, a stale one is kept.*)
LabelPresent(label, id) == label \notin {Absent, NilMap}

(* Mutant: an unconditional Update (no resourceVersion sent).              *)
ConflictIgnored(stored, sent) == FALSE

(* The test of line 91 (and 93): the serviceId label is present and equal  *)
(* to the id.                                                              *)
LabelUpToDate(label, id) == label = id

(* An Update sends the resourceVersion of the object it read; the API      *)
(* server refuses it when the stored object has moved on since.            *)
Conflict(stored, sent) == stored # sent

(* The worker takes a queued service and Gets it from the cache; a failed  *)
(* Get returns the error and the request is queued again.                  *)
ServiceGet(s) ==
    /\ ~crashed /\ sPc = "idle" /\ sDirty[s]
    /\ sCur' = s
    /\ \/ /\ sSnap' = [ver |-> svcVer[s], id |-> svcID[s], label |-> svcLabel[s]]
          /\ sPc' = "got"
          /\ sDirty' = [sDirty EXCEPT ![s] = FALSE]
          /\ UNCHANGED faults
       \/ /\ faults < MaxFaults /\ faults' = faults + 1
          /\ UNCHANGED <<sDirty, sPc, sSnap>>
    /\ UNCHANGED <<services, plan, pctl, crashed, svcEdits, planEdits,
                   userSvcID, userPlanSvc>>

(* Lines 90-99: a label that is absent or differs from Spec.ID is written  *)
(* into the labels map (a nil map panics) and the object is Updated; the   *)
(* Update carries the resourceVersion of the Get, so a service changed in  *)
(* between is a conflict, and any failed Update queues the service again.  *)
(* A written label is a watch event, which queues the service once more.   *)
ServiceUpdate ==
    /\ ~crashed /\ sPc = "got"
    /\ sPc' = "idle"
    /\ LET s == sCur IN
       \/ /\ LabelUpToDate(sSnap.label, sSnap.id)
          /\ UNCHANGED <<services, sDirty, crashed, faults>>
       \/ /\ sSnap.label = NilMap
          /\ crashed' = TRUE
          /\ UNCHANGED <<services, sDirty, faults>>
       \/ /\ ~LabelUpToDate(sSnap.label, sSnap.id) /\ sSnap.label # NilMap
          /\ ~Conflict(svcVer[s], sSnap.ver)
          /\ svcLabel' = [svcLabel EXCEPT ![s] = sSnap.id]
          /\ svcID' = [svcID EXCEPT ![s] = sSnap.id]
          /\ svcVer' = [svcVer EXCEPT ![s] = @ + 1]
          /\ sDirty' = [sDirty EXCEPT ![s] = TRUE]
          /\ UNCHANGED <<crashed, faults>>
       \/ /\ ~LabelUpToDate(sSnap.label, sSnap.id) /\ sSnap.label # NilMap
          /\ \/ Conflict(svcVer[s], sSnap.ver) /\ UNCHANGED faults
             \/ faults < MaxFaults /\ faults' = faults + 1
          /\ sDirty' = [sDirty EXCEPT ![s] = TRUE]
          /\ UNCHANGED <<services, crashed>>
    /\ UNCHANGED <<sCur, sSnap, plan, pctl, svcEdits, planEdits,
                   userSvcID, userPlanSvc>>

(***************************************************************************)
(* ReconcilePlan.                                                          *)
(***************************************************************************)

(* Lines 79-90: the worker takes the queued plan and Gets it.              *)
PlanGet ==
    /\ ~crashed /\ pPc = "idle" /\ pDirty
    /\ \/ /\ pSnap' = [ver |-> planVer, svc |-> planSvc, label |-> planLabel,
                       idLabeled |-> planIdLabeled, owner |-> planOwner]
          /\ pPc' = "got" /\ pDirty' = FALSE
          /\ UNCHANGED faults
       \/ /\ faults < MaxFaults /\ faults' = faults + 1
          /\ UNCHANGED <<pPc, pDirty, pSnap>>
    /\ UNCHANGED <<pChosen, pChosenID, pUpdate, services, plan, sctl, crashed,
                   svcEdits, planEdits, userSvcID, userPlanSvc>>

(* The services a List with label serviceId = id returns from the cache.   *)
Listed(id) == {s \in Svcs : svcLabel[s] = id}

(* Mutant: the error is only logged and Reconcile returns nil.            *)
PlanRequeueDropped == pDirty' = FALSE

(* A Reconcile that returns an error (line 123, 135) is queued again.      *)
PlanRequeue == pDirty' = TRUE

(* Lines 91-150 in one step, since only the List talks to the API server.  *)
(* The labels are fixed in the map (a nil map panics at line 94); the List *)
(* selects on the serviceId label; the loop of lines 117-121 keeps &obj,   *)
(* the address of the loop variable, which after the loop holds the LAST   *)
(* listed item: so when some item has Spec.ID = serviceID the service used *)
(* is the last item, in the List's order, whatever its Spec.ID.  No match  *)
(* is an error.  SetControllerReference fails when the plan already has a  *)
(* controller reference to another service (AlreadyOwned); otherwise the   *)
(* reference is set, and an update is required when a label changed or the *)
(* owner references differ (referSameObject compares kind and name).       *)
PlanList ==
    /\ ~crashed /\ pPc = "got"
    /\ LET id == pSnap.svc
           labelsRequired == ~LabelUpToDate(pSnap.label, id) \/ ~pSnap.idLabeled
       IN
       \/ /\ pSnap.label = NilMap
          /\ crashed' = TRUE /\ pPc' = "idle"
          /\ UNCHANGED <<pDirty, pChosen, pChosenID, pUpdate, faults>>
       \/ /\ pSnap.label # NilMap
          /\ \/ (\A s \in Listed(id) : svcID[s] # id) /\ UNCHANGED faults
             \/ faults < MaxFaults /\ faults' = faults + 1
          /\ pPc' = "idle" /\ PlanRequeue
          /\ UNCHANGED <<crashed, pChosen, pChosenID, pUpdate>>
       \/ /\ pSnap.label # NilMap
          /\ \E s \in Listed(id) : svcID[s] = id
          /\ \E last \in Listed(id) :
               IF pSnap.owner \notin {NoSvc, last}
               THEN /\ pPc' = "idle" /\ PlanRequeue
                    /\ UNCHANGED <<pChosen, pChosenID, pUpdate>>
               ELSE /\ pPc' = "listed"
                    /\ pChosen' = last /\ pChosenID' = svcID[last]
                    /\ pUpdate' = (labelsRequired \/ pSnap.owner # last)
                    /\ UNCHANGED pDirty
          /\ UNCHANGED <<crashed, faults>>
    /\ UNCHANGED <<pSnap, services, plan, sctl, svcEdits, planEdits,
                   userSvcID, userPlanSvc>>

(* Lines 152-160: when required, the labels and the owner reference are   *)
(* written with one Update at the resourceVersion of the Get.  A conflict  *)
(* or another failure queues the plan again; a write is a watch event.    *)
PlanUpdate ==
    /\ ~crashed /\ pPc = "listed"
    /\ pPc' = "idle"
    /\ \/ /\ ~pUpdate
          /\ UNCHANGED <<plan, pDirty, faults>>
       \/ /\ pUpdate /\ ~Conflict(planVer, pSnap.ver)
          /\ planSvc' = pSnap.svc /\ planLabel' = pSnap.svc
          /\ planIdLabeled' = TRUE /\ planOwner' = pChosen
          /\ planVer' = planVer + 1 /\ pDirty' = TRUE
          /\ UNCHANGED faults
       \/ /\ pUpdate
          /\ \/ Conflict(planVer, pSnap.ver) /\ UNCHANGED faults
             \/ faults < MaxFaults /\ faults' = faults + 1
          /\ pDirty' = TRUE
          /\ UNCHANGED plan
    /\ UNCHANGED <<pSnap, pChosen, pChosenID, pUpdate, services, sctl, crashed,
                   svcEdits, planEdits, userSvcID, userPlanSvc>>

(***************************************************************************)
(* The environment.                                                        *)
(***************************************************************************)

(* A user changes a service's id; the watch queues the service.            *)
EditServiceID(s, id) ==
    /\ svcEdits < MaxSvcEdits /\ svcID[s] # id
    /\ svcID' = [svcID EXCEPT ![s] = id]
    /\ svcVer' = [svcVer EXCEPT ![s] = @ + 1]
    /\ sDirty' = [sDirty EXCEPT ![s] = TRUE]
    /\ svcEdits' = svcEdits + 1
    /\ userSvcID' = [userSvcID EXCEPT ![s] = id]
    /\ UNCHANGED <<svcLabel, plan, sPc, sCur, sSnap, pctl, crashed, planEdits,
                   faults, userPlanSvc>>

(* A user points the plan at another service id; the watch queues the plan.*)
EditPlanServiceID(id) ==
    /\ planEdits < MaxPlanEdits /\ planSvc # id
    /\ planSvc' = id /\ planVer' = planVer + 1
    /\ pDirty' = TRUE
    /\ planEdits' = planEdits + 1 /\ userPlanSvc' = id
    /\ UNCHANGED <<services, planLabel, planIdLabeled, planOwner, sctl, pPc,
                   pSnap, pChosen, pChosenID, pUpdate, crashed, svcEdits,
                   faults, userSvcID>>

(* After a panic the manager process restarts: the workers start idle and  *)
(* the initial List of each watch queues every object again.               *)
Restart ==
    /\ crashed
    /\ crashed' = FALSE
    /\ sPc' = "idle" /\ pPc' = "idle"
    /\ sDirty' = [s \in Svcs |-> TRUE] /\ pDirty' = TRUE
    /\ UNCHANGED <<services, plan, sCur, sSnap, pSnap, pChosen, pChosenID,
                   pUpdate, svcEdits, planEdits, faults, userSvcID, userPlanSvc>>

ServiceController == (\E s \in Svcs : ServiceGet(s)) \/ ServiceUpdate
PlanController == PlanGet \/ PlanList \/ PlanUpdate
User == (\E s \in Svcs, id \in IDs : EditServiceID(s, id))
        \/ (\E id \in IDs : EditPlanServiceID(id))

Next == ServiceController \/ PlanController \/ User \/ Restart

(* Each controller's work queue hands every queued request to its worker,  *)
(* and a request that returned an error is queued again with back-off; the *)
(* manager is restarted after a crash (its Deployment).                    *)
Fairness == /\ \A s \in Svcs : WF_vars(ServiceGet(s))
            /\ WF_vars(ServiceUpdate) /\ WF_vars(PlanController)
            /\ WF_vars(Restart)

Spec == Init /\ [][Next]_vars /\ Fairness

-----------------------------------------------------------------------------
(* Properties.                                                             *)

(* No Reconcile panics: neither controller writes into a nil labels map    *)
(* (sfservice_controller.go:92, plan_controller.go:94).                    *)
NoPanic == ~crashed

(* A controller's Update never undoes a user's edit of an id: both         *)
(* controllers write back the whole object they read, so a service or plan *)
(* edited between the Get and the Update must not get its old id back.     *)
SpecNeverReverted == svcID = userSvcID /\ planSvc = userPlanSvc

(* The service ReconcilePlan is about to make the plan's controller owner  *)
(* is, in the List it was chosen from, a service whose Spec.ID is the      *)
(* plan's serviceId: what the loop of plan_controller.go:117-121 tests.    *)
OwnerMatchesList == pPc = "listed" => pChosenID = pSnap.svc

(* Every service's serviceId label eventually equals its id for good, once *)
(* users stop editing: ReconcileSfService keeps relabelling.               *)
ServiceLabelsConverge == <>[](\A s \in Svcs : svcLabel[s] = svcID[s])

(* The plan eventually carries for good its service id as label and the   *)
(* service with that id as controller owner: ReconcilePlan's purpose.      *)
PlanFollowsSpec ==
    <>[](/\ planLabel = planSvc /\ planIdLabeled
         /\ planOwner # NoSvc /\ svcID[planOwner] = planSvc)

-----------------------------------------------------------------------------
(* Refinement: the services and the plan seen only through their ids and  *)
(* serviceId labels.                                                      *)

absIds == [o \in Svcs \cup {PlanObj} |-> IF o = PlanObj THEN planSvc ELSE svcID[o]]
absLabels == [o \in Svcs \cup {PlanObj} |->
                 IF o = PlanObj THEN planLabel ELSE svcLabel[o]]

Abs == INSTANCE CatalogLabels
           WITH Objects <- Svcs \cup {PlanObj}, Services <- Svcs,
                IDs <- IDs, Labels <- Labels,
                ids <- absIds, labels <- absLabels

(* The two controllers implement atomic relabelling: every Get/Update pair *)
(* of ReconcileSfService and ReconcilePlan, interleaved with users' edits, *)
(* changes a label only to the object's current id and never changes an id *)
(* (the resourceVersion check makes the pair behave as one step), and a    *)
(* service with a wrong label is eventually relabelled.                    *)
AbsSpec == Abs!Spec
=============================================================================
