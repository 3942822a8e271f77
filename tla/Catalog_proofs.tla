--------------------------- MODULE Catalog_proofs ---------------------------
(***************************************************************************)
(* Proofs about Catalog for every number of services, ids, edits and      *)
(* faults: the type invariant, and that neither controller's Update ever   *)
(* gives a service or the plan back an id a user has replaced.            *)
(***************************************************************************)
EXTENDS Catalog, TLAPS

USE CatalogAssumption

-----------------------------------------------------------------------------
(* Type correctness.                                                       *)

LEMMA InitTypeOK == Init => TypeOK
<1> SUFFICES ASSUME Init PROVE TypeOK
    OBVIOUS
<1>1. sCur \in Svcs
    BY DEF Init
<1>2. sSnap \in SvcSnaps
    BY DEF Init, SvcSnaps, Labels
<1>3. pSnap \in PlanSnaps
    BY DEF Init, PlanSnaps, Labels
<1>4. planLabel \in Labels /\ svcLabel \in [Svcs -> Labels]
    BY DEF Init, Labels
<1>5. planIdLabeled \in BOOLEAN
    <2>1. CASE planLabel = NilMap
        BY <2>1 DEF Init
    <2>2. CASE planLabel # NilMap
        BY <2>2 DEF Init
    <2>3. QED
        BY <2>1, <2>2
<1>6. svcVer \in [Svcs -> Nat] /\ sDirty \in [Svcs -> BOOLEAN]
    BY DEF Init
<1>7. /\ svcEdits \in 0..MaxSvcEdits /\ planEdits \in 0..MaxPlanEdits
      /\ faults \in 0..MaxFaults
    BY DEF Init
<1>8. svcID \in [Svcs -> IDs] /\ planSvc \in IDs
    BY DEF Init
<1>9. planOwner \in Svcs \cup {NoSvc} /\ planVer \in Nat
    BY DEF Init
<1>10. sPc \in {"idle", "got"} /\ pDirty \in BOOLEAN /\ pPc \in {"idle", "got", "listed"}
    BY DEF Init
<1>11. pChosen \in Svcs \cup {NoSvc} /\ pChosenID \in IDs
    BY DEF Init, NoSvc
<1>14. pUpdate \in BOOLEAN /\ crashed \in BOOLEAN
    BY Zenon DEF Init
<1>12. userSvcID \in [Svcs -> IDs] /\ userPlanSvc \in IDs
    BY DEF Init
<1>13. QED
    BY <1>1, <1>2, <1>3, <1>4, <1>5, <1>6, <1>7, <1>8, <1>9, <1>10, <1>11,
       <1>12, <1>14 DEF TypeOK

LEMMA NextTypeOK == TypeOK /\ [Next]_vars => TypeOK'
<1> SUFFICES ASSUME TypeOK, [Next]_vars PROVE TypeOK'
    OBVIOUS
<1> USE DEF TypeOK, services, plan, sctl, pctl, env
<1>1. ASSUME NEW s \in Svcs, ServiceGet(s) PROVE TypeOK'
    <2>1. sCur' \in Svcs
        BY <1>1 DEF ServiceGet
    <2>2. CASE /\ sSnap' = [ver |-> svcVer[s], id |-> svcID[s], label |-> svcLabel[s]]
               /\ sPc' = "got"
               /\ sDirty' = [sDirty EXCEPT ![s] = FALSE]
               /\ UNCHANGED faults
        <3>1. sSnap' \in SvcSnaps
            BY <2>2 DEF SvcSnaps
        <3>2. QED
            BY <1>1, <2>1, <2>2, <3>1 DEF ServiceGet
    <2>3. CASE /\ faults < MaxFaults /\ faults' = faults + 1
               /\ UNCHANGED <<sDirty, sPc, sSnap>>
        BY <1>1, <2>1, <2>3 DEF ServiceGet
    <2>4. QED
        BY <1>1, <2>2, <2>3 DEF ServiceGet
<1>2. CASE ServiceUpdate
    <2> USE <1>2 DEF ServiceUpdate
    <2>1. /\ svcLabel' \in [Svcs -> Labels] /\ svcID' \in [Svcs -> IDs]
          /\ svcVer' \in [Svcs -> Nat]
        BY DEF SvcSnaps, Labels
    <2>2. sDirty' \in [Svcs -> BOOLEAN] /\ crashed' \in BOOLEAN
        BY Zenon
    <2>3. faults' \in 0..MaxFaults
        OBVIOUS
    <2>4. UNCHANGED <<sCur, sSnap, plan, pctl, svcEdits, planEdits,
                      userSvcID, userPlanSvc>> /\ sPc' = "idle"
        OBVIOUS
    <2>5. QED
        BY <2>1, <2>2, <2>3, <2>4
<1>3. CASE PlanGet
    <2>1. [ver |-> planVer, svc |-> planSvc, label |-> planLabel,
           idLabeled |-> planIdLabeled, owner |-> planOwner] \in PlanSnaps
        BY Zenon DEF PlanSnaps
    <2>2. /\ pSnap' \in PlanSnaps
          /\ pPc' \in {"idle", "got", "listed"} /\ pDirty' \in BOOLEAN
          /\ faults' = faults \/ (faults < MaxFaults /\ faults' = faults + 1)
        BY <1>3, <2>1, Zenon DEF PlanGet
    <2>3. faults' \in 0..MaxFaults
        BY <2>2
    <2>4. QED
        BY <1>3, <2>2, <2>3 DEF PlanGet
<1>4. CASE PlanList
    <2> USE <1>4 DEF PlanList
    <2>1. pChosen' \in Svcs \cup {NoSvc} /\ pChosenID' \in IDs
        BY DEF Listed
    <2>2. pUpdate' \in BOOLEAN /\ pDirty' \in BOOLEAN /\ crashed' \in BOOLEAN
        BY Zenon DEF PlanRequeue
    <2>3. pPc' \in {"idle", "got", "listed"} /\ faults' \in 0..MaxFaults
        OBVIOUS
    <2>4. QED
        BY <2>1, <2>2, <2>3
<1>5. CASE PlanUpdate
    <2> USE <1>5 DEF PlanUpdate
    <2>1. /\ planSvc' \in IDs /\ planLabel' \in Labels
          /\ planOwner' \in Svcs \cup {NoSvc} /\ planVer' \in Nat
        BY DEF PlanSnaps, Labels
    <2>2. planIdLabeled' \in BOOLEAN /\ pDirty' \in BOOLEAN
        BY Zenon
    <2>3. faults' \in 0..MaxFaults
        OBVIOUS
    <2>4. QED
        BY <2>1, <2>2, <2>3
<1>6. ASSUME NEW s \in Svcs, NEW id \in IDs, EditServiceID(s, id) PROVE TypeOK'
    BY <1>6 DEF EditServiceID
<1>7. ASSUME NEW id \in IDs, EditPlanServiceID(id) PROVE TypeOK'
    BY <1>7 DEF EditPlanServiceID
<1>8. CASE Restart
    <2>1. sDirty' \in [Svcs -> BOOLEAN] /\ pDirty' \in BOOLEAN /\ crashed' \in BOOLEAN
        BY <1>8, Zenon DEF Restart
    <2>2. QED
        BY <1>8, <2>1 DEF Restart
<1>9. CASE UNCHANGED vars
    BY <1>9 DEF vars, services, plan, sctl, pctl, env
<1>10. QED
    BY <1>1, <1>2, <1>3, <1>4, <1>5, <1>6, <1>7, <1>8, <1>9
       DEF Next, ServiceController, PlanController, User

(* Every reachable state of Catalog is well typed.                         *)
THEOREM TypeCorrect == Spec => []TypeOK
BY InitTypeOK, NextTypeOK, PTL DEF Spec

-----------------------------------------------------------------------------
(* No id is reverted.  SpecNeverReverted is not inductive by itself: an    *)
(* Update writes back the id of the snapshot its Get took, which is the    *)
(* current id only while the object's resourceVersion has not moved, and   *)
(* the version moves with every write and never comes back.               *)
SnapshotsCurrent ==
    /\ SpecNeverReverted
    /\ sPc = "got" => /\ sSnap.ver <= svcVer[sCur]
                      /\ sSnap.ver = svcVer[sCur] => sSnap.id = svcID[sCur]
    /\ pPc \in {"got", "listed"} =>
           /\ pSnap.ver <= planVer
           /\ pSnap.ver = planVer => pSnap.svc = planSvc

LEMMA InitSnapshotsCurrent == Init => SnapshotsCurrent
BY DEF Init, SnapshotsCurrent, SpecNeverReverted

LEMMA NextSnapshotsCurrent ==
    TypeOK /\ SnapshotsCurrent /\ [Next]_vars => SnapshotsCurrent'
<1> SUFFICES ASSUME TypeOK, SnapshotsCurrent, [Next]_vars
             PROVE  SnapshotsCurrent'
    OBVIOUS
<1> USE DEF SnapshotsCurrent, SpecNeverReverted, TypeOK, services, plan, sctl,
           pctl, env
<1>1. ASSUME NEW s \in Svcs, ServiceGet(s) PROVE SnapshotsCurrent'
    BY <1>1 DEF ServiceGet
<1>2. CASE ServiceUpdate
    BY <1>2 DEF ServiceUpdate, LabelUpToDate, Conflict
<1>3. CASE PlanGet
    <2>1. /\ pSnap' = [ver |-> planVer, svc |-> planSvc, label |-> planLabel,
                        idLabeled |-> planIdLabeled, owner |-> planOwner]
             /\ pPc' = "got"
          \/ UNCHANGED <<pPc, pSnap>>
        BY <1>3, Zenon DEF PlanGet
    <2>2. UNCHANGED <<services, plan, sPc, sCur, sSnap, userSvcID, userPlanSvc>>
        BY <1>3, Zenon DEF PlanGet
    <2>3. QED
        BY <2>1, <2>2
<1>4. CASE PlanList
    BY <1>4 DEF PlanList, PlanRequeue
<1>5. CASE PlanUpdate
    BY <1>5 DEF PlanUpdate, Conflict
<1>6. ASSUME NEW s \in Svcs, NEW id \in IDs, EditServiceID(s, id)
      PROVE  SnapshotsCurrent'
    <2>1. /\ svcID' = [svcID EXCEPT ![s] = id]
          /\ svcVer' = [svcVer EXCEPT ![s] = @ + 1]
          /\ userSvcID' = [userSvcID EXCEPT ![s] = id]
          /\ UNCHANGED <<plan, sPc, sCur, sSnap, pPc, pSnap, userPlanSvc>>
        BY <1>6, Zenon DEF EditServiceID
    <2>2. QED
        BY <2>1 DEF SvcSnaps
<1>7. ASSUME NEW id \in IDs, EditPlanServiceID(id) PROVE SnapshotsCurrent'
    <2>1. /\ planSvc' = id /\ planVer' = planVer + 1 /\ userPlanSvc' = id
          /\ UNCHANGED <<services, sPc, sCur, sSnap, pPc, pSnap, userSvcID>>
        BY <1>7, Zenon DEF EditPlanServiceID
    <2>2. QED
        BY <2>1 DEF PlanSnaps
<1>8. CASE Restart
    BY <1>8 DEF Restart
<1>9. CASE UNCHANGED vars
    BY <1>9 DEF vars, services, plan, sctl, pctl, env
<1>10. QED
    BY <1>1, <1>2, <1>3, <1>4, <1>5, <1>6, <1>7, <1>8, <1>9
       DEF Next, ServiceController, PlanController, User

(* Whatever the interleaving of the two controllers' Get and Update with   *)
(* users' edits and with crashes, every service and the plan keep the id   *)
(* a user last gave them: the resourceVersion check turns every Update     *)
(* from a stale read into a conflict.                                     *)
THEOREM SpecNeverRevertedInvariant == Spec => []SpecNeverReverted
<1>1. Init => TypeOK /\ SnapshotsCurrent
    BY InitTypeOK, InitSnapshotsCurrent
<1>2. TypeOK /\ SnapshotsCurrent /\ [Next]_vars
        => TypeOK' /\ SnapshotsCurrent'
    BY NextTypeOK, NextSnapshotsCurrent
<1>3. SnapshotsCurrent => SpecNeverReverted
    BY DEF SnapshotsCurrent
<1>4. QED
    BY <1>1, <1>2, <1>3, PTL DEF Spec

-----------------------------------------------------------------------------
(* Refinement of CatalogLabels, its safety part.                           *)

absVars == <<absIds, absLabels>>

LEMMA InitRefines == Init => Abs!Init
<1> SUFFICES ASSUME Init PROVE Abs!Init
    OBVIOUS
<1>1. absIds \in [Svcs \cup {PlanObj} -> IDs]
    BY DEF Init, absIds
<1>2. absLabels \in [Svcs \cup {PlanObj} -> Labels]
    BY DEF Init, absLabels, Labels
<1>3. QED
    BY <1>1, <1>2 DEF Abs!Init

(* A step that leaves every id and label alone is an abstract stutter.     *)
LEMMA StutterRefines ==
    UNCHANGED <<svcID, svcLabel, planSvc, planLabel>> => UNCHANGED absVars
BY DEF absVars, absIds, absLabels

LEMMA NextRefines ==
    TypeOK /\ SnapshotsCurrent /\ [Next]_vars => [Abs!Next]_absVars
<1> SUFFICES ASSUME TypeOK, SnapshotsCurrent, [Next]_vars
             PROVE  [Abs!Next]_absVars
    OBVIOUS
<1> DEFINE Objs == Svcs \cup {PlanObj}
<1>1. ASSUME NEW s \in Svcs, ServiceGet(s) PROVE [Abs!Next]_absVars
    BY <1>1, StutterRefines, Zenon DEF ServiceGet, services, plan
<1>2. CASE ServiceUpdate
    <2> DEFINE s == sCur
    <2>1. s \in Svcs
        BY DEF TypeOK
    <2>2. CASE UNCHANGED <<svcID, svcLabel, planSvc, planLabel>>
        BY <2>2, StutterRefines
    <2>3. CASE /\ svcLabel' = [svcLabel EXCEPT ![s] = sSnap.id]
               /\ svcID' = [svcID EXCEPT ![s] = sSnap.id]
               /\ svcVer[s] = sSnap.ver
               /\ UNCHANGED <<planSvc, planLabel>>
        <3>1. sSnap.id = svcID[s] /\ svcID' = svcID
            BY <1>2, <2>1, <2>3 DEF ServiceUpdate, SnapshotsCurrent, TypeOK
        <3>2. absIds' = absIds
            BY <3>1, <2>3 DEF absIds
        <3>3. absLabels' = [absLabels EXCEPT ![s] = absIds[s]]
            BY <3>1, <2>1, <2>3, CatalogAssumption DEF absLabels, absIds, TypeOK
        <3>4. CASE absLabels[s] = absIds[s]
            <4>1. absLabels' = absLabels
                BY <3>3, <3>4, <2>1, TypeOK DEF absLabels
            <4>2. QED
                BY <3>2, <4>1 DEF absVars
        <3>5. CASE absLabels[s] # absIds[s]
            <4>1. Abs!Relabel(s)
                BY <3>2, <3>3, <3>5 DEF Abs!Relabel
            <4>2. QED
                BY <4>1, <2>1 DEF Abs!Next
        <3>6. QED
            BY <3>4, <3>5
    <2>4. QED
        BY <1>2, <2>2, <2>3, Zenon DEF ServiceUpdate, Conflict, services, plan
<1>3. CASE PlanGet \/ PlanList \/ Restart
    BY <1>3, StutterRefines, Zenon DEF PlanGet, PlanList, Restart, services, plan
<1>4. CASE PlanUpdate
    <2>1. CASE UNCHANGED <<svcID, svcLabel, planSvc, planLabel>>
        BY <2>1, StutterRefines
    <2>2. CASE /\ planSvc' = pSnap.svc /\ planLabel' = pSnap.svc
               /\ planVer = pSnap.ver
               /\ UNCHANGED <<svcID, svcLabel>>
        <3>1. pSnap.svc = planSvc
            BY <1>4, <2>2 DEF PlanUpdate, SnapshotsCurrent
        <3>2. absIds' = absIds
            BY <3>1, <2>2, CatalogAssumption DEF absIds
        <3>3. absLabels' = [absLabels EXCEPT ![PlanObj] = absIds[PlanObj]]
            BY <3>1, <2>2, CatalogAssumption DEF absLabels, absIds
        <3>4. CASE absLabels[PlanObj] = absIds[PlanObj]
            <4>1. absLabels' = absLabels
                BY <3>3, <3>4, CatalogAssumption, TypeOK DEF absLabels
            <4>2. QED
                BY <3>2, <4>1 DEF absVars
        <3>5. CASE absLabels[PlanObj] # absIds[PlanObj]
            <4>1. Abs!Relabel(PlanObj)
                BY <3>2, <3>3, <3>5 DEF Abs!Relabel
            <4>2. QED
                BY <4>1 DEF Abs!Next
        <3>6. QED
            BY <3>4, <3>5
    <2>3. QED
        BY <1>4, <2>1, <2>2, Zenon DEF PlanUpdate, Conflict, services, plan
<1>5. ASSUME NEW s \in Svcs, NEW id \in IDs, EditServiceID(s, id)
      PROVE  [Abs!Next]_absVars
    <2>1. svcID' = [svcID EXCEPT ![s] = id] /\ UNCHANGED <<svcLabel, planSvc, planLabel>>
        BY <1>5, Zenon DEF EditServiceID, plan
    <2>2. Abs!EditID(s, id)
        BY <2>1, CatalogAssumption DEF Abs!EditID, absIds, absLabels, TypeOK
    <2>3. QED
        BY <2>2 DEF Abs!Next
<1>6. ASSUME NEW id \in IDs, EditPlanServiceID(id) PROVE [Abs!Next]_absVars
    <2>1. planSvc' = id /\ UNCHANGED <<svcID, svcLabel, planLabel>>
        BY <1>6, Zenon DEF EditPlanServiceID, services
    <2>2. Abs!EditID(PlanObj, id)
        BY <2>1, CatalogAssumption DEF Abs!EditID, absIds, absLabels, TypeOK
    <2>3. QED
        BY <2>2 DEF Abs!Next
<1>7. CASE UNCHANGED vars
    BY <1>7, StutterRefines DEF vars, services, plan
<1>8. QED
    BY <1>1, <1>2, <1>3, <1>4, <1>5, <1>6, <1>7
       DEF Next, ServiceController, PlanController, User

(* Catalog implements the safety part of CatalogLabels: started anywhere   *)
(* the abstract spec may start, every step of the two controllers and the  *)
(* users is an abstract edit, an atomic relabel to the current id, or a    *)
(* stutter, for every number of services, ids, edits and faults.           *)
THEOREM RefinesCatalogLabels ==
    Spec => Abs!Init /\ [][Abs!Next]_absVars
<1>1. Init => TypeOK /\ SnapshotsCurrent
    BY InitTypeOK, InitSnapshotsCurrent
<1>2. TypeOK /\ SnapshotsCurrent /\ [Next]_vars
        => TypeOK' /\ SnapshotsCurrent'
    BY NextTypeOK, NextSnapshotsCurrent
<1>3. QED
    BY <1>1, <1>2, InitRefines, NextRefines, PTL DEF Spec
=============================================================================
