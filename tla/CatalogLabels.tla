--------------------------- MODULE CatalogLabels ---------------------------
(***************************************************************************)
(* What the catalog controllers promise about labels, with no controller   *)
(* in sight: users change the id of a catalog object (a service's Spec.ID, *)
(* a plan's Spec.ServiceID), and the serviceId label of an object is only  *)
(* ever set, in one atomic step, to the object's current id.  Every        *)
(* service whose label differs from its id is eventually relabelled.       *)
(***************************************************************************)
CONSTANTS Objects, Services, IDs, Labels

VARIABLES ids, labels

Init == ids \in [Objects -> IDs] /\ labels \in [Objects -> Labels]

(* A user gives object o the id i.                                         *)
EditID(o, i) ==
    /\ ids' = [ids EXCEPT ![o] = i]
    /\ UNCHANGED labels

(* The label of o becomes o's id as it is now.                             *)
Relabel(o) ==
    /\ labels[o] # ids[o]
    /\ labels' = [labels EXCEPT ![o] = ids[o]]
    /\ UNCHANGED ids

Next == \E o \in Objects : Relabel(o) \/ \E i \in IDs : EditID(o, i)

Spec == Init /\ [][Next]_<<ids, labels>>
             /\ \A s \in Services : WF_<<ids, labels>>(Relabel(s))
=============================================================================
