---------------------------- MODULE MC_Catalog ----------------------------
(* Catalog for TLC: two services, two ids.                                *)
EXTENDS Catalog, TLC

CONSTANTS a, b

MCSvcs == {a, b}
MCIDs == {"i1", "i2"}
MCLabelsSet == MCIDs \cup {Absent}
MCLabelsNil == MCIDs \cup {Absent, NilMap}
MCLabelsNone == {Absent}
MCSymmetry == Permutations(MCSvcs)

(* A catalog in which every id names a service, so that a plan can always *)
(* find its service once the labels are written.                          *)
MCInit == Init /\ \A id \in MCIDs : \E s \in MCSvcs : svcID[s] = id
MCSpec == MCInit /\ [][Next]_vars /\ Fairness
=============================================================================
