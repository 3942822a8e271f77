--------------------------- MODULE MC_Reconciler ---------------------------
(* Instantiation of Reconciler for TLC: two ordinary resources, one of a   *)
(* graceful-teardown apiVersion, two values of the managed fields.         *)
EXTENDS Reconciler, TLC

CONSTANTS k1, k2, s1, v1, v2

MCKeys == {k1, k2, s1}
MCSpecial == {s1}

(* For the liveness run, checked without symmetry: one resource of each   *)
(* kind of deletion.                                                       *)
MCKeysLive == {k1, s1}
MCSpecs == {v1, v2}

(* The two ordinary resources are interchangeable, and so are the two      *)
(* values of the managed fields.                                           *)
MCSymmetry == Permutations({k1, k2}) \cup Permutations({v1, v2})
=============================================================================
