--------------------------- MODULE MC_Composition ---------------------------
(* Constants of Composition for TLC: every combination of IDs a caller may  *)
(* set, three type names (a helm spelling, a go-template spelling and one   *)
(* that is either only by case), the two file names ComputeStatus looks for *)
(* and one other, two sources entries.                                      *)
EXTENDS Composition, TLC

MCAllCallers == SUBSET {"instance", "binding", "catalog"}
MCControllerCallers == {{"instance", "catalog"}, {"instance", "binding", "catalog"}}
MCTypeNames == {"helm", "GoTemplate", "goTemplate"}
MCSpelled == [t \in MCTypeNames |-> IF t = "helm" THEN "helm" ELSE "gotemplate"]
MCFileNames == {"sources.yaml", "status.yaml", "other.yaml"}
MCSourceKeys == {"k1", "k2"}
=============================================================================
