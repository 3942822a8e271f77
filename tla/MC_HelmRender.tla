--------------------------- MODULE MC_HelmRender ---------------------------
(* HelmRender for TLC: names of up to three characters over "/", "_", "x" *)
(* and "n", where the two-character suffix "xn" stands for NOTES.txt.    *)
EXTENDS HelmRender, TLC

MCChars == {"/", "_", "x", "n"}
MCIgnoreSuffixes == {<<"x", "n">>}
=============================================================================
