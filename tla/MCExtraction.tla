---------------------------- MODULE MCExtraction ----------------------------
(***************************************************************************)
(* Instances of Extraction for TLC.                                        *)
(***************************************************************************)
EXTENDS Extraction, TLC

CONSTANTS a1, a2, a3, j1, j2, c1, c2

OneAsset == {a1}
TwoAssets == {a1, a2}
ThreeAssets == {a1, a2, a3}
OneJob == {j1}
TwoJobs == {j1, j2}
OneCall == {c1}
TwoCalls == {c1, c2}

Symmetry == Permutations(Assets) \cup Permutations(Calls)
=============================================================================
