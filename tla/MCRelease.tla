------------------------------ MODULE MCRelease ------------------------------
(* Instances of ReleasePublish for TLC.                                    *)
EXTENDS ReleasePublish, TLC

CONSTANTS archive1, archive2, sums

AllAssets == {archive1, archive2, sums}
Symmetry == Permutations(AllAssets)
=============================================================================
