---------------------------- MODULE MCAssetStore ----------------------------
(* Two requests, two files, an image that passes the checks and one that   *)
(* does not; the quota holds one file of the first and one of the second.  *)
EXTENDS AssetStore, TLC

CONSTANTS good, bad

MCImages == {good, bad}
MCProper == {good}
MCSize == (good :> 2 @@ bad :> 1)

Symmetry == Permutations(Requests)
=============================================================================
