---------------------------- MODULE MCAssetService ----------------------------
(* AssetService for TLC: its ids, callers and valid texts are              *)
(* interchangeable in every property.                                      *)
EXTENDS AssetService, TLC

Symmetry ==
  Permutations(Profile) \cup Permutations(Subscription)
    \cup Permutations(Caller) \cup Permutations(Good)
=============================================================================
