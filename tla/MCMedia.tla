------------------------------- MODULE MCMedia -------------------------------
(* A map and an avatar of one campaign, and a few uploads for them. *)
EXTENDS MediaLifecycle, TLC

Symmetry == Permutations(AssetId) \cup Permutations(Handlers)
=============================================================================
