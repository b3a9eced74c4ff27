--------------------------- MODULE MCSharedNodes ---------------------------
(* Three tenants with two pools each share a node; another was there       *)
(* before.                                                                 *)
EXTENDS SharedNodes, TLC

Symmetry == Permutations(Tenants) \cup Permutations(Pools)
============================================================================
