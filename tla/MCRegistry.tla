---------------------------- MODULE MCRegistry ----------------------------
(* The registry on its own with three nodes of one or two capacities.       *)
EXTENDS Registry, TLC

NodeSymmetry == Permutations(Nodes)
=============================================================================
