--------------------------- MODULE MCWalkParallel ---------------------------
(* WalkParallel for TLC, on the trees of MCTrees. *)
EXTENDS WalkParallel, MCTrees

CONSTANTS w1, w2, w3

Symmetry == Permutations(Workers)
==============================================================================
