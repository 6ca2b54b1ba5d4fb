-------------------------- MODULE MCWalkSequential --------------------------
(* WalkSequential for TLC, on the trees of MCTrees. *)
EXTENDS WalkSequential, MCTrees
==============================================================================
