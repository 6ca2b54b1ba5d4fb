------------------------------ MODULE MCRandom ------------------------------
(* Random bytes for TLC: fewer descriptors than threads may come to want. *)
EXTENDS Random

MCLengths == {0, 1, 3}
MCDescriptors == 3 .. 5
=============================================================================
