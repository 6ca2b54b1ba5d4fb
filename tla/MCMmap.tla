------------------------------- MODULE MCMmap -------------------------------
(* The memory map for TLC: see Mmap.cfg for the sizes. *)
EXTENDS Mmap
=============================================================================
