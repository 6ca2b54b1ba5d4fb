----------------------------- MODULE MCWalkPath -----------------------------
(* Paths for TLC: see WalkPath.cfg for the lengths. *)
EXTENDS WalkPath
=============================================================================
