------------------------------ MODULE MCStream ------------------------------
(* Stream for TLC: the bounds are in the configuration. *)
EXTENDS Stream
==============================================================================
