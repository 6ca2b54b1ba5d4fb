---------------------------- MODULE MCReadHandle ----------------------------
(* Read handles for TLC: files below, at and above the default threshold. *)
EXTENDS ReadHandle

MCThresholds == {0, 1, 4}
=============================================================================
