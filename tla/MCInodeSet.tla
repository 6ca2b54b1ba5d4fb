----------------------------- MODULE MCInodeSet -----------------------------
(***************************************************************************)
(* Four keys: z and a collide in every table, at its last bucket, so that  *)
(* probes wrap around; b and c part from each other only when it grows.    *)
(***************************************************************************)
EXTENDS InodeSet, TLC

MCKeys == {"z", "a", "b", "c"}
MCMix == "z" :> 15 @@ "a" :> 31 @@ "b" :> 0 @@ "c" :> 2
==============================================================================
