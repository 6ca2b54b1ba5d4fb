--------------------------- MODULE MCDirentReader ---------------------------
(* Three directories: dots first, dots last and apart, and an empty one. *)
EXTENDS DirentReader, TLC

MCDirs == {"a", "b", "c"}
MCLength == "a" :> 4 @@ "b" :> 4 @@ "c" :> 2
MCDots == "a" :> {1, 2} @@ "b" :> {2, 4} @@ "c" :> {1, 2}
=============================================================================
