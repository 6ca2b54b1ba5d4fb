------------------------------- MODULE MCTrees -------------------------------
(***************************************************************************)
(* Small trees for the walks.  In the full tree the root r holds a         *)
(* directory a with a file in it, and one entry of each awkward sort; the  *)
(* deep tree is a chain of directories with a file at the end of it and    *)
(* one beside it, which makes inline walks nest.  The nested tree is the   *)
(* full one with another file and a directory in a.                        *)
(***************************************************************************)
EXTENDS TLC

Node(parent, mode, target) == [parent |-> parent, mode |-> mode, target |-> target]
Plain(parent, mode) == Node(parent, mode, mode)

FullTree ==
  "r" :> Plain("r", "directory") @@
  "a" :> Plain("r", "directory") @@
  "af" :> Plain("a", "file") @@
  "l" :> Node("r", "symlink", "directory") @@
  "ll" :> Plain("l", "file") @@
  "u" :> Node("a", "symlink", "file") @@
  "h" :> Plain("r", "file")

DeepTree ==
  "r" :> Plain("r", "directory") @@
  "a" :> Plain("r", "directory") @@
  "b" :> Plain("r", "directory") @@
  "aa" :> Plain("a", "directory") @@
  "aaf" :> Plain("aa", "file") @@
  "bf" :> Plain("b", "file")

NestedTree ==
  FullTree @@
  "x" :> Plain("a", "file") @@
  "aa" :> Plain("a", "directory") @@
  "aaf" :> Plain("aa", "file")

FullEntries == DOMAIN FullTree
FullParent == [e \in FullEntries |-> FullTree[e].parent]
FullMode == [e \in FullEntries |-> FullTree[e].mode]
FullTarget == [e \in FullEntries |-> FullTree[e].target]
DeepEntries == DOMAIN DeepTree
DeepParent == [e \in DeepEntries |-> DeepTree[e].parent]
DeepMode == [e \in DeepEntries |-> DeepTree[e].mode]
DeepTarget == [e \in DeepEntries |-> DeepTree[e].target]
NestedEntries == DOMAIN NestedTree
NestedParent == [e \in NestedEntries |-> NestedTree[e].parent]
NestedMode == [e \in NestedEntries |-> NestedTree[e].mode]
NestedTarget == [e \in NestedEntries |-> NestedTree[e].target]
==============================================================================
