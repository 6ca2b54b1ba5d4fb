------------------------------ MODULE WalkPath ------------------------------
(***************************************************************************)
(* The paths of a walk from its root down: every directory's path is made  *)
(* from its parent's by bc_io_file_path_join in a buffer on the stack that *)
(* holds whatever was in it.  The parallel walk copies it to an entry of   *)
(* the queue and back; the recursion of the sequential walk passes the     *)
(* buffer on.                                                              *)
(***************************************************************************)
EXTENDS PathJoin

CONSTANTS
  MaxPath,   \* BC_IO_MAX_PATH_LENGTH
  MaxName,   \* the longest name in a directory
  MaxRoot    \* the longest root that a caller gives

ASSUME LengthAssumption ==
  /\ MaxPath \in Nat \ {0} /\ MaxName \in Nat \ {0} /\ MaxRoot \in Nat
  /\ SizeLimit > MaxPath + MaxName + 2

VARIABLES
  pc,        \* "start", "open", "list", "descend", or "rejected"
  walk,      \* "parallel" or "sequential"
  directory, \* [path, length]: of the directory being walked
  child,     \* [path, length]: child_path_buffer and child_path_length
  root_ends, \* the root has its zero at root_length
  expected,  \* history: the path of the directory, as a sequence
  name       \* the name at hand

vars == <<pc, walk, directory, child, root_ends, expected, name>>

(* Memory behind the buffers, to see what goes too far. *)
Memory == 0 .. MaxPath + MaxRoot + MaxName + 1
Stale == 2
Cleared == [i \in Memory |-> IF i < MaxPath THEN Zero ELSE Stale]
Dirty == [i \in Memory |-> Stale]

(* Bytes of names differ from one another, from Slash and from Stale. *)
Text(first, length) == [i \in 1 .. length |-> first + i]
Fresh == 2 + MaxRoot + MaxName * Len(expected)

Init ==
  /\ pc = "start" /\ walk \in {"parallel", "sequential"}
  /\ directory = [path |-> Dirty, length |-> 0]
  /\ child = [path |-> Dirty, length |-> 0]
  /\ root_ends \in BOOLEAN /\ expected = <<>> /\ name = <<>>

(* Variant: a root that fills the buffer is let through. *)
TooLongRoot(length) == length = 0 \/ length > MaxPath

BadRoot(length) == length = 0 \/ length >= MaxPath

(* The root of a sequential walk is used where the caller has it. *)
Begin(length) ==
  LET root == Text(2, length) IN
  /\ pc = "start"
  /\ \/ BadRoot(length) /\ pc' = "rejected" /\ UNCHANGED <<directory, expected>>
     \/ /\ ~ BadRoot(length) /\ pc' = "open" /\ expected' = root
        /\ directory' = [length |-> length, path |->
             IF walk = "parallel" THEN Store(Store(Cleared, 0, root), length, <<Zero>>)
             ELSE Store(Store(Dirty, 0, root), IF root_ends THEN length ELSE length + 1, <<Zero>>)]
  /\ UNCHANGED <<walk, child, root_ends, name>>

(* open reads the path up to the zero. *)
OpenDirectory ==
  /\ pc = "open" /\ pc' = "list"
  /\ UNCHANGED <<walk, directory, child, root_ends, expected, name>>

(* The reader returns an entry; its path is made, or reported as too long. *)
JoinChild(length) ==
  /\ pc \in {"list", "descend"}
  /\ name' = Text(Fresh, length)
  /\ LET result == PathJoin(child.path, MaxPath, Bytes(directory.path, directory.length), name')
     IN  /\ child' = [path |-> result.buffer,
                      length |-> IF result.ok THEN result.length ELSE 0]
         /\ pc' = IF result.ok THEN "descend" ELSE "list"
  /\ UNCHANGED <<walk, directory, root_ends, expected>>

(* Variant: the copy in the queue gets no zero of its own, nor is cleared. *)
SubEntryUnended == [length |-> child.length, path |-> Store(Dirty, 0, Bytes(child.path, child.length))]

(* sub_entry of the parallel walk. *)
SubEntry ==
  [length |-> child.length,
   path |-> Store(Store(Cleared, 0, Bytes(child.path, child.length)), child.length, <<Zero>>)]

(* The entry is a directory: it is walked next, with a buffer of its own. *)
Descend ==
  /\ pc = "descend" /\ pc' = "open"
  /\ directory' = IF walk = "parallel" THEN SubEntry ELSE child
  /\ child' = [path |-> Dirty, length |-> 0]
  /\ expected' = Joined(expected, name) /\ name' = <<>>
  /\ UNCHANGED <<walk, root_ends>>

(* The walk of this branch ends. *)
Done == pc \in {"list", "descend", "rejected"} /\ UNCHANGED vars

Next ==
  \/ \E length \in 0 .. MaxRoot : Begin(length)
  \/ OpenDirectory
  \/ \E length \in 1 .. MaxName : JoinChild(length)
  \/ Descend
  \/ Done

Spec == Init /\ [][Next]_vars

-----------------------------------------------------------------------------
TypeOK ==
  /\ pc \in {"start", "open", "list", "descend", "rejected"}
  /\ walk \in {"parallel", "sequential"} /\ root_ends \in BOOLEAN
  /\ directory.length \in 0 .. MaxPath - 1 /\ child.length \in 0 .. MaxPath - 1
  /\ directory.path \in [Memory -> Nat] /\ child.path \in [Memory -> Nat]
  /\ expected \in Seq(Nat) /\ name \in Seq(Nat)

IsPath(entry, path) == entry.length = Len(path) /\ Bytes(entry.path, entry.length) = path

AtRoot == \A i \in 1 .. Len(expected) : expected[i] # Slash

(***************************************************************************)
(* A directory is opened by the very path that its callbacks see and the   *)
(* paths of its children begin with, however deep it is, and at the limit  *)
(* of the buffer too.  The one exception is the root of a sequential walk  *)
(* that has no zero at root_length: open sees more of it than path_join.   *)
(* Nothing is written behind absolute_path, where the other fields of the  *)
(* queue's entry lie, or behind child_path_buffer.                         *)
(***************************************************************************)
OpensItsPath ==
  /\ TypeOK
  /\ pc \in {"open", "list", "descend"} =>
       /\ IsPath(directory, expected)
       /\ \/ directory.path[directory.length] = Zero
          \/ walk = "sequential" /\ ~ root_ends /\ AtRoot
  /\ pc = "descend" =>
       IsPath(child, Joined(expected, name)) /\ child.path[child.length] = Zero
  /\ \A i \in Memory : i >= MaxPath =>
       child.path[i] = Stale /\ (walk = "parallel" => directory.path[i] = Stale)

(***************************************************************************)
(* The function does what it promises for other callers too: in a buffer   *)
(* of any capacity, from any base, the empty one included.                 *)
(***************************************************************************)
JoinsAnyBuffer ==
  \A capacity \in 0 .. MaxPath, length \in 0 .. directory.length :
    JoinCorrect(child.path, capacity, Bytes(directory.path, length), name)
=============================================================================
