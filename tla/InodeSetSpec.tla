---------------------------- MODULE InodeSetSpec ----------------------------
(***************************************************************************)
(* What the inode set promises: a mathematical set, whose insert may fail  *)
(* for want of memory and then changes nothing.                            *)
(***************************************************************************)
CONSTANT Keys     \* (device, inode) pairs

VARIABLES
  members,   \* what was inserted since the creation or the last clear
  ret        \* the last call, whether it returned true, and what it answered

Init == members = {} /\ ret = [call |-> "none", ok |-> TRUE, answer |-> FALSE]

Insert(k) ==
  \/ /\ members' = members \cup {k}
     /\ ret' = [call |-> "insert", ok |-> TRUE, answer |-> k \in members]
  \/ /\ members' = members
     /\ ret' = [call |-> "insert", ok |-> FALSE, answer |-> FALSE]

Contains(k) ==
  /\ members' = members
  /\ ret' = [call |-> "contains", ok |-> TRUE, answer |-> k \in members]

Clear ==
  /\ members' = {}
  /\ ret' = [call |-> "clear", ok |-> TRUE, answer |-> FALSE]

Next == Clear \/ \E k \in Keys : Insert(k) \/ Contains(k)

Spec == Init /\ [][Next]_<<members, ret>>
==============================================================================
