------------------------------ MODULE Listing ------------------------------
(***************************************************************************)
(* What the walks rely on when they read a directory: each of its entries  *)
(* is delivered at most once, nothing else is, and the end is announced    *)
(* only after the last one.  A listing may fail, or be left, at any time.  *)
(* `seen` of WalkParallel and WalkSequential is this `seen`.               *)
(***************************************************************************)
EXTENDS Integers

CONSTANTS Dirs, Entries   \* Entries[d]: what is in d, without "." and ".."

VARIABLES
  status,  \* status[d]: how far the listing of d has come
  seen     \* seen[d]: the entries of d that were delivered

listing == <<status, seen>>

Init == status = [d \in Dirs |-> "closed"] /\ seen = [d \in Dirs |-> {}]

Moves(d, from, to) == status[d] = from /\ status' = [status EXCEPT ![d] = to]

Open(d) == Moves(d, "closed", "listing") /\ UNCHANGED seen

Deliver(d) ==
  /\ status[d] = "listing"
  /\ \E e \in Entries[d] \ seen[d] : seen' = [seen EXCEPT ![d] = @ \cup {e}]
  /\ UNCHANGED status

End(d) == Moves(d, "listing", "complete") /\ seen[d] = Entries[d] /\ UNCHANGED seen

Fail(d) == Moves(d, "listing", "failed") /\ UNCHANGED seen

Leave(d) == Moves(d, "listing", "left") /\ UNCHANGED seen

Next == \E d \in Dirs : Open(d) \/ Deliver(d) \/ End(d) \/ Fail(d) \/ Leave(d)

Spec == Init /\ [][Next]_listing
=============================================================================
