------------------------------ MODULE InodeSet ------------------------------
(***************************************************************************)
(* bc_io_file_inode_set: open addressing with linear probing in a table of *)
(* a power of two of buckets, doubled when an insert would fill more than  *)
(* three quarters of it.  Every turn of a probing or rehashing loop is a   *)
(* step, so that the table between two turns is a state of the model.      *)
(* Buckets are allocated zeroed, and zero is a key like any other: only    *)
(* the occupied flags tell an entry from an empty bucket.                  *)
(***************************************************************************)
EXTENDS Integers, FiniteSets

CONSTANTS
  Keys,         \* (device, inode) pairs
  ZeroKey,      \* the pair (0, 0)
  Mix,          \* the 64-bit mix of a key, before it is masked
  BucketBytes,  \* sizeof(entry) + 1
  DefaultCapacity,
  SizeLimit     \* SIZE_MAX + 1, a power of two

ASSUME SetAssumption ==
  /\ ZeroKey \in Keys
  /\ Mix \in [Keys -> Nat]
  /\ BucketBytes \in Nat \ {0}
  /\ DefaultCapacity \in Nat \ {0}
  /\ SizeLimit \in Nat \ {0}

VARIABLES
  capacity, size,
  entries, occupied,          \* the buckets
  new_entries, new_occupied,  \* the buckets a grow fills
  index,                      \* the bucket a grow has come to
  pc,                         \* which loop runs, "idle" between calls
  key, slot,                  \* what the loop looks for, and where it is
  asked,                      \* the initial capacity create was called with
  ret                         \* what the last call returned

table == <<capacity, size, entries, occupied>>
fresh == <<new_entries, new_occupied, index>>
vars == <<table, fresh, pc, key, slot, asked, ret>>

Empty == [i \in {} |-> FALSE]
Buckets == 0 .. capacity - 1
NewCapacity == capacity * 2

(* capacity is a power of two, so masking is the remainder. *)
Hash(k, buckets) == Mix[k] % buckets

NextSlot(s, buckets) == IF s + 1 = buckets THEN 0 ELSE s + 1

Fits(buckets) == buckets * BucketBytes < SizeLimit

Returns(call, ok, answer) == ret' = [call |-> call, ok |-> ok, answer |-> answer]

Init ==
  /\ capacity = 1 /\ size = 0 /\ entries = Empty /\ occupied = Empty
  /\ new_entries = Empty /\ new_occupied = Empty /\ index = 0
  /\ pc = "rounding" /\ key = ZeroKey /\ slot = 0
  /\ asked \in 0 .. SizeLimit - 1
  /\ ret = [call |-> "none", ok |-> TRUE, answer |-> FALSE]

-----------------------------------------------------------------------------
(* Creation. *)

(* What is rounded up: zero asks for the default, and one bucket is too few. *)
Requested == IF asked = 0 THEN DefaultCapacity ELSE IF asked < 2 THEN 2 ELSE asked

(* One turn of the loop that doubles until the request is reached; the     *)
(* shift drops the bit that leaves the word.                               *)
RoundUp ==
  /\ pc = "rounding" /\ capacity < Requested
  /\ capacity' = (capacity * 2) % SizeLimit
  /\ UNCHANGED <<size, entries, occupied, fresh, pc, key, slot, asked, ret>>

Create ==
  /\ pc = "rounding" /\ capacity >= Requested
  /\ \/ /\ Fits(capacity) /\ pc' = "idle"
        /\ entries' = [i \in Buckets |-> ZeroKey]
        /\ occupied' = [i \in Buckets |-> FALSE]
     \/ pc' = "failed" /\ UNCHANGED <<entries, occupied>>
  /\ UNCHANGED <<capacity, size, fresh, key, slot, asked, ret>>

-----------------------------------------------------------------------------
(* Insertion. *)

(* Variant: the load is looked at before the new element is counted. *)
InsertCheckingLate(k) ==
  /\ pc = "idle"
  /\ key' = k
  /\ IF size * 4 > capacity * 3
       THEN \/ /\ Fits(NewCapacity) /\ pc' = "grow"
               /\ new_entries' = [i \in 0 .. NewCapacity - 1 |-> ZeroKey]
               /\ new_occupied' = [i \in 0 .. NewCapacity - 1 |-> FALSE]
               /\ index' = 0 /\ UNCHANGED <<slot, ret>>
            \/ Returns("insert", FALSE, FALSE) /\ UNCHANGED <<pc, slot, fresh>>
       ELSE pc' = "insert" /\ slot' = Hash(k, capacity) /\ UNCHANGED <<fresh, ret>>
  /\ UNCHANGED <<table, asked>>

Insert(k) ==
  /\ pc = "idle"
  /\ key' = k
  /\ IF (size + 1) * 4 > capacity * 3
       THEN \/ /\ Fits(NewCapacity) /\ pc' = "grow"
               /\ new_entries' = [i \in 0 .. NewCapacity - 1 |-> ZeroKey]
               /\ new_occupied' = [i \in 0 .. NewCapacity - 1 |-> FALSE]
               /\ index' = 0 /\ UNCHANGED <<slot, ret>>
            \/ Returns("insert", FALSE, FALSE) /\ UNCHANGED <<pc, slot, fresh>>
       ELSE pc' = "insert" /\ slot' = Hash(k, capacity) /\ UNCHANGED <<fresh, ret>>
  /\ UNCHANGED <<table, asked>>

GrowBucket ==
  /\ pc = "grow" /\ index < capacity
  /\ IF occupied[index]
       THEN pc' = "rehash" /\ slot' = Hash(entries[index], NewCapacity) /\ UNCHANGED index
       ELSE index' = index + 1 /\ UNCHANGED <<pc, slot>>
  /\ UNCHANGED <<table, new_entries, new_occupied, key, asked, ret>>

(* Variant: a taken bucket is overwritten instead of stepped over. *)
RehashOverwriting ==
  /\ pc = "rehash"
  /\ new_entries' = [new_entries EXCEPT ![slot] = entries[index]]
  /\ new_occupied' = [new_occupied EXCEPT ![slot] = TRUE]
  /\ index' = index + 1 /\ pc' = "grow" /\ UNCHANGED slot
  /\ UNCHANGED <<table, key, asked, ret>>

Rehash ==
  /\ pc = "rehash"
  /\ IF new_occupied[slot]
       THEN /\ slot' = NextSlot(slot, NewCapacity)
            /\ UNCHANGED <<new_entries, new_occupied, index, pc>>
       ELSE /\ new_entries' = [new_entries EXCEPT ![slot] = entries[index]]
            /\ new_occupied' = [new_occupied EXCEPT ![slot] = TRUE]
            /\ index' = index + 1 /\ pc' = "grow" /\ UNCHANGED slot
  /\ UNCHANGED <<table, key, asked, ret>>

(* Variant: the probe starts where the smaller table would have had it. *)
GrowEndsStale ==
  /\ pc = "grow" /\ index = capacity
  /\ entries' = new_entries /\ occupied' = new_occupied /\ capacity' = NewCapacity
  /\ new_entries' = Empty /\ new_occupied' = Empty /\ index' = 0
  /\ pc' = "insert" /\ slot' = Hash(key, capacity)
  /\ UNCHANGED <<size, key, asked, ret>>

(* The new buckets replace the old; the insert goes on in them. *)
GrowEnds ==
  /\ pc = "grow" /\ index = capacity
  /\ entries' = new_entries /\ occupied' = new_occupied /\ capacity' = NewCapacity
  /\ new_entries' = Empty /\ new_occupied' = Empty /\ index' = 0
  /\ pc' = "insert" /\ slot' = Hash(key, NewCapacity)
  /\ UNCHANGED <<size, key, asked, ret>>

ProbeInsert ==
  /\ pc = "insert"
  /\ \/ /\ occupied[slot] /\ entries[slot] = key
        /\ Returns("insert", TRUE, TRUE) /\ pc' = "idle"
        /\ UNCHANGED <<entries, occupied, size, slot>>
     \/ /\ occupied[slot] /\ entries[slot] # key
        /\ slot' = NextSlot(slot, capacity)
        /\ UNCHANGED <<entries, occupied, size, pc, ret>>
     \/ /\ ~ occupied[slot]
        /\ entries' = [entries EXCEPT ![slot] = key]
        /\ occupied' = [occupied EXCEPT ![slot] = TRUE]
        /\ size' = size + 1
        /\ Returns("insert", TRUE, FALSE) /\ pc' = "idle" /\ UNCHANGED slot
  /\ UNCHANGED <<capacity, fresh, key, asked>>

-----------------------------------------------------------------------------
Contains(k) ==
  /\ pc = "idle"
  /\ key' = k /\ slot' = Hash(k, capacity) /\ pc' = "contains"
  /\ UNCHANGED <<table, fresh, asked, ret>>

ProbeContains ==
  /\ pc = "contains"
  /\ \/ /\ occupied[slot] /\ entries[slot] # key
        /\ slot' = NextSlot(slot, capacity) /\ UNCHANGED <<pc, ret>>
     \/ /\ occupied[slot] => entries[slot] = key
        /\ Returns("contains", TRUE, occupied[slot]) /\ pc' = "idle" /\ UNCHANGED slot
  /\ UNCHANGED <<table, fresh, key, asked>>

(* Variant: the flags are cleared and the size is not. *)
ClearKeepingSize ==
  /\ pc = "idle"
  /\ occupied' = [i \in Buckets |-> FALSE]
  /\ Returns("clear", TRUE, FALSE)
  /\ UNCHANGED <<capacity, size, entries, fresh, pc, key, slot, asked>>

(* The entries stay in memory; only the flags are zeroed. *)
Clear ==
  /\ pc = "idle"
  /\ occupied' = [i \in Buckets |-> FALSE] /\ size' = 0
  /\ Returns("clear", TRUE, FALSE)
  /\ UNCHANGED <<capacity, entries, fresh, pc, key, slot, asked>>

Destroy ==
  /\ pc = "idle" /\ pc' = "destroyed"
  /\ UNCHANGED <<table, fresh, key, slot, asked, ret>>

Gone == pc \in {"failed", "destroyed"} /\ UNCHANGED vars

Step ==
  RoundUp \/ Create \/ GrowBucket \/ Rehash \/ GrowEnds \/ ProbeInsert \/ ProbeContains

Next ==
  \/ Step \/ Clear \/ Destroy \/ Gone
  \/ \E k \in Keys : Insert(k) \/ Contains(k)

Spec == Init /\ [][Next]_vars

(* The code of a call runs on until the call returns. *)
FairSpec == Spec /\ WF_vars(Step)

-----------------------------------------------------------------------------
ScalarsOK ==
  /\ pc \in {"rounding", "idle", "insert", "grow", "rehash", "contains", "failed", "destroyed"}
  /\ capacity \in Nat /\ size \in Nat /\ index \in Nat /\ slot \in Nat /\ asked \in Nat
  /\ key \in Keys

TableOK == pc \notin {"rounding", "failed"} =>
  capacity > 0 /\ entries \in [Buckets -> Keys] /\ occupied \in [Buckets -> BOOLEAN]

FreshOK == pc \in {"grow", "rehash"} =>
  /\ new_entries \in [0 .. NewCapacity - 1 -> Keys]
  /\ new_occupied \in [0 .. NewCapacity - 1 -> BOOLEAN]

PositionsOK ==
  /\ pc \in {"insert", "contains"} => slot < capacity
  /\ pc \in {"grow", "rehash"} => index <= capacity
  /\ pc = "rehash" => slot < NewCapacity /\ index < capacity

Answers == [call : {"none", "insert", "contains", "clear"}, ok : BOOLEAN, answer : BOOLEAN]

TypeOK == ScalarsOK /\ TableOK /\ FreshOK /\ PositionsOK /\ ret \in Answers

Created == pc \notin {"rounding", "failed"}
Taken == {i \in Buckets : Created /\ occupied[i]}

(* A probe that starts at bucket h passes bucket j before it reaches i. *)
Passes(h, j, i) == IF h <= i THEN h <= j /\ j < i ELSE h <= j \/ j < i

(***************************************************************************)
(* Linear probing finds every entry: a probe for the key of an occupied    *)
(* bucket meets no empty bucket before it, and no key is in the table      *)
(* twice.  It holds in the middle of a grow too, of the old buckets, which *)
(* a failing allocation leaves alone, and of the new ones.                 *)
(***************************************************************************)
Reachable ==
  /\ \A i \in Taken, j \in Buckets :
       Passes(Hash(entries[i], capacity), j, i) => occupied[j]
  /\ pc \in {"grow", "rehash"} =>
       \A i, j \in 0 .. NewCapacity - 1 :
         new_occupied[i] /\ Passes(Hash(new_entries[i], NewCapacity), j, i) => new_occupied[j]
  /\ \A i, j \in Taken : entries[i] = entries[j] => i = j

(***************************************************************************)
(* size is the number of occupied buckets, and at most three quarters of   *)
(* the buckets are: there is an empty one to stop every probe.             *)
(***************************************************************************)
LoadBound ==
  /\ TypeOK
  /\ Created => size = Cardinality(Taken) /\ size * 4 <= capacity * 3

(* The table does what InodeSetSpec says, its members those of the buckets. *)
Abstract == INSTANCE InodeSetSpec WITH members <- {entries[i] : i \in Taken}

ImplementsSet == Abstract!Spec

(***************************************************************************)
(* Every insert and every lookup returns: no probe goes round for ever,    *)
(* and no rehash does.  A creation returns if the next power of two can be *)
(* represented; for a larger request the shift leaves zero and the loop    *)
(* never ends.                                                             *)
(***************************************************************************)
CallsReturn ==
  /\ Created /\ pc # "idle" ~> pc \in {"idle", "destroyed"}
  /\ Requested <= SizeLimit \div 2 => <>(pc # "rounding")
==============================================================================
