---------------------------- MODULE DirentReader ----------------------------
(***************************************************************************)
(* bc_io_dirent_reader, and how one worker of a walk uses its readers: its *)
(* own reader for the directories it takes from the queue, one after the   *)
(* other, and a new one for each directory it walks inline in the middle   *)
(* of another.  The innermost directory is the last of `stack`.            *)
(*                                                                         *)
(* A record of directory d is <<d, i>>, its i-th in the order the kernel   *)
(* returns them; "." and ".." are among them.                              *)
(***************************************************************************)
EXTENDS Integers, Sequences

CONSTANTS
  Dirs,
  Length,    \* Length[d]: the number of records of d
  Dots,      \* Dots[d]: which of them are "." and ".."
  MaxBatch,  \* how many records fit in the buffer
  MaxDepth   \* how deep inline walks nest

ASSUME ReaderAssumption ==
  /\ Length \in [Dirs -> Nat] /\ Dots \in [Dirs -> SUBSET Nat]
  /\ MaxBatch \in Nat \ {0} /\ MaxDepth \in Nat \ {0}

VARIABLES
  stack,     \* the directories being read
  reader,    \* reader[k] serves the k-th of them
  offset,    \* offset[d]: the position of the descriptor open on d
  calling,   \* bc_io_dirent_reader_next is under way
  current,   \* current[k]: the record answered last at depth k, or <<>>
  status, seen   \* see Listing

vars == <<stack, reader, offset, calling, current, status, seen>>

Records(d) == {<<d, i>> : i \in 1 .. Length[d]}
EntriesOf == [d \in Dirs |-> {r \in Records(d) : r[2] \notin Dots[d]}]

Depth == Len(stack)
Top == stack[Depth]

(* Variant: a directory walked inline uses the reader of the worker. *)
SharedReader(depth) == 1

(* Which reader a directory is read with: inline walks make their own. *)
ReaderOf(depth) == depth

R == reader[ReaderOf(Depth)]

Init ==
  /\ stack = <<>> /\ calling = FALSE
  /\ reader = [k \in 1 .. MaxDepth |->
                 [dir_fd |-> "none", last_errno |-> FALSE, buffer_used |-> 0, cursor |-> 0,
                  buffer |-> [i \in 1 .. MaxBatch |-> <<>>]]]
  /\ offset = [d \in Dirs |-> 0]
  /\ current = [k \in 1 .. MaxDepth |-> <<>>]
  /\ status = [d \in Dirs |-> "closed"] /\ seen = [d \in Dirs |-> {}]

(* Variant: what the reader had buffered is still there. *)
ResetDescriptor(r, d) == [r EXCEPT !.dir_fd = d, !.last_errno = FALSE]

(* bc_io_dirent_reader_reset, after bc_io_dirent_reader_create for a new   *)
(* reader; the memory of the buffer keeps what was in it.                  *)
Reset(r, d) == [r EXCEPT !.dir_fd = d, !.last_errno = FALSE, !.buffer_used = 0, !.cursor = 0]

(* The worker opens d: from the queue, or inside the directory it reads. *)
Enter(d) ==
  /\ ~ calling /\ Depth < MaxDepth /\ status[d] = "closed"
  /\ Depth > 0 => status[Top] = "listing" /\ current[Depth] # <<>>
  /\ stack' = Append(stack, d)
  /\ reader' = [reader EXCEPT ![ReaderOf(Depth + 1)] = Reset(@, d)]
  /\ current' = [current EXCEPT ![Depth + 1] = <<>>]
  /\ status' = [status EXCEPT ![d] = "listing"]
  /\ UNCHANGED <<offset, calling, seen>>

-----------------------------------------------------------------------------
(* bc_io_dirent_reader_next. *)

Call ==
  /\ ~ calling /\ Depth > 0 /\ status[Top] = "listing"
  /\ calling' = TRUE /\ current' = [current EXCEPT ![Depth] = <<>>]
  /\ UNCHANGED <<stack, reader, offset, status, seen>>

Drained == R.cursor >= R.buffer_used

(* The reader r with the next `count` records of its directory. *)
Filled(r, count) ==
  [r EXCEPT !.buffer_used = count, !.cursor = 0,
            !.buffer = [i \in 1 .. MaxBatch |->
               IF i <= count THEN <<r.dir_fd, offset[r.dir_fd] + i>> ELSE r.buffer[i]]]

(* getdents64 returns some of the records that follow. *)
Refill(count) ==
  /\ calling /\ Drained /\ count <= Length[R.dir_fd] - offset[R.dir_fd]
  /\ reader' = [reader EXCEPT ![ReaderOf(Depth)] = Filled(R, count)]
  /\ offset' = [offset EXCEPT ![R.dir_fd] = @ + count]
  /\ UNCHANGED <<stack, calling, current, status, seen>>

(* It returns zero: next says that there is no entry. *)
NoEntry ==
  /\ calling /\ Drained /\ offset[R.dir_fd] = Length[R.dir_fd]
  /\ calling' = FALSE /\ status' = [status EXCEPT ![Top] = "complete"]
  /\ UNCHANGED <<stack, reader, offset, current, seen>>

(* Variant: a batch that holds nothing but dots is taken for the end. *)
TakeRecordOnce ==
  /\ calling /\ ~ Drained
  /\ LET record == R.buffer[R.cursor + 1]
         dot == record[2] \in Dots[record[1]]
         last == R.cursor + 1 = R.buffer_used
     IN  /\ reader' = [reader EXCEPT ![ReaderOf(Depth)].cursor = @ + 1]
         /\ IF dot THEN /\ calling' = ~ last
                        /\ status' = [status EXCEPT ![Top] = IF last THEN "complete" ELSE @]
                        /\ UNCHANGED <<current, seen>>
                   ELSE /\ calling' = FALSE
                        /\ seen' = [seen EXCEPT ![Top] = @ \cup {record}]
                        /\ current' = [current EXCEPT ![Depth] = record]
                        /\ UNCHANGED status
  /\ UNCHANGED <<stack, offset>>

(* Variant: a record that is passed over stays where it is. *)
TakeRecordStaying ==
  /\ calling /\ ~ Drained
  /\ LET record == R.buffer[R.cursor + 1] IN
       /\ record[2] \notin Dots[record[1]] /\ calling' = FALSE
       /\ reader' = [reader EXCEPT ![ReaderOf(Depth)].cursor = @ + 1]
       /\ seen' = [seen EXCEPT ![Top] = @ \cup {record}]
       /\ current' = [current EXCEPT ![Depth] = record]
  /\ UNCHANGED <<stack, offset, status>>

(* The next record of the buffer is passed over, or delivered. *)
TakeRecord ==
  /\ calling /\ ~ Drained
  /\ LET record == R.buffer[R.cursor + 1] IN
       /\ reader' = [reader EXCEPT ![ReaderOf(Depth)].cursor = @ + 1]
       /\ \/ record[2] \in Dots[record[1]] /\ UNCHANGED <<calling, current, seen>>
          \/ /\ record[2] \notin Dots[record[1]] /\ calling' = FALSE
             /\ seen' = [seen EXCEPT ![Top] = @ \cup {record}]
             /\ current' = [current EXCEPT ![Depth] = record]
  /\ UNCHANGED <<stack, offset, status>>

(* getdents64 fails, or the name of a record cannot be measured. *)
NextFails ==
  /\ calling
  /\ \/ /\ Drained
        /\ reader' = [reader EXCEPT ![ReaderOf(Depth)].last_errno = TRUE]
     \/ /\ ~ Drained
        /\ LET record == R.buffer[R.cursor + 1] IN record[2] \notin Dots[record[1]]
        /\ reader' = [reader EXCEPT ![ReaderOf(Depth)] =
                        [R EXCEPT !.last_errno = TRUE, !.cursor = R.cursor + 1]]
  /\ calling' = FALSE /\ status' = [status EXCEPT ![Top] = "failed"]
  /\ UNCHANGED <<stack, offset, current, seen>>

-----------------------------------------------------------------------------
(* The loop over the directory ends: its descriptor is closed. *)
Leave ==
  /\ ~ calling /\ Depth > 0
  /\ stack' = SubSeq(stack, 1, Depth - 1)
  /\ status' = [status EXCEPT ![Top] = IF @ = "listing" THEN "left" ELSE @]
  /\ UNCHANGED <<reader, offset, calling, current, seen>>

(* The worker has no directory left to open. *)
Finished == stack = <<>> /\ (\A d \in Dirs : status[d] # "closed") /\ UNCHANGED vars

Reading == (\E count \in 1 .. MaxBatch : Refill(count)) \/ NoEntry \/ TakeRecord \/ NextFails

Next == (\E d \in Dirs : Enter(d)) \/ Call \/ Reading \/ Leave \/ Finished

(* The code of next runs on once it is called. *)
Spec == Init /\ [][Next]_vars /\ WF_vars(Reading)

-----------------------------------------------------------------------------
Statuses == {"closed", "listing", "complete", "failed", "left"}

AnyRecord == {<<>>} \cup UNION {Records(d) : d \in Dirs}

TypeOK ==
  /\ stack \in Seq(Dirs) /\ Depth <= MaxDepth /\ calling \in BOOLEAN
  /\ reader \in [1 .. MaxDepth -> [dir_fd : Dirs \cup {"none"}, last_errno : BOOLEAN,
                                   buffer_used : 0 .. MaxBatch, cursor : 0 .. MaxBatch,
                                   buffer : [1 .. MaxBatch -> AnyRecord]]]
  /\ offset \in [Dirs -> Nat] /\ current \in [1 .. MaxDepth -> AnyRecord]
  /\ status \in [Dirs -> Statuses] /\ seen \in [Dirs -> SUBSET AnyRecord]

(***************************************************************************)
(* What the walks make of a reader is a listing: no entry of a directory   *)
(* is delivered twice, lost at a refill or mixed up with those of another, *)
(* whichever reader has been used for what before and however walks nest.  *)
(***************************************************************************)
L == INSTANCE Listing WITH Entries <- EntriesOf
ImplementsListing == L!Spec

(***************************************************************************)
(* A reader belongs to one directory from its reset on: the record that it *)
(* answered last stays in its buffer until the next call for the same      *)
(* directory, whatever inline walks happen before it, and last_errno is    *)
(* about the directory being read, not one before it.                      *)
(***************************************************************************)
AnswersStay ==
  /\ TypeOK
  /\ \A k \in 1 .. Depth : LET r == reader[ReaderOf(k)] IN
       /\ current[k] # <<>> => r.cursor > 0 /\ r.buffer[r.cursor] = current[k]
       /\ r.last_errno <=> status[stack[k]] = "failed"

(***************************************************************************)
(* Every call of next returns, also through batches of records that are    *)
(* all passed over.                                                        *)
(***************************************************************************)
NextReturns == calling ~> ~ calling
=============================================================================
