-------------------------- MODULE DirentReaderProofs --------------------------
(***************************************************************************)
(* Proofs about DirentReader, for every set of directories, buffer size    *)
(* and depth of inline walks.  Inv says what the reader of each directory  *)
(* on the stack has in its buffer: the last records that were read of that *)
(* directory, in order, so that what was delivered is what lies before the *)
(* cursor.                                                                 *)
(***************************************************************************)
EXTENDS DirentReader, SequenceTheorems, TLAPS

(* What a reader is. *)
AReader == [dir_fd : Dirs \cup {"none"}, last_errno : BOOLEAN,
            buffer_used : 0 .. MaxBatch, cursor : 0 .. MaxBatch,
            buffer : [1 .. MaxBatch -> AnyRecord]]

(* The entries among the first n records of d. *)
Upto(d, n) == {r \in {<<d, i>> : i \in 1 .. n} : r[2] \notin Dots[d]}

(* The directories on the stack are distinct, and all but the last are being listed. *)
Stacked ==
  /\ \A k \in 1 .. Depth : status[stack[k]] # "closed"
  /\ \A k \in 1 .. Depth - 1 : status[stack[k]] = "listing"
  /\ \A k, l \in 1 .. Depth : k # l => stack[k] # stack[l]
  /\ calling => Depth > 0 /\ status[Top] = "listing" /\ current[Depth] = <<>>
  /\ \A d \in Dirs : status[d] = "closed" => offset[d] = 0 /\ seen[d] = {}

(* What reader k has read of its directory, and what it has delivered. *)
Serves(k) == LET r == reader[k]
                 d == stack[k]
             IN  /\ r.dir_fd = d
                 /\ r.cursor <= r.buffer_used /\ r.buffer_used <= offset[d] /\ offset[d] <= Length[d]
                 /\ \A i \in 1 .. r.buffer_used : r.buffer[i] = <<d, offset[d] - r.buffer_used + i>>
                 /\ status[d] = "listing" => seen[d] = Upto(d, offset[d] - r.buffer_used + r.cursor)
                 /\ current[k] # <<>> => r.cursor > 0 /\ r.buffer[r.cursor] = current[k]
                 /\ r.last_errno <=> status[d] = "failed"

(* Every reader in use serves its directory. *)
Serving == \A k \in 1 .. Depth : Serves(k)

(* The inductive invariant. *)
Inv == TypeOK /\ Stacked /\ Serving

-----------------------------------------------------------------------------
(* The depth is a number, and what is on the stack are directories. *)
LEMMA StackFacts ==
  ASSUME TypeOK
  PROVE  /\ Depth \in Nat /\ Depth <= MaxDepth /\ MaxDepth \in Nat /\ MaxBatch \in Nat
         /\ \A k \in 1 .. Depth : stack[k] \in Dirs /\ k \in 1 .. MaxDepth
         /\ \A k \in 1 .. MaxDepth : reader[k] \in AReader
         /\ Depth > 0 => Depth \in 1 .. Depth /\ Top \in Dirs
  <1>1. stack \in Seq(Dirs) /\ Depth = Len(stack) /\ Depth <= MaxDepth
    BY DEF TypeOK, Depth
  <1>2. MaxDepth \in Nat /\ MaxBatch \in Nat
    BY ReaderAssumption
  <1>3. reader \in [1 .. MaxDepth -> AReader]
    BY DEF TypeOK, AReader
  <1>4. Depth \in Nat /\ \A k \in 1 .. Depth : stack[k] \in Dirs /\ k \in 1 .. MaxDepth
    BY <1>1, <1>2
  <1>5. Depth > 0 => Depth \in 1 .. Depth /\ Top \in Dirs
    BY <1>4 DEF Top
  <1>6. QED
    BY <1>1, <1>2, <1>3, <1>4, <1>5

(* The position in a directory is a number, and so is the number of its records. *)
LEMMA OffsetFacts ==
  ASSUME TypeOK, NEW d \in Dirs
  PROVE  offset[d] \in Nat /\ Length[d] \in Nat
  <1>1. offset \in [Dirs -> Nat] /\ Length \in [Dirs -> Nat]
    BY ReaderAssumption DEF TypeOK
  <1>2. QED
    BY <1>1

(* The records of a directory are records. *)
LEMMA RecordIsAny ==
  ASSUME NEW d \in Dirs, NEW i \in 1 .. Length[d]
  PROVE  <<d, i>> \in AnyRecord
  <1>1. <<d, i>> \in Records(d)
    BY DEF Records
  <1>2. <<d, i>> \in UNION {Records(x) : x \in Dirs}
    BY <1>1
  <1>3. QED
    BY <1>2 DEF AnyRecord

(* And so is the answer that there is none. *)
LEMMA NoneIsAny ==
  <<>> \in AnyRecord
  BY DEF AnyRecord

(* The reader of the innermost directory. *)
LEMMA ReaderFacts ==
  ASSUME TypeOK, Depth > 0
  PROVE  R = reader[Depth] /\ R \in AReader /\ Depth \in 1 .. MaxDepth
  BY StackFacts DEF R, ReaderOf

(* A reader whose directory nothing happened to serves it as before. *)
LEMMA ServesKept ==
  ASSUME NEW k, Serves(k), stack'[k] = stack[k], reader'[k] = reader[k], current'[k] = current[k],
         UNCHANGED <<offset[stack[k]], status[stack[k]], seen[stack[k]]>>
  PROVE  Serves(k)'
  BY DEF Serves, Upto

(* What a caller calls next for is being listed. *)
LEMMA CallingFacts ==
  ASSUME Inv, calling
  PROVE  /\ Depth > 0 /\ Depth \in 1 .. Depth /\ Top \in Dirs /\ Top = stack[Depth]
         /\ status[Top] = "listing" /\ current[Depth] = <<>>
         /\ R = reader[Depth] /\ R \in AReader /\ Serves(Depth) /\ R.dir_fd = Top
         /\ \A k \in 1 .. Depth : k # Depth => stack[k] # Top
  <1>1. Depth > 0 /\ status[Top] = "listing" /\ current[Depth] = <<>>
    BY DEF Inv, Stacked
  <1>2. Depth \in 1 .. Depth /\ Top \in Dirs /\ R = reader[Depth] /\ R \in AReader
    BY <1>1, StackFacts, ReaderFacts DEF Inv
  <1>3. Serves(Depth) /\ \A k \in 1 .. Depth : k # Depth => stack[k] # Top
    BY <1>2 DEF Inv, Serving, Stacked, Top
  <1>4. QED
    BY <1>1, <1>2, <1>3 DEF Serves, Top

(* The record after the cursor is the next of the directory. *)
LEMMA NextRecord ==
  ASSUME Inv, calling, ~ Drained
  PROVE  LET n == offset[Top] - R.buffer_used + R.cursor
             record == R.buffer[R.cursor + 1]
         IN  /\ n \in Nat /\ n < Length[Top] /\ record = <<Top, n + 1>>
             /\ R.cursor + 1 \in 1 .. R.buffer_used /\ R.cursor + 1 \in 0 .. MaxBatch
             /\ seen[Top] = Upto(Top, n)
             /\ record \notin seen[Top] /\ record \in AnyRecord
  <1>1. /\ R = reader[Depth] /\ R \in AReader /\ Serves(Depth) /\ Top = stack[Depth] /\ Top \in Dirs
        /\ status[Top] = "listing"
    BY CallingFacts
  <1>2. /\ R.cursor \in Nat /\ R.buffer_used \in Nat /\ R.buffer_used <= MaxBatch /\ MaxBatch \in Nat
        /\ offset[Top] \in Nat /\ Length[Top] \in Nat
    BY <1>1, ReaderAssumption, OffsetFacts DEF AReader, Inv
  <1>3. /\ R.buffer_used <= offset[Top] /\ offset[Top] <= Length[Top] /\ R.cursor < R.buffer_used
        /\ \A i \in 1 .. R.buffer_used : R.buffer[i] = <<Top, offset[Top] - R.buffer_used + i>>
        /\ seen[Top] = Upto(Top, offset[Top] - R.buffer_used + R.cursor)
    BY <1>1, <1>2 DEF Serves, Drained
  <1> DEFINE n == offset[Top] - R.buffer_used + R.cursor
  <1>4. n \in Nat /\ n < Length[Top] /\ R.cursor + 1 \in 1 .. R.buffer_used
        /\ R.cursor + 1 \in 0 .. MaxBatch /\ offset[Top] - R.buffer_used + (R.cursor + 1) = n + 1
    BY <1>2, <1>3
  <1>5. R.buffer[R.cursor + 1] = <<Top, n + 1>>
    BY <1>3, <1>4
  <1>6. <<Top, n + 1>> \notin Upto(Top, n)
    BY <1>4 DEF Upto
  <1>7. <<Top, n + 1>> \in AnyRecord
    BY <1>1, <1>2, <1>4, RecordIsAny
  <1>8. QED
    BY <1>3, <1>4, <1>5, <1>6, <1>7

-----------------------------------------------------------------------------
(* What each step does to the reader it uses. *)

(* Reset empties the buffer without touching it. *)
LEMMA EnterDoes ==
  ASSUME Inv, NEW d \in Dirs, Enter(d)
  PROVE  /\ Depth' = Depth + 1 /\ Depth + 1 \in 1 .. MaxDepth /\ stack'[Depth + 1] = d
         /\ stack' \in Seq(Dirs)
         /\ \A k \in 1 .. Depth : stack'[k] = stack[k] /\ stack[k] # d
         /\ \A k \in 1 .. MaxDepth : k # Depth + 1 => reader'[k] = reader[k] /\ current'[k] = current[k]
         /\ reader'[Depth + 1] = Reset(reader[Depth + 1], d) /\ current'[Depth + 1] = <<>>
         /\ status[d] = "closed" /\ status'[d] = "listing"
         /\ \A x \in Dirs : x # d => status'[x] = status[x]
         /\ UNCHANGED <<offset, seen, calling>> /\ ~ calling
  <1>1. Depth \in Nat /\ Depth < MaxDepth /\ MaxDepth \in Nat
    BY StackFacts DEF Inv, Enter
  <1>2. Depth + 1 \in 1 .. MaxDepth
    BY <1>1
  <1>3. stack' = Append(stack, d) /\ stack \in Seq(Dirs)
    BY DEF Enter, Inv, TypeOK
  <1>4. /\ Depth' = Depth + 1 /\ stack' \in Seq(Dirs) /\ stack'[Depth + 1] = d
        /\ \A k \in 1 .. Depth : stack'[k] = stack[k]
    BY <1>3 DEF Depth
  <1>5. \A k \in 1 .. Depth : stack[k] # d
    BY DEF Enter, Inv, Stacked
  <1>6. /\ \A k \in 1 .. MaxDepth : k # Depth + 1 => reader'[k] = reader[k] /\ current'[k] = current[k]
        /\ reader'[Depth + 1] = Reset(reader[Depth + 1], d) /\ current'[Depth + 1] = <<>>
    BY <1>2 DEF Enter, Inv, TypeOK, ReaderOf
  <1>7. QED
    BY <1>2, <1>4, <1>5, <1>6 DEF Enter, Inv, TypeOK

(* Refill replaces the batch by the next one. *)
LEMMA RefillDoes ==
  ASSUME Inv, NEW count \in 1 .. MaxBatch, Refill(count)
  PROVE  /\ calling /\ UNCHANGED <<stack, calling, current, status, seen>>
         /\ count <= Length[Top] - offset[Top] /\ offset'[Top] = offset[Top] + count
         /\ \A x \in Dirs : x # Top => offset'[x] = offset[x]
         /\ \A k \in 1 .. MaxDepth : k # Depth => reader'[k] = reader[k]
         /\ LET r == reader'[Depth]
            IN  /\ r \in AReader /\ r.dir_fd = Top /\ r.last_errno = R.last_errno
                /\ r.buffer_used = count /\ r.cursor = 0
                /\ \A i \in 1 .. count : r.buffer[i] = <<Top, offset[Top] + i>>
         /\ R.cursor = R.buffer_used
  <1>1. /\ Depth > 0 /\ R = reader[Depth] /\ R \in AReader /\ Serves(Depth) /\ Top = stack[Depth]
        /\ Top \in Dirs /\ R.dir_fd = Top /\ calling
    BY CallingFacts DEF Refill
  <1>2. Depth \in 1 .. MaxDepth
    BY <1>1, ReaderFacts DEF Inv
  <1> DEFINE fresh == [i \in 1 .. MaxBatch |->
                        IF i <= count THEN <<Top, offset[Top] + i>> ELSE R.buffer[i]]
             r == [R EXCEPT !.buffer_used = count, !.cursor = 0, !.buffer = fresh]
  <1>3. reader' = [reader EXCEPT ![Depth] = r]
    BY <1>1 DEF Refill, ReaderOf, Filled
  <1>4. /\ offset[Top] \in Nat /\ Length[Top] \in Nat /\ count \in Nat /\ MaxBatch \in Nat
        /\ count <= Length[Top] - offset[Top]
    BY <1>1, ReaderAssumption, OffsetFacts DEF Inv, Refill
  <1>5. fresh \in [1 .. MaxBatch -> AnyRecord]
    <2>1. ASSUME NEW i \in 1 .. MaxBatch PROVE fresh[i] \in AnyRecord
      <3>1. CASE i <= count
        <4>1. offset[Top] + i \in 1 .. Length[Top]
          BY <1>4, <3>1
        <4>2. <<Top, offset[Top] + i>> \in AnyRecord
          BY <1>1, <4>1, RecordIsAny
        <4>3. QED
          BY <3>1, <4>2
      <3>2. CASE ~ (i <= count)
        BY <1>1, <3>2 DEF AReader
      <3>3. QED
        BY <3>1, <3>2
    <2>2. QED
      BY <2>1
  <1> HIDE DEF fresh
  <1>6. /\ r.dir_fd = Top /\ r.last_errno = R.last_errno /\ r.buffer_used = count /\ r.cursor = 0
        /\ r.buffer = fresh /\ r \in AReader
    <2>1. /\ r.dir_fd = Top /\ r.last_errno = R.last_errno /\ r.buffer_used = count /\ r.cursor = 0
          /\ r.buffer = fresh
      BY <1>1 DEF AReader
    <2>2. count \in 0 .. MaxBatch /\ 0 \in 0 .. MaxBatch
      BY <1>4
    <2>3. r \in AReader
      BY <1>1, <1>5, <2>2 DEF AReader
    <2>4. QED
      BY <2>1, <2>3
  <1>7. \A i \in 1 .. count : fresh[i] = <<Top, offset[Top] + i>>
    BY <1>4 DEF fresh
  <1>8. reader'[Depth] = r /\ \A k \in 1 .. MaxDepth : k # Depth => reader'[k] = reader[k]
    BY <1>2, <1>3 DEF Inv, TypeOK
  <1>9. offset'[Top] = offset[Top] + count /\ \A x \in Dirs : x # Top => offset'[x] = offset[x]
    BY <1>1 DEF Refill, Inv, TypeOK
  <1>10. R.cursor = R.buffer_used
    BY <1>1 DEF Refill, Drained, Serves, AReader
  <1> HIDE DEF r
  <1>11. QED
    BY <1>1, <1>4, <1>6, <1>7, <1>8, <1>9, <1>10 DEF Refill

(* TakeRecord moves the cursor over one record. *)
LEMMA TakeRecordDoes ==
  ASSUME Inv, TakeRecord
  PROVE  LET record == R.buffer[R.cursor + 1]
         IN  /\ calling /\ UNCHANGED <<stack, offset, status>>
             /\ \A k \in 1 .. MaxDepth : k # Depth => reader'[k] = reader[k] /\ current'[k] = current[k]
             /\ reader'[Depth] = [R EXCEPT !.cursor = R.cursor + 1] /\ reader'[Depth] \in AReader
             /\ \A x \in Dirs : x # Top => seen'[x] = seen[x]
             /\ \/ record[2] \in Dots[record[1]] /\ UNCHANGED <<calling, current, seen>>
                \/ /\ record[2] \notin Dots[record[1]] /\ calling' = FALSE
                   /\ seen' = [seen EXCEPT ![Top] = @ \cup {record}]
                   /\ seen'[Top] = seen[Top] \cup {record}
                   /\ current' = [current EXCEPT ![Depth] = record]
                   /\ current'[Depth] = record
  <1>1. /\ calling /\ ~ Drained /\ Depth > 0 /\ R = reader[Depth] /\ R \in AReader /\ Top \in Dirs
    BY CallingFacts DEF TakeRecord
  <1>2. Depth \in 1 .. MaxDepth /\ R.cursor + 1 \in 0 .. MaxBatch
    BY <1>1, ReaderFacts, NextRecord DEF Inv
  <1> DEFINE record == R.buffer[R.cursor + 1]
             r == [R EXCEPT !.cursor = R.cursor + 1]
  <1>3. reader' = [reader EXCEPT ![Depth] = r]
    BY <1>1 DEF TakeRecord, ReaderOf
  <1>4. r \in AReader
    BY <1>1, <1>2 DEF AReader
  <1>5. reader'[Depth] = r /\ \A k \in 1 .. MaxDepth : k # Depth => reader'[k] = reader[k]
    BY <1>2, <1>3 DEF Inv, TypeOK
  <1>6. UNCHANGED <<stack, offset, status>>
    BY DEF TakeRecord
  <1>7. \/ record[2] \in Dots[record[1]] /\ UNCHANGED <<calling, current, seen>>
        \/ /\ record[2] \notin Dots[record[1]] /\ calling' = FALSE
           /\ seen' = [seen EXCEPT ![Top] = @ \cup {record}]
           /\ current' = [current EXCEPT ![Depth] = record]
    BY DEF TakeRecord
  <1> HIDE DEF record, r
  <1>8. /\ seen' = [seen EXCEPT ![Top] = @ \cup {record}] =>
             /\ seen'[Top] = seen[Top] \cup {record}
             /\ \A x \in Dirs : x # Top => seen'[x] = seen[x]
        /\ current' = [current EXCEPT ![Depth] = record] =>
             /\ current'[Depth] = record
             /\ \A k \in 1 .. MaxDepth : k # Depth => current'[k] = current[k]
    <2>1. seen \in [Dirs -> SUBSET AnyRecord] /\ current \in [1 .. MaxDepth -> AnyRecord]
      BY DEF Inv, TypeOK
    <2>2. QED
      BY <1>1, <1>2, <2>1
  <1>9. reader'[Depth] \in AReader
    BY <1>4, <1>5
  <1>10. /\ \A x \in Dirs : x # Top => seen'[x] = seen[x]
         /\ \A k \in 1 .. MaxDepth : k # Depth => current'[k] = current[k]
    BY <1>7, <1>8
  <1>11. QED
    BY <1>1, <1>5, <1>6, <1>7, <1>8, <1>9, <1>10 DEF record, r

(* NextFails leaves its errno in the reader. *)
LEMMA NextFailsDoes ==
  ASSUME Inv, NextFails
  PROVE  /\ calling /\ calling' = FALSE /\ UNCHANGED <<stack, offset, current, seen>>
         /\ status' = [status EXCEPT ![Top] = "failed"] /\ status'[Top] = "failed"
         /\ \A x \in Dirs : x # Top => status'[x] = status[x]
         /\ \A k \in 1 .. MaxDepth : k # Depth => reader'[k] = reader[k]
         /\ LET r == reader'[Depth]
            IN  /\ r \in AReader /\ r.last_errno = TRUE /\ r.dir_fd = R.dir_fd
                /\ r.buffer = R.buffer /\ r.buffer_used = R.buffer_used
                /\ r.cursor <= r.buffer_used
  <1>1. /\ calling /\ Depth > 0 /\ R = reader[Depth] /\ R \in AReader /\ Top \in Dirs /\ Serves(Depth)
    BY CallingFacts DEF NextFails
  <1>2. Depth \in 1 .. MaxDepth
    BY <1>1, ReaderFacts DEF Inv
  <1>3. PICK r \in AReader :
          /\ reader' = [reader EXCEPT ![Depth] = r]
          /\ r.last_errno = TRUE /\ r.dir_fd = R.dir_fd /\ r.buffer = R.buffer
          /\ r.buffer_used = R.buffer_used /\ r.cursor <= r.buffer_used
    <2>1. CASE Drained
      <3> DEFINE r == [R EXCEPT !.last_errno = TRUE]
      <3>1. reader' = [reader EXCEPT ![Depth] = r]
        BY <1>1, <2>1 DEF NextFails, ReaderOf
      <3>2. /\ r \in AReader /\ r.last_errno = TRUE /\ r.dir_fd = R.dir_fd /\ r.buffer = R.buffer
            /\ r.buffer_used = R.buffer_used /\ r.cursor = R.cursor
        BY <1>1 DEF AReader
      <3>3. R.cursor <= R.buffer_used
        BY <1>1 DEF Serves
      <3> HIDE DEF r
      <3>4. QED
        BY <3>1, <3>2, <3>3
    <2>2. CASE ~ Drained
      <3> DEFINE r == [R EXCEPT !.last_errno = TRUE, !.cursor = R.cursor + 1]
      <3>1. reader' = [reader EXCEPT ![Depth] = r]
        BY <1>1, <2>2 DEF NextFails, ReaderOf
      <3>2. R.cursor + 1 \in 0 .. MaxBatch /\ R.cursor + 1 <= R.buffer_used
        BY <1>1, <2>2, NextRecord
      <3>3. /\ r \in AReader /\ r.last_errno = TRUE /\ r.dir_fd = R.dir_fd /\ r.buffer = R.buffer
            /\ r.buffer_used = R.buffer_used /\ r.cursor = R.cursor + 1
        BY <1>1, <3>2 DEF AReader
      <3> HIDE DEF r
      <3>4. QED
        BY <3>1, <3>2, <3>3
    <2>3. QED
      BY <2>1, <2>2
  <1>4. reader'[Depth] = r /\ \A k \in 1 .. MaxDepth : k # Depth => reader'[k] = reader[k]
    BY <1>2, <1>3 DEF Inv, TypeOK
  <1>5. /\ status' = [status EXCEPT ![Top] = "failed"] /\ status'[Top] = "failed"
        /\ \A x \in Dirs : x # Top => status'[x] = status[x]
    BY <1>1 DEF NextFails, Inv, TypeOK
  <1>6. QED
    BY <1>1, <1>3, <1>4, <1>5 DEF NextFails

(* NoEntry answers that the directory ends where it does. *)
LEMMA NoEntryDoes ==
  ASSUME Inv, NoEntry
  PROVE  /\ calling /\ calling' = FALSE /\ UNCHANGED <<stack, reader, offset, current, seen>>
         /\ status' = [status EXCEPT ![Top] = "complete"] /\ status'[Top] = "complete"
         /\ \A x \in Dirs : x # Top => status'[x] = status[x]
         /\ seen[Top] = Upto(Top, Length[Top])
  <1>1. /\ calling /\ R = reader[Depth] /\ R \in AReader /\ Top \in Dirs /\ Serves(Depth)
        /\ R.dir_fd = Top /\ status[Top] = "listing" /\ Top = stack[Depth]
    BY CallingFacts DEF NoEntry
  <1>2. /\ R.cursor \in Nat /\ R.buffer_used \in Nat /\ offset[Top] \in Nat
        /\ offset[Top] = Length[Top] /\ R.cursor >= R.buffer_used
    BY <1>1, OffsetFacts, ReaderAssumption DEF NoEntry, Drained, Inv, AReader
  <1>3. R.cursor <= R.buffer_used /\ seen[Top] = Upto(Top, offset[Top] - R.buffer_used + R.cursor)
    BY <1>1 DEF Serves
  <1>4. offset[Top] - R.buffer_used + R.cursor = Length[Top]
    BY <1>2, <1>3
  <1>5. seen[Top] = Upto(Top, Length[Top])
    BY <1>3, <1>4
  <1>6. /\ status' = [status EXCEPT ![Top] = "complete"] /\ status'[Top] = "complete"
        /\ \A x \in Dirs : x # Top => status'[x] = status[x]
    BY <1>1 DEF NoEntry, Inv, TypeOK
  <1>7. QED
    BY <1>1, <1>5, <1>6 DEF NoEntry

(* Call lets go of the record answered last. *)
LEMMA CallDoes ==
  ASSUME Inv, Call
  PROVE  /\ Depth \in 1 .. Depth /\ Top \in Dirs /\ status[Top] = "listing"
         /\ calling' = TRUE /\ UNCHANGED <<stack, reader, offset, status, seen>>
         /\ current'[Depth] = <<>> /\ current' \in [1 .. MaxDepth -> AnyRecord]
         /\ \A k \in 1 .. MaxDepth : k # Depth => current'[k] = current[k]
  <1>1. Depth \in 1 .. Depth /\ Depth \in 1 .. MaxDepth /\ Top \in Dirs
    BY StackFacts, ReaderFacts DEF Call, Inv
  <1>2. /\ current' = [current EXCEPT ![Depth] = <<>>] /\ current \in [1 .. MaxDepth -> AnyRecord]
    BY DEF Call, Inv, TypeOK
  <1>3. <<>> \in AnyRecord
    BY NoneIsAny
  <1>4. QED
    BY <1>1, <1>2, <1>3 DEF Call

(* Leave takes the innermost directory off the stack. *)
LEMMA LeaveDoes ==
  ASSUME Inv, Leave
  PROVE  /\ ~ calling /\ Depth > 0 /\ Top \in Dirs /\ Top = stack[Depth]
         /\ stack' \in Seq(Dirs) /\ Depth' = Depth - 1
         /\ \A k \in 1 .. Depth - 1 : stack'[k] = stack[k] /\ stack[k] # Top
         /\ status'[Top] = IF status[Top] = "listing" THEN "left" ELSE status[Top]
         /\ \A x \in Dirs : x # Top => status'[x] = status[x]
         /\ UNCHANGED <<reader, offset, calling, current, seen>>
  <1>1. /\ ~ calling /\ Depth > 0 /\ stack' = SubSeq(stack, 1, Depth - 1)
        /\ UNCHANGED <<reader, offset, calling, current, seen>>
    BY DEF Leave
  <1>2. stack \in Seq(Dirs) /\ Depth = Len(stack) /\ Depth \in Nat
    BY StackFacts DEF Inv, TypeOK, Depth
  <1>3. Top \in Dirs /\ Top = stack[Depth] /\ Depth \in 1 .. Depth
    BY <1>1, StackFacts DEF Inv, Top
  <1>4. 1 \in 1 .. Len(stack) + 1 /\ Depth - 1 \in 0 .. Len(stack) /\ Depth - 1 >= 1 - 1
    BY <1>1, <1>2
  <1>5. /\ stack' \in Seq(Dirs) /\ Len(stack') = Depth - 1
        /\ \A k \in 1 .. Depth - 1 : stack'[k] = stack[k]
    BY <1>1, <1>2, <1>4
  <1>6. Depth' = Depth - 1
    BY <1>5 DEF Depth
  <1>7. \A k \in 1 .. Depth - 1 : stack[k] # Top
    BY <1>2, <1>3 DEF Inv, Stacked
  <1>8. /\ status'[Top] = IF status[Top] = "listing" THEN "left" ELSE status[Top]
        /\ \A x \in Dirs : x # Top => status'[x] = status[x]
    BY <1>3 DEF Leave, Inv, TypeOK
  <1>9. QED
    BY <1>1, <1>3, <1>5, <1>6, <1>7, <1>8

-----------------------------------------------------------------------------
(* TypeOK, with a name for what a reader is. *)
LEMMA TypeIs ==
  TypeOK <=> /\ stack \in Seq(Dirs) /\ Depth <= MaxDepth /\ calling \in BOOLEAN
             /\ reader \in [1 .. MaxDepth -> AReader]
             /\ offset \in [Dirs -> Nat] /\ current \in [1 .. MaxDepth -> AnyRecord]
             /\ status \in [Dirs -> Statuses] /\ seen \in [Dirs -> SUBSET AnyRecord]
  BY DEF TypeOK, AReader

(* Every step keeps the types. *)
LEMMA TypeNext ==
  ASSUME Inv, [Next]_vars
  PROVE  TypeOK'
  <1>0. /\ stack \in Seq(Dirs) /\ Depth <= MaxDepth /\ calling \in BOOLEAN
        /\ reader \in [1 .. MaxDepth -> AReader]
        /\ offset \in [Dirs -> Nat] /\ current \in [1 .. MaxDepth -> AnyRecord]
        /\ status \in [Dirs -> Statuses] /\ seen \in [Dirs -> SUBSET AnyRecord]
    BY TypeIs DEF Inv
  <1>a. TypeOK' <=> /\ stack' \in Seq(Dirs) /\ Depth' <= MaxDepth /\ calling' \in BOOLEAN
                    /\ reader' \in [1 .. MaxDepth -> AReader]
                    /\ offset' \in [Dirs -> Nat] /\ current' \in [1 .. MaxDepth -> AnyRecord]
                    /\ status' \in [Dirs -> Statuses] /\ seen' \in [Dirs -> SUBSET AnyRecord]
    BY DEF TypeOK, AReader
  <1>b. ASSUME UNCHANGED stack PROVE Depth' = Depth
    BY <1>b DEF Depth
  <1>c. /\ "listing" \in Statuses /\ "complete" \in Statuses /\ "failed" \in Statuses
        /\ "left" \in Statuses
    BY DEF Statuses
  <1>d. Depth \in Nat /\ MaxDepth \in Nat /\ MaxBatch \in Nat
    BY StackFacts DEF Inv
  <1>1. ASSUME NEW d \in Dirs, Enter(d) PROVE TypeOK'
    <2>1. Depth' = Depth + 1 /\ Depth + 1 \in 1 .. MaxDepth /\ stack' \in Seq(Dirs)
      BY <1>1, EnterDoes
    <2>2. reader' \in [1 .. MaxDepth -> AReader]
      <3>1. reader[Depth + 1] \in AReader
        BY <2>1, <1>0
      <3>2. 0 \in 0 .. MaxBatch /\ FALSE \in BOOLEAN /\ d \in Dirs \cup {"none"}
        BY <1>d
      <3>3. Reset(reader[Depth + 1], d) \in AReader
        BY <3>1, <3>2 DEF AReader, Reset
      <3>4. reader' = [reader EXCEPT ![Depth + 1] = Reset(reader[Depth + 1], d)]
        BY <1>1 DEF Enter, ReaderOf
      <3>5. QED
        BY <1>0, <3>3, <3>4
    <2>3. current' \in [1 .. MaxDepth -> AnyRecord]
      <3>1. <<>> \in AnyRecord
        BY NoneIsAny
      <3>2. QED
        BY <1>0, <1>1, <3>1 DEF Enter
    <2>4. status' \in [Dirs -> Statuses]
      BY <1>0, <1>1, <1>c DEF Enter
    <2>5. UNCHANGED <<offset, seen, calling>>
      BY <1>1 DEF Enter
    <2>6. QED
      BY <1>0, <1>a, <1>d, <2>1, <2>2, <2>3, <2>4, <2>5
  <1>2. CASE Call
    <2>1. UNCHANGED <<stack, reader, offset, status, seen>> /\ calling' = TRUE
          /\ current' \in [1 .. MaxDepth -> AnyRecord]
      BY <1>2, CallDoes
    <2>2. QED
      BY <1>0, <1>a, <1>b, <2>1
  <1>3. ASSUME NEW count \in 1 .. MaxBatch, Refill(count) PROVE TypeOK'
    <2>1. UNCHANGED <<stack, calling, current, status, seen>> /\ calling
      BY <1>3, RefillDoes
    <2>2. /\ R.dir_fd = Top /\ Top \in Dirs /\ Depth \in 1 .. MaxDepth
      BY <2>1, CallingFacts, ReaderFacts DEF Inv
    <2>3. reader' \in [1 .. MaxDepth -> AReader]
      <3>1. reader' = [reader EXCEPT ![Depth] = Filled(R, count)]
        BY <1>3 DEF Refill, ReaderOf
      <3>2. reader'[Depth] \in AReader
        BY <1>3, RefillDoes
      <3>3. Filled(R, count) \in AReader
        BY <1>0, <2>2, <3>1, <3>2
      <3>4. QED
        BY <1>0, <3>1, <3>3
    <2>4. offset' \in [Dirs -> Nat]
      <3>1. offset' = [offset EXCEPT ![Top] = @ + count]
        BY <1>3, <2>2 DEF Refill
      <3>2. offset[Top] + count \in Nat
        BY <1>0, <2>2, <1>d
      <3>3. QED
        BY <1>0, <3>1, <3>2
    <2>5. QED
      BY <1>0, <1>a, <1>b, <2>1, <2>3, <2>4
  <1>4. CASE NoEntry
    BY <1>0, <1>a, <1>b, <1>c, <1>4 DEF NoEntry
  <1>5. CASE TakeRecord
    <2>1. calling /\ ~ Drained /\ UNCHANGED <<stack, offset, status>>
      BY <1>5 DEF TakeRecord
    <2>2. reader'[Depth] \in AReader /\ Depth \in 1 .. MaxDepth /\ Top \in Dirs
      BY <1>5, <2>1, TakeRecordDoes, CallingFacts, ReaderFacts DEF Inv
    <2>3. reader' \in [1 .. MaxDepth -> AReader]
      <3> DEFINE r == [R EXCEPT !.cursor = R.cursor + 1]
      <3>1. reader' = [reader EXCEPT ![Depth] = r]
        BY <1>5, <2>1, CallingFacts DEF TakeRecord, ReaderOf
      <3> HIDE DEF r
      <3>2. r \in AReader
        BY <1>0, <2>2, <3>1
      <3>3. QED
        BY <1>0, <3>1, <3>2
    <2> DEFINE record == R.buffer[R.cursor + 1]
    <2>4. record \in AnyRecord
      BY <2>1, NextRecord
    <2>5. \/ UNCHANGED <<calling, current, seen>>
          \/ /\ calling' = FALSE /\ seen' = [seen EXCEPT ![Top] = @ \cup {record}]
             /\ current' = [current EXCEPT ![Depth] = record]
      BY <1>5, TakeRecordDoes
    <2> HIDE DEF record
    <2>6. seen[Top] \cup {record} \in SUBSET AnyRecord
      BY <1>0, <2>2, <2>4
    <2>7. /\ calling' \in BOOLEAN /\ seen' \in [Dirs -> SUBSET AnyRecord]
          /\ current' \in [1 .. MaxDepth -> AnyRecord]
      BY <1>0, <2>4, <2>5, <2>6
    <2>8. QED
      BY <1>0, <1>a, <1>b, <2>1, <2>3, <2>7
  <1>6. CASE NextFails
    <2>1. /\ calling' = FALSE /\ status' = [status EXCEPT ![Top] = "failed"]
          /\ UNCHANGED <<stack, offset, current, seen>> /\ calling
      BY <1>6 DEF NextFails
    <2>2. Depth \in 1 .. MaxDepth
      BY <2>1, CallingFacts, ReaderFacts DEF Inv
    <2>3. \E r : reader' = [reader EXCEPT ![Depth] = r]
      BY <1>6, <2>1, CallingFacts DEF NextFails, ReaderOf
    <2>4. reader'[Depth] \in AReader
      BY <1>6, NextFailsDoes
    <2>5. reader' \in [1 .. MaxDepth -> AReader]
      BY <1>0, <2>2, <2>3, <2>4
    <2>6. QED
      BY <1>0, <1>a, <1>b, <1>c, <2>1, <2>5
  <1>7. CASE Leave
    <2>1. stack' \in Seq(Dirs) /\ Depth' = Depth - 1 /\ Top \in Dirs
      BY <1>7, LeaveDoes
    <2>2. status' \in [Dirs -> Statuses]
      BY <1>0, <1>7, <1>c DEF Leave
    <2>3. QED
      BY <1>0, <1>a, <1>d, <1>7, <2>1, <2>2 DEF Leave
  <1>8. CASE Finished \/ UNCHANGED vars
    BY <1>0, <1>a, <1>b, <1>8 DEF Finished, vars
  <1>9. QED
    BY <1>1, <1>2, <1>3, <1>4, <1>5, <1>6, <1>7, <1>8 DEF Next, Reading

-----------------------------------------------------------------------------
(* Every step keeps the order of the stack. *)
LEMMA StackedNext ==
  ASSUME Inv, [Next]_vars
  PROVE  Stacked'
  <1>0. /\ \A k \in 1 .. Depth : status[stack[k]] # "closed" /\ stack[k] \in Dirs
        /\ \A k \in 1 .. Depth - 1 : status[stack[k]] = "listing"
        /\ \A k, l \in 1 .. Depth : k # l => stack[k] # stack[l]
        /\ calling => Depth > 0 /\ status[Top] = "listing" /\ current[Depth] = <<>>
        /\ \A d \in Dirs : status[d] = "closed" => offset[d] = 0 /\ seen[d] = {}
        /\ Depth \in Nat
        /\ Depth > 0 => Top \in Dirs /\ Top = stack[Depth] /\ Depth \in 1 .. Depth
    BY StackFacts DEF Inv, Stacked, Top
  <1>b. ASSUME UNCHANGED stack PROVE Depth' = Depth /\ Top' = Top
    BY <1>b DEF Depth, Top
  <1>c. ASSUME UNCHANGED stack, NEW s, s # "closed", Depth > 0,
               status'[Top] = s, \A x \in Dirs : x # Top => status'[x] = status[x]
        PROVE  /\ \A k \in 1 .. Depth : status'[stack[k]] # "closed"
               /\ \A k \in 1 .. Depth - 1 : status'[stack[k]] = "listing"
               /\ \A d \in Dirs : status'[d] = "closed" => status[d] = "closed" /\ d # Top
    <2>1. ASSUME NEW k \in 1 .. Depth PROVE status'[stack[k]] # "closed"
      BY <1>0, <1>c, <2>1
    <2>2. ASSUME NEW k \in 1 .. Depth - 1 PROVE status'[stack[k]] = "listing"
      <3>1. stack[k] # Top /\ stack[k] \in Dirs
        BY <1>0, <1>c, <2>2
      <3>2. QED
        BY <1>0, <1>c, <2>2, <3>1
    <2>3. QED
      BY <1>c, <2>1, <2>2
  <1>1. ASSUME NEW d \in Dirs, Enter(d) PROVE Stacked'
    <2>1. /\ Depth' = Depth + 1 /\ stack'[Depth + 1] = d
          /\ \A k \in 1 .. Depth : stack'[k] = stack[k] /\ stack[k] # d
          /\ status[d] = "closed" /\ status'[d] = "listing"
          /\ \A x \in Dirs : x # d => status'[x] = status[x]
          /\ UNCHANGED <<offset, seen, calling>> /\ ~ calling
      BY <1>1, EnterDoes
    <2>2. \A k \in 1 .. Depth : status[stack[k]] = "listing"
      <3>1. Depth > 0 => status[Top] = "listing"
        BY <1>1 DEF Enter
      <3>2. QED
        BY <1>0, <3>1
    <2>3. \A k \in 1 .. Depth' : k \in 1 .. Depth \/ (k = Depth + 1 /\ stack'[k] = d)
      BY <1>0, <2>1
    <2>4. \A k \in 1 .. Depth' : status'[stack'[k]] = "listing"
      BY <1>0, <2>1, <2>2, <2>3
    <2>5. \A k, l \in 1 .. Depth' : k # l => stack'[k] # stack'[l]
      BY <1>0, <2>1, <2>3
    <2>6. \A k \in 1 .. Depth' - 1 : k \in 1 .. Depth'
      BY <1>0, <2>1
    <2>7. \A x \in Dirs : status'[x] = "closed" => offset'[x] = 0 /\ seen'[x] = {}
      BY <1>0, <2>1
    <2>8. QED
      BY <2>1, <2>4, <2>5, <2>6, <2>7 DEF Stacked
  <1>2. CASE Call
    <2>1. /\ Depth > 0 /\ status[Top] = "listing" /\ UNCHANGED <<stack, reader, offset, status, seen>>
          /\ current'[Depth] = <<>>
      BY <1>0, <1>2, CallDoes
    <2>2. Depth' = Depth /\ Top' = Top
      BY <1>b, <2>1
    <2>3. QED
      BY <1>0, <2>1, <2>2 DEF Stacked
  <1>3. ASSUME NEW count \in 1 .. MaxBatch, Refill(count) PROVE Stacked'
    <2>1. /\ calling /\ UNCHANGED <<stack, calling, current, status, seen>>
          /\ \A x \in Dirs : x # Top => offset'[x] = offset[x]
      BY <1>3, RefillDoes
    <2>2. Depth' = Depth /\ Top' = Top
      BY <1>b, <2>1
    <2>3. QED
      BY <1>0, <2>1, <2>2 DEF Stacked
  <1>4. CASE NoEntry \/ NextFails
    <2>1. PICK s \in {"complete", "failed"} :
            /\ calling /\ calling' = FALSE /\ UNCHANGED <<stack, offset, current, seen>>
            /\ status'[Top] = s /\ \A x \in Dirs : x # Top => status'[x] = status[x]
      BY <1>4, NoEntryDoes, NextFailsDoes
    <2>2. Depth' = Depth /\ Top' = Top
      BY <1>b, <2>1
    <2>3. /\ \A k \in 1 .. Depth : status'[stack[k]] # "closed"
          /\ \A k \in 1 .. Depth - 1 : status'[stack[k]] = "listing"
          /\ \A d \in Dirs : status'[d] = "closed" => status[d] = "closed" /\ d # Top
      BY <1>0, <1>c, <2>1
    <2>4. QED
      BY <1>0, <2>1, <2>2, <2>3 DEF Stacked
  <1>5. CASE TakeRecord
    <2>1. /\ calling /\ UNCHANGED <<stack, offset, status>>
          /\ \A x \in Dirs : x # Top => seen'[x] = seen[x]
          /\ calling' => UNCHANGED current
      BY <1>5, TakeRecordDoes
    <2>2. Depth' = Depth /\ Top' = Top
      BY <1>b, <2>1
    <2>3. QED
      BY <1>0, <2>1, <2>2 DEF Stacked
  <1>6. CASE Leave
    <2>1. /\ ~ calling /\ Depth > 0 /\ Depth' = Depth - 1
          /\ \A k \in 1 .. Depth - 1 : stack'[k] = stack[k] /\ stack[k] # Top
          /\ status'[Top] = IF status[Top] = "listing" THEN "left" ELSE status[Top]
          /\ \A x \in Dirs : x # Top => status'[x] = status[x]
          /\ UNCHANGED <<reader, offset, calling, current, seen>>
      BY <1>6, LeaveDoes
    <2>2. status'[Top] # "closed"
      BY <1>0, <2>1
    <2>3. \A k \in 1 .. Depth' : k \in 1 .. Depth /\ k \in 1 .. Depth - 1
      BY <1>0, <2>1
    <2>4. \A k \in 1 .. Depth' : status'[stack'[k]] = "listing"
      BY <1>0, <2>1, <2>3
    <2>5. \A k, l \in 1 .. Depth' : k # l => stack'[k] # stack'[l]
      BY <1>0, <2>1, <2>3
    <2>6. \A k \in 1 .. Depth' - 1 : k \in 1 .. Depth'
      BY <1>0, <2>1
    <2>7. \A x \in Dirs : status'[x] = "closed" => offset'[x] = 0 /\ seen'[x] = {}
      BY <1>0, <2>1, <2>2
    <2>8. QED
      BY <2>1, <2>4, <2>5, <2>6, <2>7 DEF Stacked
  <1>7. CASE Finished \/ UNCHANGED vars
    BY <1>7 DEF Finished, vars, Inv, Stacked, Depth, Top
  <1>8. QED
    BY <1>1, <1>2, <1>3, <1>4, <1>5, <1>6, <1>7 DEF Next, Reading

-----------------------------------------------------------------------------
(* The entries among one record more. *)
LEMMA UptoOneMore ==
  ASSUME NEW d, NEW n \in Nat
  PROVE  Upto(d, n + 1) = IF n + 1 \in Dots[d] THEN Upto(d, n) ELSE Upto(d, n) \cup {<<d, n + 1>>}
  <1>1. {<<d, i>> : i \in 1 .. n + 1} = {<<d, i>> : i \in 1 .. n} \cup {<<d, n + 1>>}
    <2>1. 1 .. n + 1 = (1 .. n) \cup {n + 1}
      OBVIOUS
    <2>2. QED
      BY <2>1
  <1>2. <<d, n + 1>>[2] = n + 1
    OBVIOUS
  <1>3. QED
    BY <1>1, <1>2 DEF Upto

(* Every step keeps what the readers serve. *)
LEMMA ServingNext ==
  ASSUME Inv, [Next]_vars
  PROVE  Serving'
  <1>0. /\ \A k \in 1 .. Depth : /\ Serves(k) /\ stack[k] \in Dirs /\ k \in 1 .. MaxDepth
                                 /\ reader[k] \in AReader
        /\ Depth \in Nat
    BY StackFacts DEF Inv, Serving
  <1>b. ASSUME UNCHANGED stack PROVE Depth' = Depth
    BY <1>b DEF Depth
  <1>c. ASSUME calling, UNCHANGED stack, Serves(Depth)',
               \A k \in 1 .. MaxDepth : k # Depth => reader'[k] = reader[k] /\ current'[k] = current[k],
               \A x \in Dirs : x # Top => UNCHANGED <<offset[x], status[x], seen[x]>>
        PROVE  Serving'
    <2>1. ASSUME NEW k \in 1 .. Depth, k # Depth PROVE Serves(k)'
      <3>1. stack[k] # Top /\ stack[k] \in Dirs /\ Serves(k) /\ k \in 1 .. MaxDepth
        BY <1>0, <1>c, <2>1, CallingFacts
      <3>2. /\ stack'[k] = stack[k] /\ reader'[k] = reader[k] /\ current'[k] = current[k]
            /\ UNCHANGED <<offset[stack[k]], status[stack[k]], seen[stack[k]]>>
        BY <1>c, <2>1, <3>1
      <3>3. QED
        BY <3>1, <3>2, ServesKept
    <2>2. QED
      BY <1>b, <1>c, <2>1 DEF Serving
  <1>1. ASSUME NEW d \in Dirs, Enter(d) PROVE Serving'
    <2>1. /\ Depth' = Depth + 1 /\ Depth + 1 \in 1 .. MaxDepth /\ stack'[Depth + 1] = d
          /\ \A k \in 1 .. Depth : stack'[k] = stack[k] /\ stack[k] # d
          /\ \A k \in 1 .. MaxDepth : k # Depth + 1 => reader'[k] = reader[k] /\ current'[k] = current[k]
          /\ reader'[Depth + 1] = Reset(reader[Depth + 1], d) /\ current'[Depth + 1] = <<>>
          /\ status[d] = "closed" /\ status'[d] = "listing"
          /\ \A x \in Dirs : x # d => status'[x] = status[x]
          /\ UNCHANGED <<offset, seen, calling>> /\ ~ calling
      BY <1>1, EnterDoes
    <2>2. ASSUME NEW k \in 1 .. Depth PROVE Serves(k)'
      <3>1. /\ Serves(k) /\ stack[k] \in Dirs /\ k \in 1 .. MaxDepth /\ k # Depth + 1
        BY <1>0, <2>2
      <3>2. /\ stack'[k] = stack[k] /\ reader'[k] = reader[k] /\ current'[k] = current[k]
            /\ UNCHANGED <<offset[stack[k]], status[stack[k]], seen[stack[k]]>>
        BY <2>1, <2>2, <3>1
      <3>3. QED
        BY <3>1, <3>2, ServesKept
    <2>3. ASSUME NEW k, k = Depth + 1 PROVE Serves(k)'
      <3> DEFINE r == reader'[k]
      <3>1. r.dir_fd = d /\ r.last_errno = FALSE /\ r.buffer_used = 0 /\ r.cursor = 0
        <4>1. reader[Depth + 1] \in AReader
          BY <2>1, StackFacts DEF Inv
        <4>2. QED
          BY <2>1, <2>3, <4>1 DEF Reset, AReader
      <3>2. offset'[d] = 0 /\ seen'[d] = {} /\ Length[d] \in Nat
        BY <2>1, OffsetFacts DEF Inv, Stacked
      <3>3. Upto(d, 0) = {}
        <4>1. 1 .. 0 = {}
          OBVIOUS
        <4>2. QED
          BY <4>1 DEF Upto
      <3>4. offset'[d] - r.buffer_used + r.cursor = 0
        BY <3>1, <3>2
      <3>5. Upto(d, offset'[d] - r.buffer_used + r.cursor) = seen'[d]
        BY <3>2, <3>3, <3>4
      <3>6. \A i \in 1 .. r.buffer_used : FALSE
        BY <3>1
      <3>7. /\ r.cursor <= r.buffer_used /\ r.buffer_used <= offset'[d] /\ offset'[d] <= Length[d]
            /\ r.last_errno <=> status'[d] = "failed"
        BY <2>1, <3>1, <3>2
      <3>8. stack'[k] = d /\ current'[k] = <<>>
        BY <2>1, <2>3
      <3> HIDE DEF r
      <3>9. QED
        BY <3>1, <3>5, <3>6, <3>7, <3>8 DEF Serves, Upto, r
    <2>4. \A k \in 1 .. Depth' : k \in 1 .. Depth \/ k = Depth + 1
      BY <1>0, <2>1
    <2>5. QED
      BY <2>2, <2>3, <2>4 DEF Serving
  <1>2. CASE Call
    <2>1. /\ Depth \in 1 .. Depth /\ UNCHANGED <<stack, reader, offset, status, seen>>
          /\ current'[Depth] = <<>>
          /\ \A k \in 1 .. MaxDepth : k # Depth => current'[k] = current[k]
      BY <1>2, CallDoes
    <2>2. Serves(Depth)'
      <3>1. Serves(Depth)
        BY <1>0, <2>1
      <3>2. QED
        BY <1>b, <2>1, <3>1 DEF Serves, Upto
    <2>3. ASSUME NEW k \in 1 .. Depth, k # Depth PROVE Serves(k)'
      <3>1. Serves(k) /\ current'[k] = current[k]
        BY <1>0, <2>1, <2>3
      <3>2. QED
        BY <2>1, <3>1, ServesKept
    <2>4. QED
      BY <1>b, <2>1, <2>2, <2>3 DEF Serving
  <1>3. ASSUME NEW count \in 1 .. MaxBatch, Refill(count) PROVE Serving'
    <2> DEFINE r == reader'[Depth]
    <2>1. /\ calling /\ UNCHANGED <<stack, calling, current, status, seen>>
          /\ count <= Length[Top] - offset[Top] /\ offset'[Top] = offset[Top] + count
          /\ \A x \in Dirs : x # Top => offset'[x] = offset[x]
          /\ \A k \in 1 .. MaxDepth : k # Depth => reader'[k] = reader[k]
          /\ r \in AReader /\ r.dir_fd = Top /\ r.last_errno = R.last_errno
          /\ r.buffer_used = count /\ r.cursor = 0
          /\ \A i \in 1 .. count : r.buffer[i] = <<Top, offset[Top] + i>>
          /\ R.cursor = R.buffer_used
      BY <1>3, RefillDoes
    <2>2. /\ Top \in Dirs /\ Top = stack[Depth] /\ status[Top] = "listing" /\ current[Depth] = <<>>
          /\ R = reader[Depth] /\ R \in AReader /\ Serves(Depth)
      BY <2>1, CallingFacts
    <2>3. /\ offset[Top] \in Nat /\ Length[Top] \in Nat /\ count \in Nat /\ R.buffer_used \in Nat
      BY <2>2, OffsetFacts, ReaderAssumption DEF Inv, AReader
    <2>4. seen[Top] = Upto(Top, offset[Top] - R.buffer_used + R.cursor) /\ R.last_errno = FALSE
      BY <2>2 DEF Serves, AReader
    <2>5. /\ offset[Top] - R.buffer_used + R.cursor = offset[Top]
          /\ offset'[Top] - r.buffer_used + r.cursor = offset[Top]
          /\ offset'[Top] - r.buffer_used = offset[Top]
      BY <2>1, <2>3
    <2>6. seen'[Top] = Upto(Top, offset'[Top] - r.buffer_used + r.cursor)
      BY <2>1, <2>4, <2>5
    <2>7. \A i \in 1 .. r.buffer_used : r.buffer[i] = <<Top, offset'[Top] - r.buffer_used + i>>
      BY <2>1, <2>5
    <2>8. r.cursor <= r.buffer_used /\ r.buffer_used <= offset'[Top] /\ offset'[Top] <= Length[Top]
      BY <2>1, <2>3
    <2>9. current'[Depth] = <<>> /\ stack'[Depth] = Top /\ status'[Top] = "listing"
          /\ r.last_errno = FALSE /\ Depth' = Depth
      BY <1>b, <2>1, <2>2, <2>4
    <2> HIDE DEF r
    <2>10. Serves(Depth)'
      BY <2>1, <2>6, <2>7, <2>8, <2>9 DEF Serves, Upto, r
    <2>11. QED
      BY <1>c, <2>1, <2>10 DEF r
  <1>4. CASE NoEntry
    <2>1. /\ calling /\ UNCHANGED <<stack, reader, offset, current, seen>>
          /\ status'[Top] = "complete"
          /\ \A x \in Dirs : x # Top => status'[x] = status[x]
      BY <1>4, NoEntryDoes
    <2>2. Serves(Depth) /\ status[Top] = "listing" /\ Top = stack[Depth]
      BY <2>1, CallingFacts
    <2>3. Serves(Depth)'
      BY <1>b, <2>1, <2>2 DEF Serves
    <2>4. QED
      BY <1>c, <2>1, <2>3
  <1>5. CASE TakeRecord
    <2> DEFINE record == R.buffer[R.cursor + 1]
               r == reader'[Depth]
               n == offset[Top] - R.buffer_used + R.cursor
    <2>1. /\ calling /\ ~ Drained /\ UNCHANGED <<stack, offset, status>>
          /\ \A k \in 1 .. MaxDepth : k # Depth => reader'[k] = reader[k] /\ current'[k] = current[k]
          /\ r = [R EXCEPT !.cursor = R.cursor + 1]
          /\ \A x \in Dirs : x # Top => seen'[x] = seen[x]
          /\ \/ record[2] \in Dots[record[1]] /\ UNCHANGED <<calling, current, seen>>
             \/ /\ record[2] \notin Dots[record[1]]
                /\ seen'[Top] = seen[Top] \cup {record} /\ current'[Depth] = record
      BY <1>5, TakeRecordDoes DEF TakeRecord
    <2>2. /\ n \in Nat /\ n < Length[Top] /\ record = <<Top, n + 1>>
          /\ R.cursor + 1 \in 1 .. R.buffer_used /\ seen[Top] = Upto(Top, n)
      BY <2>1, NextRecord
    <2>3. /\ Top \in Dirs /\ Top = stack[Depth] /\ status[Top] = "listing" /\ current[Depth] = <<>>
          /\ R = reader[Depth] /\ R \in AReader /\ Serves(Depth)
      BY <2>1, CallingFacts
    <2>4. /\ r.dir_fd = R.dir_fd /\ r.last_errno = R.last_errno /\ r.buffer = R.buffer
          /\ r.buffer_used = R.buffer_used /\ r.cursor = R.cursor + 1
      BY <2>1, <2>3 DEF AReader
    <2>5. /\ R.cursor \in Nat /\ R.buffer_used \in Nat /\ offset[Top] \in Nat
      BY <2>3, OffsetFacts, ReaderAssumption DEF Inv, AReader
    <2>6. record[1] = Top /\ record[2] = n + 1
      BY <2>2
    <2>7. seen'[Top] = Upto(Top, n + 1)
      <3>1. \/ n + 1 \in Dots[Top] /\ seen'[Top] = seen[Top]
            \/ n + 1 \notin Dots[Top] /\ seen'[Top] = seen[Top] \cup {<<Top, n + 1>>}
        BY <2>1, <2>2, <2>6
      <3>2. QED
        BY <2>2, <3>1, UptoOneMore
    <2>8. offset'[Top] - r.buffer_used + r.cursor = n + 1
      BY <2>1, <2>4, <2>5
    <2>9. current'[Depth] # <<>> => r.cursor > 0 /\ r.buffer[r.cursor] = current'[Depth]
      <3>1. r.cursor > 0 /\ r.buffer[r.cursor] = record
        BY <2>4, <2>5
      <3>2. current'[Depth] = <<>> \/ current'[Depth] = record
        BY <2>1, <2>3
      <3>3. QED
        BY <3>1, <3>2
    <2>10. /\ r.dir_fd = Top /\ r.cursor <= r.buffer_used /\ r.buffer_used <= offset'[Top]
           /\ offset'[Top] <= Length[Top]
           /\ \A i \in 1 .. r.buffer_used : r.buffer[i] = <<Top, offset'[Top] - r.buffer_used + i>>
           /\ r.last_errno <=> status'[Top] = "failed"
      BY <2>1, <2>2, <2>3, <2>4, <2>5 DEF Serves
    <2>11. stack'[Depth] = Top /\ Depth' = Depth
      BY <1>b, <2>1, <2>3
    <2>12. seen'[Top] = Upto(Top, offset'[Top] - r.buffer_used + r.cursor)
      BY <2>7, <2>8
    <2> HIDE DEF r, record, n
    <2>13. Serves(Depth)'
      BY <2>9, <2>10, <2>11, <2>12 DEF Serves, Upto, r
    <2>14. QED
      BY <1>c, <2>1, <2>13
  <1>6. CASE NextFails
    <2> DEFINE r == reader'[Depth]
    <2>1. /\ calling /\ UNCHANGED <<stack, offset, current, seen>>
          /\ status'[Top] = "failed" /\ \A x \in Dirs : x # Top => status'[x] = status[x]
          /\ \A k \in 1 .. MaxDepth : k # Depth => reader'[k] = reader[k]
          /\ r.last_errno = TRUE /\ r.dir_fd = R.dir_fd
          /\ r.buffer = R.buffer /\ r.buffer_used = R.buffer_used /\ r.cursor <= r.buffer_used
      BY <1>6, NextFailsDoes
    <2>2. /\ Top \in Dirs /\ Top = stack[Depth] /\ current[Depth] = <<>>
          /\ R = reader[Depth] /\ Serves(Depth)
      BY <2>1, CallingFacts
    <2>3. stack'[Depth] = Top /\ Depth' = Depth /\ current'[Depth] = <<>>
      BY <1>b, <2>1, <2>2
    <2>4. /\ r.dir_fd = Top /\ r.buffer_used <= offset'[Top] /\ offset'[Top] <= Length[Top]
          /\ \A i \in 1 .. r.buffer_used : r.buffer[i] = <<Top, offset'[Top] - r.buffer_used + i>>
      BY <2>1, <2>2 DEF Serves
    <2> HIDE DEF r
    <2>5. Serves(Depth)'
      BY <2>1, <2>3, <2>4 DEF Serves, r
    <2>6. QED
      BY <1>c, <2>1, <2>5
  <1>7. CASE Leave
    <2>1. /\ Depth > 0 /\ Depth' = Depth - 1
          /\ \A k \in 1 .. Depth - 1 : stack'[k] = stack[k] /\ stack[k] # Top
          /\ \A x \in Dirs : x # Top => status'[x] = status[x]
          /\ UNCHANGED <<reader, offset, calling, current, seen>>
      BY <1>7, LeaveDoes
    <2>2. ASSUME NEW k \in 1 .. Depth' PROVE Serves(k)'
      <3>1. Serves(k) /\ stack[k] \in Dirs /\ stack'[k] = stack[k] /\ stack[k] # Top
        BY <1>0, <2>1, <2>2
      <3>2. /\ reader'[k] = reader[k] /\ current'[k] = current[k]
            /\ UNCHANGED <<offset[stack[k]], status[stack[k]], seen[stack[k]]>>
        BY <2>1, <3>1
      <3>3. QED
        BY <3>1, <3>2, ServesKept
    <2>3. QED
      BY <2>2 DEF Serving
  <1>8. CASE Finished \/ UNCHANGED vars
    <2>1. UNCHANGED <<stack, reader, offset, calling, current, status, seen>>
      BY <1>8 DEF Finished, vars
    <2>2. QED
      BY <1>0, <1>b, <2>1, ServesKept DEF Serving
  <1>9. QED
    BY <1>1, <1>2, <1>3, <1>4, <1>5, <1>6, <1>7, <1>8 DEF Next, Reading

-----------------------------------------------------------------------------
(* Inv holds while nothing is open. *)
LEMMA InvInit ==
  ASSUME Init
  PROVE  Inv
  <1>1. Depth = 0
    BY DEF Init, Depth
  <1>2. TypeOK
    <2>1. <<>> \in AnyRecord
      BY NoneIsAny
    <2>2. MaxBatch \in Nat /\ MaxDepth \in Nat /\ 0 \in 0 .. MaxBatch
      BY ReaderAssumption
    <2> DEFINE new == [dir_fd |-> "none", last_errno |-> FALSE, buffer_used |-> 0, cursor |-> 0,
                       buffer |-> [i \in 1 .. MaxBatch |-> <<>>]]
    <2>3. new \in AReader
      BY <2>1, <2>2 DEF AReader
    <2>4. reader = [k \in 1 .. MaxDepth |-> new]
      BY DEF Init
    <2> HIDE DEF new
    <2>5. reader \in [1 .. MaxDepth -> AReader]
      BY <2>3, <2>4
    <2>6. /\ offset \in [Dirs -> Nat] /\ current \in [1 .. MaxDepth -> AnyRecord]
          /\ status \in [Dirs -> Statuses] /\ seen \in [Dirs -> SUBSET AnyRecord]
      BY <2>1 DEF Init, Statuses
    <2>7. stack \in Seq(Dirs) /\ Depth <= MaxDepth /\ calling \in BOOLEAN
      <3>1. stack = <<>> /\ calling = FALSE
        BY DEF Init
      <3>2. stack \in Seq(Dirs)
        BY <3>1, EmptySeq
      <3>3. Depth <= MaxDepth
        BY <1>1, <2>2
      <3>4. QED
        BY <3>1, <3>2, <3>3
    <2>8. QED
      BY <2>5, <2>6, <2>7, TypeIs
  <1>3. Stacked
    BY <1>1 DEF Init, Stacked
  <1>4. Serving
    BY <1>1 DEF Serving
  <1>5. QED
    BY <1>2, <1>3, <1>4 DEF Inv

(* Inv is inductive. *)
LEMMA InvNext ==
  ASSUME Inv, [Next]_vars
  PROVE  Inv'
  BY TypeNext, StackedNext, ServingNext DEF Inv

(* It holds in every reachable state. *)
LEMMA InvAlways ==
  Spec => []Inv
  BY InvInit, InvNext, PTL DEF Spec

(***************************************************************************)
(* An entry that bc_io_dirent_reader_next handed out stays in the buffer   *)
(* until the next call for its directory, however deep walks nest, and     *)
(* last_errno tells of the directory being read.                           *)
(***************************************************************************)
THEOREM AnswersAreStable ==
  Spec => []AnswersStay
  <1>1. Inv => AnswersStay
    BY DEF Inv, Serving, Serves, AnswersStay, ReaderOf
  <1>2. QED
    BY <1>1, InvAlways, PTL

-----------------------------------------------------------------------------
(* The first Length[d] records are all of them. *)
LEMMA UptoAll ==
  ASSUME NEW d \in Dirs
  PROVE  Upto(d, Length[d]) = EntriesOf[d]
  BY DEF Upto, EntriesOf, Records

(* Every step is one of the listing of one directory, or none. *)
LEMMA ListingNext ==
  ASSUME Inv, [Next]_vars
  PROVE  [L!Next]_(L!listing)
  <1>0. /\ status \in [Dirs -> Statuses] /\ seen \in [Dirs -> SUBSET AnyRecord]
    BY DEF Inv, TypeOK
  <1>1. ASSUME NEW d \in Dirs, Enter(d) PROVE L!Next
    <2>1. L!Open(d)
      BY <1>1 DEF Enter, L!Open, L!Moves
    <2>2. QED
      BY <2>1 DEF L!Next
  <1>2. CASE Call
    BY <1>2 DEF Call, L!listing
  <1>3. ASSUME NEW count \in 1 .. MaxBatch, Refill(count) PROVE UNCHANGED L!listing
    BY <1>3 DEF Refill, L!listing
  <1>4. CASE NoEntry
    <2>1. Top \in Dirs /\ status[Top] = "listing"
      BY <1>4, CallingFacts DEF NoEntry
    <2>2. /\ status' = [status EXCEPT ![Top] = "complete"] /\ UNCHANGED seen
          /\ seen[Top] = EntriesOf[Top]
      BY <1>4, <2>1, NoEntryDoes, UptoAll
    <2>3. L!End(Top)
      BY <2>1, <2>2 DEF L!End, L!Moves
    <2>4. QED
      BY <2>1, <2>3 DEF L!Next
  <1>5. CASE TakeRecord
    <2> DEFINE record == R.buffer[R.cursor + 1]
    <2>1. calling /\ ~ Drained /\ UNCHANGED status
      BY <1>5 DEF TakeRecord
    <2>2. Top \in Dirs /\ status[Top] = "listing"
      BY <2>1, CallingFacts
    <2>3. CASE UNCHANGED seen
      BY <2>1, <2>3 DEF L!listing
    <2>4. CASE record[2] \notin Dots[record[1]] /\ seen' = [seen EXCEPT ![Top] = @ \cup {record}]
      <3>1. PICK n \in Nat : n < Length[Top] /\ record = <<Top, n + 1>> /\ record \notin seen[Top]
        BY <2>1, NextRecord
      <3>2. n + 1 \in 1 .. Length[Top]
        BY <2>2, <3>1, OffsetFacts DEF Inv
      <3>3. record \in Records(Top) /\ record[1] = Top
        BY <3>1, <3>2 DEF Records
      <3> HIDE DEF record
      <3>4. record \in EntriesOf[Top] \ seen[Top]
        BY <2>2, <2>4, <3>1, <3>3 DEF EntriesOf
      <3>5. L!Deliver(Top)
        BY <2>1, <2>2, <2>4, <3>4 DEF L!Deliver
      <3>6. QED
        BY <2>2, <3>5 DEF L!Next
    <2>5. QED
      BY <1>5, <2>3, <2>4, TakeRecordDoes
  <1>6. CASE NextFails
    <2>1. Top \in Dirs /\ status[Top] = "listing"
      BY <1>6, CallingFacts DEF NextFails
    <2>2. L!Fail(Top)
      BY <1>6, <2>1 DEF NextFails, L!Fail, L!Moves
    <2>3. QED
      BY <2>1, <2>2 DEF L!Next
  <1>7. CASE Leave
    <2>1. Top \in Dirs /\ UNCHANGED seen
      BY <1>7, LeaveDoes
    <2>2. status' = [status EXCEPT ![Top] = IF status[Top] = "listing" THEN "left" ELSE status[Top]]
      BY <1>7 DEF Leave
    <2>3. CASE status[Top] = "listing"
      <3>1. L!Leave(Top)
        BY <2>1, <2>2, <2>3 DEF L!Leave, L!Moves
      <3>2. QED
        BY <2>1, <3>1 DEF L!Next
    <2>4. CASE status[Top] # "listing"
      BY <1>0, <2>1, <2>2, <2>4 DEF L!listing
    <2>5. QED
      BY <2>3, <2>4
  <1>8. CASE Finished \/ UNCHANGED vars
    BY <1>8 DEF Finished, vars, L!listing
  <1>9. QED
    BY <1>1, <1>2, <1>3, <1>4, <1>5, <1>6, <1>7, <1>8 DEF Next, Reading

(***************************************************************************)
(* What bc_io_dirent_reader_next hands out is a listing: of every          *)
(* directory each entry at most once and nothing else, and the end only    *)
(* after the last of them, whatever the sizes of the batches and of the    *)
(* buffer, the dots among the records and the nesting of inline walks.     *)
(***************************************************************************)
THEOREM ReaderImplementsListing ==
  Spec => ImplementsListing
  <1>1. Init => L!Init
    BY DEF Init, L!Init
  <1>2. Inv /\ [Next]_vars => [L!Next]_(L!listing)
    BY ListingNext
  <1>3. QED
    BY <1>1, <1>2, InvAlways, PTL DEF Spec, ImplementsListing, L!Spec
=============================================================================
