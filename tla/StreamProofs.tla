---------------------------- MODULE StreamProofs ----------------------------
(***************************************************************************)
(* Proofs about Stream, for every buffer size, every size of a chunk and   *)
(* every outcome of the system calls.  NoByteLost is inductive together    *)
(* with Protocol, which says what each loop of system calls works on, and  *)
(* with the ranges of the counters it adds up.                             *)
(***************************************************************************)
EXTENDS Stream, TLAPS

(* The ranges of what NoByteLost adds up. *)
Counts ==
  /\ buffer_used \in 0 .. BufferSize
  /\ written \in Nat /\ accepted \in Nat
  /\ want \in Nat /\ total \in 0 .. want /\ pending \in Nat

(***************************************************************************)
(* A flush works on the whole buffer, a direct write finds it empty, a     *)
(* stream opened for reading starts neither and buffers nothing; nothing   *)
(* runs before the stream is open.                                         *)
(***************************************************************************)
Protocol ==
  /\ mode \in {"read", "write"}
  /\ op \in Loops \cup {"none"}
  /\ phase = "new" => mode = "read" /\ op = "none"
  /\ op \in Flushes => mode = "write" /\ want = buffer_used
  /\ op = "direct" => mode = "write" /\ buffer_used = 0
  /\ op = "read" => mode = "read"
  /\ mode = "read" => buffer_used = 0 /\ written = 0 /\ accepted = 0

(* The inductive invariant for NoByteLost. *)
Inv == Counts /\ Protocol /\ NoByteLost

-----------------------------------------------------------------------------
(* A new stream has written and buffered nothing. *)
LEMMA InvInit == Init => Inv
  <1> SUFFICES ASSUME Init PROVE Inv
    OBVIOUS
  <1>1. Counts
    BY StreamAssumption DEF Init, Counts
  <1>2. Protocol
    BY DEF Init, Protocol, Loops, Flushes
  <1>3. NoByteLost
    BY DEF Init, NoByteLost, Flushed, Unacknowledged, Flushes
  <1>4. QED
    BY <1>1, <1>2, <1>3 DEF Inv

(***************************************************************************)
(* A step that moves no byte and leaves the state of the writing loops     *)
(* alone loses none.  An open changes the mode and a read the contents of  *)
(* the buffer, but no byte to be written is in it then.                    *)
(***************************************************************************)
LEMMA NoByteMoved ==
  ASSUME Inv, UNCHANGED <<buffer_used, device, written, accepted>>,
         UNCHANGED <<buffer, mode>> \/ buffer_used = 0,
         Flushed' = Flushed, Unacknowledged' = Unacknowledged
  PROVE  NoByteLost'
  <1>1. Counts /\ NoByteLost
    BY DEF Inv
  <1>2. (written + buffer_used = accepted + Flushed + Unacknowledged)'
    BY <1>1 DEF NoByteLost
  <1>3. (\A i \in 0 .. written - 1 : device[i] = i + 1)'
    BY <1>1 DEF NoByteLost
  <1>4. ASSUME mode' = "write"
        PROVE  (\A i \in 0 .. buffer_used - 1 : buffer[i] = written - Flushed + i + 1)'
    <2>1. CASE UNCHANGED <<buffer, mode>>
      BY <1>1, <1>4, <2>1 DEF NoByteLost
    <2>2. CASE buffer_used = 0
      BY <2>2
    <2>3. QED
      BY <2>1, <2>2
  <1>5. QED
    BY <1>2, <1>3, <1>4 DEF NoByteLost

(* Opening a stream preserves the invariant. *)
LEMMA InvOpen == ASSUME Inv, Open PROVE Inv'
  <1>1. /\ UNCHANGED <<buffer, buffer_used, device, written, accepted>>
        /\ UNCHANGED <<op, want, total, pending>>
        /\ phase = "new" /\ phase' \in {"open", "failed"}
        /\ mode' \in {"read", "write"}
    <2>1. ASSUME NEW m \in {"read", "write"}, OpenFile(m) PROVE <1>1!:
      BY <2>1 DEF OpenFile, AllocateWithBuffer, NothingDone, loop, output
    <2>2. ASSUME NEW m \in {"read", "write"}, NEW s \in {"file", "pipe", "memory"},
                 OpenFileDescriptor(m, s)
          PROVE  <1>1!:
      BY <2>2 DEF OpenFileDescriptor, AllocateWithBuffer, NothingDone, loop, output
    <2>3. CASE OpenMemory
      BY <2>3 DEF OpenMemory, NothingDone, loop, output
    <2>4. QED
      BY <2>1, <2>2, <2>3 DEF Open
  <1>2. mode = "read" /\ op = "none" /\ buffer_used = 0 /\ written = 0 /\ accepted = 0
    BY <1>1 DEF Inv, Protocol
  <1>3. Counts'
    BY <1>1 DEF Inv, Counts
  <1>4. Protocol'
    BY <1>1, <1>2 DEF Inv, Protocol, Flushes, Loops
  <1>5. NoByteLost'
    <2>1. Flushed' = Flushed /\ Unacknowledged' = Unacknowledged
      BY <1>1 DEF Flushed, Unacknowledged
    <2>2. QED
      BY <1>1, <1>2, <2>1, NoByteMoved
  <1>6. QED
    BY <1>3, <1>4, <1>5 DEF Inv

-----------------------------------------------------------------------------
(***************************************************************************)
(* Putting a chunk behind what the buffer still has to write keeps every   *)
(* byte: `at` is where that ends, the fill of the buffer if nothing was    *)
(* flushed and zero if all of it was.                                      *)
(***************************************************************************)
LEMMA ChunkBuffered ==
  ASSUME Inv, NEW at \in Nat, NEW size \in Nat,
         (Flushed = 0 /\ at = buffer_used) \/ (Flushed = buffer_used /\ at = 0),
         mode = "write", op # "direct", at + size <= BufferSize,
         BufferChunk(at, size), op' \notin Flushes, op' # "direct",
         UNCHANGED <<device, written, mode>>
  PROVE  NoByteLost' /\ buffer_used' \in 0 .. BufferSize /\ accepted' \in Nat
  <1> DEFINE f == Flushed
  <1>1. /\ buffer_used \in 0 .. BufferSize /\ written \in Nat /\ accepted \in Nat
        /\ f \in Nat /\ BufferSize \in Nat
    BY StreamAssumption DEF Inv, Counts
  <1>2. /\ written + buffer_used = accepted + f
        /\ \A i \in 0 .. written - 1 : device[i] = i + 1
        /\ \A i \in 0 .. buffer_used - 1 : buffer[i] = written - f + i + 1
    <2>1. Unacknowledged = 0
      BY DEF Unacknowledged
    <2>2. QED
      BY <1>1, <2>1 DEF Inv, NoByteLost
  <1>3. /\ buffer' = [i \in Offsets |-> IF at <= i /\ i < at + size
                                           THEN accepted + (i - at) + 1 ELSE buffer[i]]
        /\ buffer_used' = at + size /\ accepted' = accepted + size
    BY DEF BufferChunk
  <1>4. Flushed' = 0 /\ Unacknowledged' = 0
    BY DEF Flushed, Unacknowledged, Flushes
  <1>5. written' + buffer_used' = accepted' + Flushed' + Unacknowledged'
    BY <1>1, <1>2, <1>3, <1>4
  <1>6. ASSUME NEW i \in 0 .. buffer_used' - 1
        PROVE  buffer'[i] = written' - Flushed' + i + 1
    <2>1. i \in Offsets /\ i \in Nat
      BY <1>1, <1>3, <1>6 DEF Offsets
    <2>2. CASE i < at
      <3>1. f = 0 /\ i \in 0 .. buffer_used - 1 /\ buffer'[i] = buffer[i]
        BY <1>1, <1>3, <2>1, <2>2
      <3>2. QED
        BY <1>1, <1>2, <1>4, <3>1, <2>1
    <2>3. CASE i >= at
      <3>1. buffer'[i] = accepted + (i - at) + 1
        BY <1>1, <1>3, <2>1, <2>3
      <3>2. QED
        BY <1>1, <1>2, <1>4, <3>1, <2>1
    <2>4. QED
      BY <2>1, <2>2, <2>3
  <1>7. \A i \in 0 .. written' - 1 : device'[i] = i + 1
    BY <1>2
  <1>8. buffer_used' \in 0 .. BufferSize /\ accepted' \in Nat
    BY <1>1, <1>3
  <1>9. QED
    BY <1>5, <1>6, <1>7, <1>8 DEF NoByteLost

(***************************************************************************)
(* Moving what a flush did not write to the front of the buffer keeps      *)
(* every byte in its place in the order.                                   *)
(***************************************************************************)
LEMMA RestCompacted ==
  ASSUME Inv, op \in Flushes, CompactBuffer, UNCHANGED <<device, written, accepted, mode>>,
         op' \notin Flushes, op' = "direct" => total' = 0
  PROVE  NoByteLost' /\ buffer_used' \in 0 .. BufferSize /\ buffer_used' = want - total
  <1>1. /\ written \in Nat /\ accepted \in Nat /\ want \in 0 .. BufferSize
        /\ total \in 0 .. want /\ BufferSize \in Nat /\ buffer_used = want
    BY StreamAssumption DEF Inv, Counts, Protocol
  <1>2. Flushed = total /\ Unacknowledged = 0 /\ mode = "write"
    BY DEF Inv, Protocol, Flushed, Unacknowledged, Flushes
  <1>3. /\ written + want = accepted + total
        /\ \A i \in 0 .. written - 1 : device[i] = i + 1
        /\ \A i \in 0 .. want - 1 : buffer[i] = written - total + i + 1
    BY <1>1, <1>2 DEF Inv, NoByteLost
  <1>4. /\ buffer' = [i \in Offsets |->
                        IF i < want - total THEN buffer[i + total] ELSE buffer[i]]
        /\ buffer_used' = want - total
    BY DEF CompactBuffer
  <1>5. Flushed' = 0 /\ Unacknowledged' = 0
    BY DEF Flushed, Unacknowledged, Flushes
  <1>6. ASSUME NEW i \in 0 .. buffer_used' - 1
        PROVE  buffer'[i] = written' - Flushed' + i + 1
    <2>1. i \in Offsets /\ i \in Nat /\ i < want - total /\ i + total \in 0 .. want - 1
      BY <1>1, <1>4, <1>6 DEF Offsets
    <2>2. buffer'[i] = buffer[i + total]
      BY <1>4, <2>1
    <2>3. QED
      BY <1>1, <1>3, <1>5, <2>1, <2>2
  <1>7. written' + buffer_used' = accepted' + Flushed' + Unacknowledged'
    BY <1>1, <1>3, <1>4, <1>5
  <1>8. buffer_used' \in 0 .. BufferSize
    BY <1>1, <1>4
  <1>9. QED
    BY <1>3, <1>4, <1>6, <1>7, <1>8 DEF NoByteLost

(***************************************************************************)
(* One write(2) of a flush or of a direct write appends the next bytes in  *)
(* order to what is on the descriptor.                                     *)
(***************************************************************************)
LEMMA InvWriteSome ==
  ASSUME Inv, NEW k \in 1 .. BufferSize + MaxChunk, WriteSome(k)
  PROVE  Inv'
  <1>1. /\ op \in Flushes \cup {"direct"} /\ k <= want - total
        /\ device' = [i \in 0 .. written + k - 1 |->
                        IF i < written THEN device[i]
                        ELSE IF op = "direct" THEN accepted + total + (i - written) + 1
                        ELSE buffer[total + (i - written)]]
        /\ written' = written + k /\ total' = total + k
        /\ UNCHANGED <<phase, mode, op, want, pending, buffer, buffer_used, accepted>>
    BY DEF WriteSome, opening
  <1>2. /\ written \in Nat /\ accepted \in Nat /\ want \in Nat /\ total \in 0 .. want
        /\ buffer_used \in 0 .. BufferSize /\ k \in Nat /\ BufferSize \in Nat
    BY StreamAssumption DEF Inv, Counts
  <1>3. mode = "write" /\ (op \in Flushes => want = buffer_used)
                       /\ (op = "direct" => buffer_used = 0)
    BY <1>1 DEF Inv, Protocol
  <1>4. Counts'
    BY <1>1, <1>2 DEF Inv, Counts
  <1>5. Protocol'
    BY <1>1, <1>3 DEF Inv, Protocol
  <1>6. /\ \A i \in 0 .. written - 1 : device[i] = i + 1
        /\ \A i \in 0 .. buffer_used - 1 : buffer[i] = written - Flushed + i + 1
        /\ written + buffer_used = accepted + Flushed + Unacknowledged
    BY <1>3 DEF Inv, NoByteLost
  <1>7. CASE op \in Flushes
    <2>1. Flushed = total /\ Unacknowledged = 0 /\ Flushed' = total + k /\ Unacknowledged' = 0
      BY <1>1, <1>7 DEF Flushed, Unacknowledged, Flushes
    <2>2. ASSUME NEW i \in 0 .. written' - 1 PROVE device'[i] = i + 1
      <3>1. CASE i < written
        BY <1>1, <1>2, <1>6, <3>1
      <3>2. CASE i >= written
        <4>1. device'[i] = buffer[total + (i - written)]
          BY <1>1, <1>2, <1>7, <3>2 DEF Flushes
        <4>2. total + (i - written) \in 0 .. buffer_used - 1
          BY <1>1, <1>2, <1>3, <1>7, <3>2
        <4>3. buffer[total + (i - written)] = written - total + (total + (i - written)) + 1
          BY <1>6, <2>1, <4>2
        <4>4. QED
          BY <1>1, <1>2, <4>1, <4>3
      <3>3. QED
        BY <1>1, <1>2, <3>1, <3>2
    <2>3. (written + buffer_used = accepted + Flushed + Unacknowledged)'
      BY <1>1, <1>2, <1>6, <2>1
    <2>4. ASSUME NEW i \in 0 .. buffer_used' - 1
          PROVE  buffer'[i] = written' - Flushed' + i + 1
      BY <1>1, <1>2, <1>6, <2>1
    <2>5. NoByteLost'
      BY <2>2, <2>3, <2>4 DEF NoByteLost
    <2>6. QED
      BY <1>4, <1>5, <2>5 DEF Inv
  <1>8. CASE op = "direct"
    <2>1. Flushed = 0 /\ Unacknowledged = total /\ Flushed' = 0 /\ Unacknowledged' = total + k
      BY <1>1, <1>8 DEF Flushed, Unacknowledged, Flushes
    <2>2. ASSUME NEW i \in 0 .. written' - 1 PROVE device'[i] = i + 1
      <3>1. CASE i < written
        BY <1>1, <1>2, <1>6, <3>1
      <3>2. CASE i >= written
        <4>1. device'[i] = accepted + total + (i - written) + 1
          BY <1>1, <1>2, <1>8, <3>2
        <4>2. QED
          BY <1>1, <1>2, <1>3, <1>6, <1>8, <2>1, <4>1
      <3>3. QED
        BY <1>1, <1>2, <3>1, <3>2
    <2>3. (written + buffer_used = accepted + Flushed + Unacknowledged)'
      BY <1>1, <1>2, <1>6, <2>1
    <2>4. buffer_used' = 0
      BY <1>1, <1>3, <1>8
    <2>5. NoByteLost'
      BY <2>2, <2>3, <2>4 DEF NoByteLost
    <2>6. QED
      BY <1>4, <1>5, <2>5 DEF Inv
  <1>9. QED
    BY <1>1, <1>7, <1>8

(* write_chunk, up to its return or its first system call. *)
LEMMA InvWriteChunk ==
  ASSUME Inv, NEW size \in 0 .. MaxChunk, WriteChunk(size)
  PROVE  Inv'
  <1>1. /\ phase = "open" /\ op = "none"
        /\ UNCHANGED <<phase, mode, device, written>>
    BY DEF WriteChunk, Call, Idle, opening
  <1>2. size \in Nat /\ BufferSize \in Nat /\ buffer_used \in 0 .. BufferSize
    BY StreamAssumption DEF Inv, Counts
  <1>3. Flushed = 0 /\ Unacknowledged = 0
    BY <1>1 DEF Flushed, Unacknowledged, Flushes
  <1>4. CASE Unwritten /\ UNCHANGED loop
    <2>1. UNCHANGED <<buffer, buffer_used, accepted, op, want, total, pending>>
      BY <1>4 DEF Unwritten, loop
    <2>2. Counts' /\ Protocol'
      BY <1>1, <2>1 DEF Inv, Counts, Protocol
    <2>3. Flushed' = Flushed /\ Unacknowledged' = Unacknowledged
      BY <2>1 DEF Flushed, Unacknowledged
    <2>4. QED
      BY <1>1, <2>1, <2>2, <2>3, NoByteMoved DEF Inv
  <1>5. CASE /\ mode = "write" /\ size <= BufferSize - buffer_used
             /\ BufferChunk(buffer_used, size) /\ UNCHANGED loop
    <2>1. UNCHANGED <<op, want, total, pending>>
      BY <1>5 DEF loop
    <2>2. /\ buffer_used \in Nat /\ buffer_used + size <= BufferSize /\ size \in Nat
          /\ op # "direct" /\ op' \notin Flushes /\ op' # "direct"
      BY <1>1, <1>2, <1>3, <1>5, <2>1 DEF Flushes
    <2>3. NoByteLost' /\ buffer_used' \in 0 .. BufferSize /\ accepted' \in Nat
      <3>1. PICK at \in Nat : at = buffer_used
        BY <2>2
      <3>2. Flushed = 0 /\ at + size <= BufferSize /\ BufferChunk(at, size)
        BY <1>3, <1>5, <2>2, <3>1
      <3>3. QED
        BY <1>1, <1>5, <2>2, <3>1, <3>2, ChunkBuffered
    <2>4. Counts' /\ Protocol'
      BY <1>1, <1>5, <2>1, <2>3 DEF Inv, Counts, Protocol, Flushes
    <2>5. QED
      BY <2>3, <2>4 DEF Inv
  <1>6. CASE /\ mode = "write" /\ pending' = size /\ Unwritten
             /\ IF buffer_used > 0 THEN StartLoop("preflush", buffer_used)
                                   ELSE StartLoop("direct", size)
    <2>1. UNCHANGED <<buffer, buffer_used, accepted>>
      BY <1>6 DEF Unwritten
    <2>2. /\ total' = 0 /\ want' \in Nat
          /\ \/ op' = "preflush" /\ want' = buffer_used
             \/ op' = "direct" /\ buffer_used = 0
      BY <1>2, <1>6 DEF StartLoop
    <2>3. Counts'
      BY <1>1, <1>2, <1>6, <2>1, <2>2 DEF Inv, Counts
    <2>4. Protocol'
      BY <1>1, <1>6, <2>1, <2>2 DEF Inv, Protocol, Flushes, Loops
    <2>5. Flushed' = Flushed /\ Unacknowledged' = Unacknowledged
      BY <1>3, <2>2 DEF Flushed, Unacknowledged, Flushes
    <2>6. QED
      BY <1>1, <2>1, <2>3, <2>4, <2>5, NoByteMoved DEF Inv
  <1>7. QED
    BY <1>4, <1>5, <1>6 DEF WriteChunk

(* The end of write_chunk's flush: give up, write directly, or buffer. *)
LEMMA InvPreflushEnds == ASSUME Inv, PreflushEnds PROVE Inv'
  <1>1. op = "preflush" /\ UNCHANGED <<phase, mode, pending, device, written>>
    BY DEF PreflushEnds, opening
  <1>2. /\ mode = "write" /\ want = buffer_used /\ Flushed = total /\ phase # "new"
        /\ total \in 0 .. want /\ want \in Nat /\ pending \in Nat /\ BufferSize \in Nat
    BY <1>1, StreamAssumption DEF Inv, Protocol, Counts, Flushed, Flushes
  <1>3. CASE /\ CompactBuffer /\ op' = "none"
             /\ UNCHANGED <<want, total, stop, logical_position, accepted>>
    <2>1. NoByteLost' /\ buffer_used' \in 0 .. BufferSize /\ buffer_used' = want - total
      <3>1. op \in Flushes /\ op' \notin Flushes /\ op' # "direct"
        BY <1>1, <1>3 DEF Flushes
      <3>2. QED
        BY <1>1, <1>3, <3>1, RestCompacted
    <2>2. Counts' /\ Protocol'
      BY <1>1, <1>2, <1>3, <2>1 DEF Inv, Counts, Protocol, Flushes
    <2>3. QED
      BY <2>1, <2>2 DEF Inv
  <1>4. CASE /\ total = want /\ CompactBuffer /\ StartLoop("direct", pending)
             /\ UNCHANGED <<ret, logical_position, accepted>>
    <2>1. op' = "direct" /\ want' = pending /\ total' = 0
      BY <1>4 DEF StartLoop
    <2>2. NoByteLost' /\ buffer_used' \in 0 .. BufferSize /\ buffer_used' = want - total
      BY <1>1, <1>4, <2>1, RestCompacted DEF Flushes
    <2>3. buffer_used' = 0
      BY <1>2, <1>4, <2>2
    <2>4. Counts' /\ Protocol'
      BY <1>1, <1>2, <1>4, <2>1, <2>2, <2>3 DEF Inv, Counts, Protocol, Flushes, Loops
    <2>5. QED
      BY <2>2, <2>4 DEF Inv
  <1>5. CASE /\ total = want /\ pending < BufferSize /\ BufferChunk(0, pending)
             /\ op' = "none" /\ UNCHANGED <<want, total, stop>>
    <2>1. /\ 0 + pending <= BufferSize /\ Flushed = buffer_used
          /\ op # "direct" /\ op' \notin Flushes /\ op' # "direct"
      BY <1>1, <1>2, <1>5 DEF Flushes
    <2>2. NoByteLost' /\ buffer_used' \in 0 .. BufferSize /\ accepted' \in Nat
      BY <1>1, <1>2, <1>5, <2>1, ChunkBuffered
    <2>3. Counts' /\ Protocol'
      BY <1>1, <1>2, <1>5, <2>2 DEF Inv, Counts, Protocol, Flushes
    <2>4. QED
      BY <2>2, <2>3 DEF Inv
  <1>6. QED
    BY <1>3, <1>4, <1>5 DEF PreflushEnds

(* The ends of the other writing loops, and their beginnings. *)
LEMMA InvWrite == ASSUME Inv, Write PROVE Inv'
  <1>1. ASSUME NEW why \in {"again", "error"}, WriteRefused(why) PROVE Inv'
    <2>1. /\ UNCHANGED <<buffer, buffer_used, device, written, accepted, mode>>
          /\ UNCHANGED <<phase, op, want, total, pending>>
      BY <1>1 DEF WriteRefused, opening, output
    <2>2. Counts' /\ Protocol' /\ Flushed' = Flushed /\ Unacknowledged' = Unacknowledged
      BY <2>1 DEF Inv, Counts, Protocol, Flushed, Unacknowledged
    <2>3. QED
      BY <2>1, <2>2, NoByteMoved DEF Inv
  <1>2. CASE Flush
    <2>1. /\ op = "none" /\ phase = "open"
          /\ UNCHANGED <<buffer, buffer_used, device, written, accepted, mode, phase, pending>>
          /\ \/ UNCHANGED <<op, want, total>>
             \/ op' = "flush" /\ want' = buffer_used /\ total' = 0 /\ buffer_used # 0
      BY <1>2 DEF Flush, Call, Idle, StartLoop, opening, output, loop
    <2>2. Counts'
      BY <2>1, StreamAssumption DEF Inv, Counts
    <2>3. Protocol'
      BY <2>1 DEF Inv, Protocol, Flushes, Loops
    <2>4. Flushed' = Flushed /\ Unacknowledged' = Unacknowledged
      BY <2>1 DEF Flushed, Unacknowledged, Flushes
    <2>5. QED
      BY <2>1, <2>2, <2>3, <2>4, NoByteMoved DEF Inv
  <1>3. CASE FlushEnds
    <2>1. /\ op = "flush" /\ op' = "none" /\ CompactBuffer
          /\ UNCHANGED <<device, written, accepted, mode, phase, want, total, pending>>
      BY <1>3 DEF FlushEnds, opening, output
    <2>2. NoByteLost' /\ buffer_used' \in 0 .. BufferSize /\ buffer_used' = want - total
      <3>1. op \in Flushes /\ op' \notin Flushes /\ op' # "direct"
        BY <2>1 DEF Flushes
      <3>2. QED
        BY <2>1, <3>1, RestCompacted
    <2>3. Counts' /\ Protocol'
      BY <2>1, <2>2 DEF Inv, Counts, Protocol, Flushes
    <2>4. QED
      BY <2>2, <2>3 DEF Inv
  <1>4. CASE DirectEnds
    <2>1. /\ op = "direct" /\ op' = "none" /\ accepted' = accepted + total
          /\ UNCHANGED <<buffer, buffer_used, device, written, mode, phase, want, total, pending>>
      BY <1>4 DEF DirectEnds, opening
    <2>2. Flushed = 0 /\ Unacknowledged = total /\ Flushed' = 0 /\ Unacknowledged' = 0
      BY <2>1 DEF Flushed, Unacknowledged, Flushes
    <2>3. Counts'
      BY <2>1 DEF Inv, Counts
    <2>4. Protocol'
      BY <2>1 DEF Inv, Protocol, Flushes
    <2>5. NoByteLost'
      BY <2>1, <2>2 DEF Inv, Counts, Protocol, NoByteLost
    <2>6. QED
      BY <2>3, <2>4, <2>5 DEF Inv
  <1>5. QED
    BY <1>1, <1>2, <1>3, <1>4, InvWriteChunk, InvWriteSome, InvPreflushEnds DEF Write

(***************************************************************************)
(* Reading: a step of a stream opened for writing leaves the loop alone,   *)
(* and one of a stream opened for reading finds nothing to write.          *)
(***************************************************************************)
LEMMA InvRead == ASSUME Inv, Read PROVE Inv'
  <1>1. /\ UNCHANGED <<buffer_used, device, written, accepted, mode, phase, pending>>
        /\ buffer' = buffer \/ op = "read"
        /\ phase = "open" \/ op = "read"
        /\ \/ UNCHANGED <<op, want, total>>
           \/ /\ op \in {"none", "read"} /\ op' \in {"none", "read"}
              /\ op' = "read" => mode = "read"
              /\ want' \in Nat /\ total' \in 0 .. want'
    <2>1. CASE ReadChunk
      <3>1. /\ phase = "open" /\ op = "none" /\ buffer' = buffer
            /\ UNCHANGED <<buffer_used, device, written, accepted, mode, phase>>
        BY <2>1 DEF ReadChunk, Call, Idle, opening, output
      <3>2. UNCHANGED loop \/ (mode = "read" /\ StartLoop("read", BufferSize) /\ UNCHANGED pending)
        BY <2>1 DEF ReadChunk, ReadMemory
      <3>3. CASE UNCHANGED loop
        BY <3>1, <3>3 DEF loop
      <3>4. CASE mode = "read" /\ StartLoop("read", BufferSize) /\ UNCHANGED pending
        BY <3>1, <3>4, StreamAssumption DEF StartLoop
      <3>5. QED
        BY <3>2, <3>3, <3>4
    <2>2. CASE ReadEnds
      BY <2>2 DEF ReadEnds, opening, output, Inv, Counts
    <2>3. CASE FileChanges
      BY <2>3 DEF FileChanges, FileGrows, FileShrinks, opening, output, loop
    <2>4. ASSUME NEW k \in 1 .. BufferSize, ReadSome(k) PROVE <1>1!:
      BY <2>4, StreamAssumption DEF ReadSome, opening, output, Inv, Counts, Protocol
    <2>5. ASSUME NEW why \in {"again", "eof", "error"}, ReadStops(why) PROVE <1>1!:
      BY <2>5 DEF ReadStops, opening, output, input
    <2>6. QED
      BY <2>1, <2>2, <2>3, <2>4, <2>5 DEF Read
  <1>2. Counts'
    BY <1>1 DEF Inv, Counts
  <1>3. Protocol'
    BY <1>1 DEF Inv, Protocol, Flushes, Loops
  <1>4. Flushed' = Flushed /\ Unacknowledged' = Unacknowledged
    BY <1>1 DEF Flushed, Unacknowledged, Flushes
  <1>5. UNCHANGED <<buffer, mode>> \/ buffer_used = 0
    BY <1>1 DEF Inv, Protocol
  <1>6. QED
    BY <1>1, <1>2, <1>3, <1>4, <1>5, NoByteMoved DEF Inv

(* Closing flushes the buffer, and the stream is gone whatever came of it. *)
LEMMA InvClose == ASSUME Inv, Close \/ CloseEnds PROVE Inv'
  <1>1. CASE Close
    <2>1. /\ op = "none" /\ phase = "open" /\ phase' # "new"
          /\ UNCHANGED <<buffer, buffer_used, device, written, accepted, mode, pending>>
          /\ \/ UNCHANGED <<op, want, total>>
             \/ op' = "closing" /\ want' = buffer_used /\ total' = 0 /\ buffer_used # 0
      BY <1>1 DEF Close, Idle, Released, StartLoop, output, loop
    <2>2. Counts'
      BY <2>1, StreamAssumption DEF Inv, Counts
    <2>3. Protocol'
      BY <2>1 DEF Inv, Protocol, Flushes, Loops
    <2>4. Flushed' = Flushed /\ Unacknowledged' = Unacknowledged
      BY <2>1 DEF Flushed, Unacknowledged, Flushes
    <2>5. QED
      BY <2>1, <2>2, <2>3, <2>4, NoByteMoved DEF Inv
  <1>2. CASE CloseEnds
    <2>1. /\ op = "closing" /\ op' = "none" /\ CompactBuffer /\ phase' = "closed"
          /\ UNCHANGED <<device, written, accepted, mode, want, total, pending>>
      BY <1>2 DEF CloseEnds, Released, output
    <2>2. NoByteLost' /\ buffer_used' \in 0 .. BufferSize /\ buffer_used' = want - total
      <3>1. op \in Flushes /\ op' \notin Flushes /\ op' # "direct"
        BY <2>1 DEF Flushes
      <3>2. QED
        BY <2>1, <3>1, RestCompacted
    <2>3. Counts' /\ Protocol'
      BY <2>1, <2>2 DEF Inv, Counts, Protocol, Flushes
    <2>4. QED
      BY <2>2, <2>3 DEF Inv
  <1>3. QED
    BY <1>1, <1>2

(* A step that changes nothing keeps the invariant. *)
LEMMA InvUnchanged == ASSUME Inv, UNCHANGED vars PROVE Inv'
  BY DEF Inv, Counts, Protocol, NoByteLost, Flushed, Unacknowledged, vars, opening, loop,
         output

(* Every step keeps it. *)
LEMMA InvNext == Inv /\ [Next]_vars => Inv'
  BY InvOpen, InvWrite, InvRead, InvClose, InvUnchanged DEF Next, Gone

(* So it holds always. *)
LEMMA InvAlways == Spec => []Inv
  BY InvInit, InvNext, PTL DEF Spec

(***************************************************************************)
(* No partial write, refusal, error or close makes the stream lose, repeat *)
(* or reorder a byte that it told its caller was written.                  *)
(***************************************************************************)
THEOREM BytesAreKept == Spec => []NoByteLost
  <1>1. Inv => NoByteLost
    BY DEF Inv
  <1>2. QED
    BY <1>1, InvAlways, PTL

-----------------------------------------------------------------------------
(* The size of the input and the offset in it are numbers. *)
InputInRange == file_size \in Nat /\ fd_pos \in Nat

(* The chunk taken from memory ends where the memory does, or before. *)
LEMMA MemoryChunk ==
  ASSUME InputInRange, fd_pos < file_size
  PROVE  /\ SmallerOf(file_size - fd_pos, BufferSize) \in Nat
         /\ fd_pos + SmallerOf(file_size - fd_pos, BufferSize) <= file_size
  BY StreamAssumption DEF InputInRange, SmallerOf

(* A chunk from memory moves the cursor, the position and the counters. *)
LEMMA MemoryMoves ==
  ASSUME InputInRange, ReadMemory
  PROVE  LET size == SmallerOf(file_size - fd_pos, BufferSize) IN
         \/ UNCHANGED <<fd_pos, logical_position, stats>>
         \/ /\ fd_pos < file_size
            /\ fd_pos' = fd_pos + size
            /\ logical_position' = logical_position + size
            /\ stats' = [stats EXCEPT !["bytes_read"] = @ + size, !["read_count"] = @ + 1]
  <1>1. CASE fd_pos >= file_size
    BY <1>1 DEF ReadMemory
  <1>2. CASE ~ (fd_pos >= file_size)
    <2>1. fd_pos < file_size
      BY <1>2 DEF InputInRange
    <2>2. QED
      BY <1>2, <2>1, Zenon DEF ReadMemory
  <1>3. QED
    BY <1>1, <1>2

(* What read_chunk does at once is to refuse, to start a loop, or that. *)
LEMMA ChunkOutcomes ==
  ASSUME ReadChunk
  PROVE  UNCHANGED <<fd_pos, logical_position, stats>> \/ (mode = "read" /\ ReadMemory)
  BY DEF ReadChunk

(* Every step keeps them so. *)
LEMMA InputNext == ASSUME InputInRange, [Next]_vars PROVE InputInRange'
  <1>1. CASE Open
    <2>1. UNCHANGED file_size /\ (UNCHANGED fd_pos \/ fd_pos' \in 0 .. MaxFile \cup {0})
      BY <1>1 DEF Open, OpenFile, OpenFileDescriptor, OpenMemory, NothingDone
    <2>2. QED
      BY <2>1 DEF InputInRange
  <1>2. CASE Write \/ Close \/ CloseEnds \/ Gone \/ UNCHANGED vars
    <2>1. UNCHANGED <<file_size, fd_pos>>
      BY <1>2 DEF Write, WriteChunk, WriteSome, WriteRefused, Flush, FlushEnds, PreflushEnds,
                  DirectEnds, Close, CloseEnds, Gone, vars, input
    <2>2. QED
      BY <2>1 DEF InputInRange
  <1>3. CASE ReadChunk
    <2>1. UNCHANGED file_size
      BY <1>3 DEF ReadChunk
    <2>2. \/ UNCHANGED fd_pos
          \/ /\ fd_pos < file_size
             /\ fd_pos' = fd_pos + SmallerOf(file_size - fd_pos, BufferSize)
      BY <1>3, ChunkOutcomes, MemoryMoves
    <2>3. QED
      BY <2>1, <2>2, MemoryChunk DEF InputInRange
  <1>4. ASSUME NEW k \in 1 .. BufferSize, ReadSome(k) PROVE InputInRange'
    BY <1>4, StreamAssumption DEF ReadSome, InputInRange
  <1>5. ASSUME NEW why \in {"again", "eof", "error"}, ReadStops(why) PROVE InputInRange'
    BY <1>5 DEF ReadStops, InputInRange, input
  <1>6. CASE ReadEnds
    BY <1>6 DEF ReadEnds, InputInRange
  <1>7. CASE FileChanges
    BY <1>7 DEF FileChanges, FileGrows, FileShrinks, InputInRange
  <1>8. QED
    BY <1>1, <1>2, <1>3, <1>4, <1>5, <1>6, <1>7 DEF Next, Read

(* So they always are. *)
LEMMA InputAlways == Spec => []InputInRange
  <1>1. Init => InputInRange
    BY StreamAssumption DEF Init, InputInRange
  <1>2. QED
    BY <1>1, InputNext, PTL DEF Spec

-----------------------------------------------------------------------------
(* What is inductive about the positions: a new stream is at zero. *)
Agreement ==
  /\ logical_position \in Nat
  /\ stats \in [Counters -> Nat]
  /\ phase = "new" =>
       logical_position = 0 /\ stats["bytes_written"] = 0 /\ stats["bytes_read"] = 0
  /\ PositionsAgree

(* How far a step moves the position, and the counter of the mode with it. *)
Moved(n) ==
  /\ logical_position' = logical_position + n
  /\ stats' \in [Counters -> Nat]
  /\ mode = "write" => /\ accepted' = accepted + n
                       /\ stats'["bytes_written"] = stats["bytes_written"] + n
                       /\ stats'["bytes_read"] = stats["bytes_read"]
  /\ mode = "read" => /\ stats'["bytes_read"] = stats["bytes_read"] + n
                      /\ stats'["bytes_written"] = stats["bytes_written"]

(***************************************************************************)
(* A step that moves the position, the acknowledged bytes and the counter  *)
(* of its mode by the same amount keeps them in agreement.                 *)
(***************************************************************************)
LEMMA AgreementMoved ==
  ASSUME Inv, Inv', Agreement, NEW n \in Nat, Moved(n), mode' = mode,
         phase # "new", phase' # "new"
  PROVE  Agreement'
  <1>1. /\ mode \in {"read", "write"} /\ accepted \in Nat /\ logical_position \in Nat
        /\ mode' = "read" => buffer_used' = 0 /\ written' = 0
    BY DEF Inv, Counts, Protocol, Agreement
  <1>2. stats["bytes_read"] \in Nat /\ stats["bytes_written"] \in Nat
    BY DEF Agreement, Counters
  <1>3. PositionsAgree'
    BY <1>1, <1>2 DEF Agreement, PositionsAgree, Moved
  <1>4. logical_position' \in Nat /\ stats' \in [Counters -> Nat]
    BY <1>1 DEF Moved
  <1>5. QED
    BY <1>3, <1>4 DEF Agreement

(* A step that moves nothing, or only counts a short system call. *)
LEMMA AgreementKept ==
  ASSUME Inv, Inv', Agreement, UNCHANGED <<mode, logical_position, accepted>>,
         stats' \in [Counters -> Nat],
         stats'["bytes_read"] = stats["bytes_read"],
         stats'["bytes_written"] = stats["bytes_written"],
         phase' = "new" => phase = "new"
  PROVE  Agreement'
  <1>1. mode' = "read" => buffer_used' = 0 /\ written' = 0
    BY DEF Inv, Protocol
  <1>2. PositionsAgree'
    BY <1>1 DEF Agreement, PositionsAgree
  <1>3. QED
    BY <1>2 DEF Agreement

(* An open finds every position at zero, and leaves them there. *)
LEMMA AgreementOpen == ASSUME Inv, Inv', Agreement, Open PROVE Agreement'
  <1>1. /\ UNCHANGED <<logical_position, stats, accepted, buffer_used, written>>
        /\ phase = "new" /\ phase' \in {"open", "failed"}
    <2>1. ASSUME NEW m \in {"read", "write"}, OpenFile(m) PROVE <1>1!:
      BY <2>1 DEF OpenFile, AllocateWithBuffer, NothingDone, output
    <2>2. ASSUME NEW m \in {"read", "write"}, NEW s \in {"file", "pipe", "memory"},
                 OpenFileDescriptor(m, s)
          PROVE  <1>1!:
      BY <2>2 DEF OpenFileDescriptor, AllocateWithBuffer, NothingDone, output
    <2>3. CASE OpenMemory
      BY <2>3 DEF OpenMemory, NothingDone, output
    <2>4. QED
      BY <2>1, <2>2, <2>3 DEF Open
  <1>2. /\ buffer_used = 0 /\ written = 0 /\ accepted = 0
        /\ logical_position = 0 /\ stats["bytes_written"] = 0 /\ stats["bytes_read"] = 0
    BY <1>1 DEF Inv, Protocol, Agreement
  <1>3. PositionsAgree'
    BY <1>1, <1>2 DEF PositionsAgree
  <1>4. QED
    BY <1>1, <1>3 DEF Agreement

(* What a short system call adds to its counter. *)
LEMMA BitIsNat == ASSUME NEW c PROVE Bit(c) \in Nat
  BY DEF Bit

(* Buffering a chunk moves the position by its size. *)
LEMMA ChunkMoves ==
  ASSUME Agreement, mode = "write", NEW at \in Nat, NEW size \in Nat, BufferChunk(at, size)
  PROVE  Moved(size)
  <1>1. /\ stats \in [Counters -> Nat]
        /\ "bytes_written" \in Counters /\ "write_count" \in Counters
        /\ "bytes_read" \in Counters
    BY DEF Agreement, Counters
  <1>2. stats' = [stats EXCEPT !["bytes_written"] = @ + size, !["write_count"] = @ + 1]
    BY DEF BufferChunk
  <1>3. logical_position' = logical_position + size /\ accepted' = accepted + size
    BY DEF BufferChunk
  <1>4. stats' \in [Counters -> Nat]
    BY <1>1, <1>2
  <1>5. /\ stats'["bytes_written"] = stats["bytes_written"] + size
        /\ stats'["bytes_read"] = stats["bytes_read"]
    BY <1>1, <1>2
  <1>6. QED
    BY <1>3, <1>4, <1>5 DEF Moved

(* Compacting the buffer only counts a short write. *)
LEMMA CompactCounts ==
  ASSUME Agreement, CompactBuffer
  PROVE  /\ stats' \in [Counters -> Nat]
         /\ stats'["bytes_read"] = stats["bytes_read"]
         /\ stats'["bytes_written"] = stats["bytes_written"]
  <1> DEFINE b == Bit(total < want)
  <1>1. b \in Nat
    BY BitIsNat
  <1>2. stats' = [stats EXCEPT !["short_write_count"] = @ + b]
    BY DEF CompactBuffer
  <1>3. /\ stats \in [Counters -> Nat]
        /\ "short_write_count" \in Counters /\ "bytes_read" \in Counters
        /\ "bytes_written" \in Counters
    BY DEF Agreement, Counters
  <1> HIDE DEF b
  <1>4. QED
    BY <1>1, <1>2, <1>3

(* Writing: only a chunk buffered or written directly moves the position. *)
LEMMA AgreementWrite == ASSUME Inv, Inv', Agreement, Write PROVE Agreement'
  <1> USE DEF opening
  <1>1. ASSUME NEW size \in 0 .. MaxChunk, WriteChunk(size) PROVE Agreement'
    <2>1. phase = "open" /\ UNCHANGED <<phase, mode>>
      BY <1>1 DEF WriteChunk, Call, Idle
    <2>2. CASE Unwritten
      <3>1. UNCHANGED <<mode, logical_position, accepted, stats>>
        BY <2>1, <2>2 DEF Unwritten
      <3>2. QED
        BY <2>1, <3>1, AgreementKept DEF Agreement
    <2>3. CASE mode = "write" /\ BufferChunk(buffer_used, size)
      <3>1. size \in Nat /\ buffer_used \in Nat
        BY StreamAssumption DEF Inv, Counts
      <3>2. PICK at \in Nat : at = buffer_used
        BY <3>1
      <3>3. BufferChunk(at, size)
        BY <2>3, <3>2
      <3>4. Moved(size)
        BY <2>3, <3>1, <3>3, ChunkMoves
      <3>5. QED
        BY <2>1, <3>1, <3>4, AgreementMoved
    <2>4. QED
      BY <1>1, <2>2, <2>3 DEF WriteChunk
  <1>2. ASSUME NEW k \in 1 .. BufferSize + MaxChunk, WriteSome(k) PROVE Agreement'
    <2>1. UNCHANGED <<phase, mode, logical_position, accepted, stats>>
      BY <1>2 DEF WriteSome
    <2>2. QED
      BY <2>1, AgreementKept DEF Agreement
  <1>3. ASSUME NEW why \in {"again", "error"}, WriteRefused(why) PROVE Agreement'
    <2>1. UNCHANGED <<phase, mode, logical_position, accepted, stats>>
      BY <1>3 DEF WriteRefused, output
    <2>2. QED
      BY <2>1, AgreementKept DEF Agreement
  <1>4. CASE Flush
    <2>1. UNCHANGED <<phase, mode, logical_position, accepted, stats>>
      BY <1>4 DEF Flush, output
    <2>2. QED
      BY <2>1, AgreementKept DEF Agreement
  <1>5. CASE FlushEnds
    <2>1. UNCHANGED <<phase, mode, logical_position, accepted>> /\ CompactBuffer
      BY <1>5 DEF FlushEnds, output
    <2>2. QED
      BY <2>1, CompactCounts, AgreementKept
  <1>6. CASE PreflushEnds
    <2>1. op = "preflush" /\ UNCHANGED <<phase, mode, pending>>
      BY <1>6 DEF PreflushEnds
    <2>2. mode = "write" /\ phase # "new" /\ pending \in Nat
      BY <2>1 DEF Inv, Protocol, Counts, Flushes
    <2>3. CASE CompactBuffer /\ UNCHANGED <<logical_position, accepted>>
      BY <2>1, <2>3, CompactCounts, AgreementKept
    <2>4. CASE BufferChunk(0, pending)
      <3>1. PICK size \in Nat : size = pending
        BY <2>2
      <3>2. BufferChunk(0, size)
        BY <2>4, <3>1
      <3>3. Moved(size)
        BY <2>2, <3>2, ChunkMoves
      <3>4. QED
        BY <2>1, <2>2, <3>3, AgreementMoved
    <2>5. QED
      BY <1>6, <2>3, <2>4 DEF PreflushEnds
  <1>7. CASE DirectEnds
    <2> DEFINE b == Bit(total < want)
    <2>1. /\ op = "direct" /\ UNCHANGED <<phase, mode>>
          /\ stats' = [stats EXCEPT !["bytes_written"] = @ + total, !["write_count"] = @ + 1,
                                    !["short_write_count"] = @ + b]
          /\ logical_position' = logical_position + total /\ accepted' = accepted + total
      BY <1>7 DEF DirectEnds
    <2>2. mode = "write" /\ phase # "new" /\ total \in Nat /\ b \in Nat
      BY <2>1, BitIsNat DEF Inv, Protocol, Counts
    <2>3. /\ stats \in [Counters -> Nat]
          /\ "bytes_written" \in Counters /\ "write_count" \in Counters
          /\ "short_write_count" \in Counters /\ "bytes_read" \in Counters
      BY DEF Agreement, Counters
    <2> HIDE DEF b
    <2>4. stats' \in [Counters -> Nat]
      BY <2>1, <2>2, <2>3
    <2>5. /\ stats'["bytes_written"] = stats["bytes_written"] + total
          /\ stats'["bytes_read"] = stats["bytes_read"]
      BY <2>1, <2>2, <2>3
    <2>6. PICK n \in Nat : n = total
      BY <2>2
    <2>7. Moved(n)
      BY <2>1, <2>2, <2>4, <2>5, <2>6 DEF Moved
    <2>8. QED
      BY <2>1, <2>2, <2>7, AgreementMoved
  <1>8. QED
    BY <1>1, <1>2, <1>3, <1>4, <1>5, <1>6, <1>7 DEF Write

(* A read that delivers moves the position by what it delivers. *)
LEMMA ReadMoves ==
  ASSUME Inv, Inv', Agreement, NEW n \in Nat, NEW b \in Nat, mode = "read",
         \/ stats' = [stats EXCEPT !["bytes_read"] = @ + n, !["read_count"] = @ + 1]
         \/ stats' = [stats EXCEPT !["bytes_read"] = @ + n, !["read_count"] = @ + 1,
                                   !["short_read_count"] = @ + b],
         logical_position' = logical_position + n, UNCHANGED <<phase, mode>>, phase # "new"
  PROVE  Agreement'
  <1>1. /\ stats \in [Counters -> Nat]
        /\ "bytes_written" \in Counters /\ "read_count" \in Counters
        /\ "short_read_count" \in Counters /\ "bytes_read" \in Counters
    BY DEF Agreement, Counters
  <1>2. stats' \in [Counters -> Nat]
    BY <1>1
  <1>3. /\ stats'["bytes_read"] = stats["bytes_read"] + n
        /\ stats'["bytes_written"] = stats["bytes_written"]
    BY <1>1
  <1>4. Moved(n)
    BY <1>2, <1>3 DEF Moved
  <1>5. QED
    BY <1>4, AgreementMoved

(* Reading: only a chunk delivered moves the position. *)
LEMMA AgreementRead == ASSUME Inv, Inv', Agreement, InputInRange, Read PROVE Agreement'
  <1> USE DEF opening, output
  <1>1. CASE ReadChunk
    <2> DEFINE size == SmallerOf(file_size - fd_pos, BufferSize)
    <2>1. phase = "open" /\ UNCHANGED <<phase, mode, accepted>>
      BY <1>1 DEF ReadChunk, Call, Idle
    <2>2. \/ UNCHANGED <<logical_position, stats>>
          \/ /\ mode = "read" /\ fd_pos < file_size
             /\ logical_position' = logical_position + size
             /\ stats' = [stats EXCEPT !["bytes_read"] = @ + size, !["read_count"] = @ + 1]
      BY <1>1, ChunkOutcomes, MemoryMoves
    <2>3. CASE UNCHANGED <<logical_position, stats>>
      BY <2>1, <2>3, AgreementKept DEF Agreement
    <2>4. CASE /\ mode = "read" /\ fd_pos < file_size
               /\ logical_position' = logical_position + size
               /\ stats' = [stats EXCEPT !["bytes_read"] = @ + size, !["read_count"] = @ + 1]
      <3>1. PICK n \in Nat : n = size
        BY <2>4, MemoryChunk
      <3>2. /\ logical_position' = logical_position + n /\ phase # "new"
            /\ stats' = [stats EXCEPT !["bytes_read"] = @ + n, !["read_count"] = @ + 1]
        BY <2>1, <2>4, <3>1
      <3>3. QED
        BY <2>1, <2>4, <3>2, ReadMoves
    <2>5. QED
      BY <2>2, <2>3, <2>4
  <1>2. CASE ReadEnds
    <2> DEFINE b == Bit(total < BufferSize)
    <2>1. op = "read" /\ UNCHANGED <<phase, mode, accepted>>
      BY <1>2 DEF ReadEnds
    <2>2. \/ UNCHANGED <<logical_position, stats>>
          \/ /\ stats' = [stats EXCEPT !["bytes_read"] = @ + total, !["read_count"] = @ + 1,
                                       !["short_read_count"] = @ + b]
             /\ logical_position' = logical_position + total
      BY <1>2 DEF ReadEnds
    <2>3. mode = "read" /\ phase # "new" /\ total \in Nat /\ b \in Nat
      BY <2>1, BitIsNat DEF Inv, Protocol, Counts
    <2>4. CASE UNCHANGED <<logical_position, stats>>
      BY <2>1, <2>4, AgreementKept DEF Agreement
    <2>5. CASE /\ stats' = [stats EXCEPT !["bytes_read"] = @ + total, !["read_count"] = @ + 1,
                                         !["short_read_count"] = @ + b]
               /\ logical_position' = logical_position + total
      <3>1. PICK n \in Nat, c \in Nat : n = total /\ c = b
        BY <2>3
      <3>2. /\ logical_position' = logical_position + n
            /\ stats' = [stats EXCEPT !["bytes_read"] = @ + n, !["read_count"] = @ + 1,
                                      !["short_read_count"] = @ + c]
        BY <2>5, <3>1
      <3>3. QED
        BY <2>1, <2>3, <3>2, ReadMoves
    <2>6. QED
      BY <2>2, <2>4, <2>5
  <1>3. ASSUME NEW k \in 1 .. BufferSize, ReadSome(k) PROVE Agreement'
    <2>1. UNCHANGED <<phase, mode, logical_position, accepted, stats>>
      BY <1>3 DEF ReadSome
    <2>2. QED
      BY <2>1, AgreementKept DEF Agreement
  <1>4. ASSUME NEW why \in {"again", "eof", "error"}, ReadStops(why) PROVE Agreement'
    <2>1. UNCHANGED <<phase, mode, logical_position, accepted, stats>>
      BY <1>4 DEF ReadStops
    <2>2. QED
      BY <2>1, AgreementKept DEF Agreement
  <1>5. CASE FileChanges
    <2>1. UNCHANGED <<phase, mode, logical_position, accepted, stats>>
      BY <1>5 DEF FileChanges, FileGrows, FileShrinks
    <2>2. QED
      BY <2>1, AgreementKept DEF Agreement
  <1>6. QED
    BY <1>1, <1>2, <1>3, <1>4, <1>5 DEF Read

(* Closing moves no position: the bytes were counted when acknowledged. *)
LEMMA AgreementClose == ASSUME Inv, Inv', Agreement, Close \/ CloseEnds PROVE Agreement'
  <1>1. CASE Close
    <2>1. /\ UNCHANGED <<mode, logical_position, accepted, stats>> /\ phase = "open"
          /\ phase' # "new"
      BY <1>1 DEF Close, Idle, Released, output
    <2>2. QED
      BY <2>1, AgreementKept DEF Agreement
  <1>2. CASE CloseEnds
    <2>1. /\ UNCHANGED <<mode, logical_position, accepted>> /\ CompactBuffer
          /\ phase' = "closed"
      BY <1>2 DEF CloseEnds, Released, output
    <2>2. phase' # "new"
      BY <2>1
    <2>3. QED
      BY <2>1, <2>2, CompactCounts, AgreementKept
  <1>3. QED
    BY <1>1, <1>2

(* Every step keeps the agreement. *)
LEMMA AgreementNext == Inv /\ Inv' /\ InputInRange /\ Agreement /\ [Next]_vars => Agreement'
  <1> SUFFICES ASSUME Inv, Inv', InputInRange, Agreement, [Next]_vars PROVE Agreement'
    OBVIOUS
  <1>1. CASE UNCHANGED vars
    BY <1>1 DEF Agreement, PositionsAgree, vars, opening, output
  <1>2. CASE Gone
    BY <1>1, <1>2 DEF Gone
  <1>3. QED
    BY <1>1, <1>2, AgreementOpen, AgreementWrite, AgreementRead, AgreementClose DEF Next

(* So the positions always agree. *)
LEMMA AgreementAlways == Spec => []Agreement
  <1>1. Init => Agreement
    BY DEF Init, Agreement, PositionsAgree, Counters
  <1>2. QED
    BY <1>1, InvAlways, InputAlways, AgreementNext, PTL DEF Spec

(***************************************************************************)
(* current_position, the byte counters of the statistics and the bytes     *)
(* acknowledged or delivered agree after every step, and a stream opened   *)
(* for reading never writes to its descriptor.                             *)
(***************************************************************************)
THEOREM PositionsAreRight == Spec => []PositionsAgree
  <1>1. Agreement => PositionsAgree
    BY DEF Agreement
  <1>2. QED
    BY <1>1, AgreementAlways, PTL

-----------------------------------------------------------------------------
(* Only a stream opened for reading ends, and no loop runs on it then. *)
EndIsQuiet ==
  end_of_stream = TRUE => mode = "read" /\ op = "none" /\ phase # "new"

(* What no step after the end changes. *)
Settled ==
  UNCHANGED <<end_of_stream, logical_position, stats, mode, op>> /\ phase' # "new"

(***************************************************************************)
(* After the end every call of the interface leaves the position, the      *)
(* statistics and the end as they are: a read is refused, a write is       *)
(* refused for the mode, and there is nothing to flush.                    *)
(***************************************************************************)
LEMMA QuietAtEnd ==
  ASSUME Inv, EndIsQuiet, end_of_stream = TRUE, Next
  PROVE  Settled
  <1>1. mode = "read" /\ op = "none" /\ phase # "new" /\ buffer_used = 0
    BY DEF EndIsQuiet, Inv, Protocol
  <1>2. ASSUME Open PROVE FALSE
    BY <1>1, <1>2 DEF Open, OpenFile, OpenFileDescriptor, OpenMemory
  <1>3. CASE Write
    <2>1. ASSUME NEW size \in 0 .. MaxChunk, WriteChunk(size) PROVE Settled
      <3>1. Unwritten /\ UNCHANGED loop
        BY <1>1, <2>1 DEF WriteChunk
      <3>2. QED
        BY <1>1, <2>1, <3>1 DEF WriteChunk, Unwritten, loop, opening, Settled
    <2>2. CASE Flush
      BY <1>1, <2>2 DEF Flush, loop, opening, Settled
    <2>3. ~ (FlushEnds \/ PreflushEnds \/ DirectEnds)
      BY <1>1 DEF FlushEnds, PreflushEnds, DirectEnds
    <2>4. \A k : ~ WriteSome(k) /\ ~ WriteRefused(k)
      BY <1>1 DEF WriteSome, WriteRefused, Flushes
    <2>5. QED
      BY <1>3, <2>1, <2>2, <2>3, <2>4 DEF Write
  <1>4. CASE Read
    <2>1. CASE ReadChunk
      BY <1>1, <2>1 DEF ReadChunk, loop, opening, Settled
    <2>2. CASE FileChanges
      BY <1>1, <2>2 DEF FileChanges, FileGrows, FileShrinks, loop, opening, Settled
    <2>3. QED
      BY <1>1, <1>4, <2>1, <2>2 DEF Read, ReadEnds, ReadSome, ReadStops
  <1>5. CASE Close
    BY <1>1, <1>5 DEF Close, Released, loop, Settled
  <1>6. CASE CloseEnds
    BY <1>1, <1>6 DEF CloseEnds
  <1>7. CASE Gone
    BY <1>1, <1>7 DEF Gone, vars, opening, loop, Settled
  <1>8. QED
    BY <1>2, <1>3, <1>4, <1>5, <1>6, <1>7 DEF Next

(* The end is reached by reading, when no loop is left running. *)
LEMMA EndIsQuietNext == Inv /\ EndIsQuiet /\ [Next]_vars => EndIsQuiet'
  <1> SUFFICES ASSUME Inv, EndIsQuiet, [Next]_vars, end_of_stream' = TRUE
               PROVE  (mode = "read" /\ op = "none" /\ phase # "new")'
    BY DEF EndIsQuiet
  <1>1. CASE UNCHANGED vars
    BY <1>1 DEF EndIsQuiet, vars, opening, loop
  <1>2. CASE Next /\ end_of_stream = TRUE
    BY <1>2, QuietAtEnd DEF Settled, EndIsQuiet
  <1>3. CASE Next /\ end_of_stream # TRUE
    <2>1. CASE ReadChunk
      <3>1. /\ phase = "open" /\ op = "none" /\ UNCHANGED <<phase, mode>>
        BY <2>1 DEF ReadChunk, Call, Idle, opening
      <3>2. UNCHANGED end_of_stream \/ (mode = "read" /\ UNCHANGED loop)
        BY <2>1 DEF ReadChunk, ReadMemory
      <3>3. mode = "read" /\ UNCHANGED loop
        BY <1>3, <3>2
      <3>4. QED
        BY <3>1, <3>3 DEF loop
    <2>2. CASE ReadEnds
      <3>1. op = "read" /\ op' = "none" /\ UNCHANGED <<phase, mode>>
        BY <2>2 DEF ReadEnds, opening
      <3>2. QED
        BY <3>1 DEF Inv, Protocol
    <2>3. CASE ~ ReadChunk /\ ~ ReadEnds
      <3>1. UNCHANGED end_of_stream
        <4>1. CASE Open
          BY <4>1 DEF Open, OpenFile, OpenFileDescriptor, OpenMemory, NothingDone
        <4>2. CASE Write
          BY <4>2 DEF Write, WriteChunk, WriteSome, WriteRefused, Flush, FlushEnds,
                      PreflushEnds, DirectEnds
        <4>3. CASE Read
          BY <2>3, <4>3 DEF Read, ReadSome, ReadStops, FileChanges, FileGrows, FileShrinks
        <4>4. CASE Close \/ CloseEnds \/ Gone
          BY <4>4 DEF Close, CloseEnds, Gone, vars
        <4>5. QED
          BY <1>3, <4>1, <4>2, <4>3, <4>4 DEF Next
      <3>2. QED
        BY <1>3, <3>1
    <2>4. QED
      BY <2>1, <2>2, <2>3
  <1>4. QED
    BY <1>1, <1>2, <1>3

(* So no loop ever runs on a stream that has ended. *)
LEMMA EndIsQuietAlways == Spec => []EndIsQuiet
  <1>1. Init => EndIsQuiet
    BY DEF Init, EndIsQuiet
  <1>2. QED
    BY <1>1, InvAlways, EndIsQuietNext, PTL DEF Spec

(***************************************************************************)
(* end_of_stream stays, and the position and the statistics with it,       *)
(* whatever is called on the stream afterwards.                            *)
(***************************************************************************)
THEOREM EndStays == Spec => EndIsFinal
  <1>1. Inv /\ EndIsQuiet /\ [Next]_vars
          => [end_of_stream => end_of_stream' /\ UNCHANGED <<logical_position, stats>>]_vars
    <2> SUFFICES ASSUME Inv, EndIsQuiet, Next, end_of_stream
                 PROVE  end_of_stream' /\ UNCHANGED <<logical_position, stats>>
      OBVIOUS
    <2>1. end_of_stream = TRUE
      OBVIOUS
    <2>2. Settled
      BY <2>1, QuietAtEnd
    <2>3. QED
      BY <2>1, <2>2 DEF Settled
  <1>2. QED
    BY <1>1, InvAlways, EndIsQuietAlways, PTL DEF Spec, EndIsFinal

-----------------------------------------------------------------------------
(* The last call was a read, and it returned a chunk. *)
Delivered == ret.call = "read" /\ ret.ok = TRUE

(* The bytes of the read that is under way. *)
UnderWay == IF op = "read" THEN total ELSE 0

(* The descriptor is just past what was delivered, dropped or is being read. *)
Cursor ==
  mode = "read" /\ (owns \/ source = "memory") =>
    fd_pos = logical_position + dropped + UnderWay

(* The chunk the caller has is the end of what was read. *)
Chunk ==
  Idle /\ source # "memory" /\ Delivered =>
    \A i \in 0 .. ret.size - 1 : buffer[i] = fd_pos - ret.size + i + 1

(* What the loop has read so far is at the front of the buffer, in order. *)
Filling ==
  op = "read" => /\ want = BufferSize
                 /\ \A i \in 0 .. total - 1 : buffer[i] = fd_pos - total + i + 1

(* The inductive invariant for InOrder. *)
ReadOrder ==
  /\ dropped \in Nat
  /\ phase = "new" => fd_pos = 0 /\ dropped = 0 /\ ~ Delivered
  /\ mode = "write" => ~ Delivered
  /\ Cursor /\ Chunk /\ Filling

(* All that the positions are computed from. *)
Known == Inv /\ Agreement /\ InputInRange

(* The positions can be added and subtracted. *)
LEMMA PositionsAreInts == ASSUME Known, ReadOrder
  PROVE  /\ fd_pos \in Int /\ logical_position \in Int /\ dropped \in Int /\ total \in Int
         /\ UnderWay \in Int
  BY DEF Known, Inv, Counts, Agreement, InputInRange, ReadOrder, UnderWay

(* A call that is no read, or that failed, delivers no chunk. *)
LEMMA NotDelivered ==
  ASSUME NEW call, NEW ok, NEW size, Returns(call, ok, size), call # "read" \/ ok = FALSE
  PROVE  ~ Delivered'
  <1>1. ret' = [call |-> call, ok |-> ok, size |-> size]
    BY DEF Returns
  <1>2. ret'.call = call /\ ret'.ok = ok
    BY <1>1
  <1>3. QED
    BY <1>2 DEF Delivered

(* A step that reads nothing and delivers nothing new. *)
LEMMA OrderKept ==
  ASSUME ReadOrder, UNCHANGED <<mode, source, owns, fd_pos, dropped>>,
         mode = "write" \/ UNCHANGED logical_position,
         op # "read", op' # "read", phase # "new", phase' # "new",
         \/ mode = "write" /\ (UNCHANGED ret \/ ~ Delivered')
         \/ UNCHANGED <<buffer, ret>> /\ (Idle' => Idle)
         \/ ~ Delivered'
  PROVE  ReadOrder'
  <1>1. UnderWay = 0 /\ UnderWay' = 0
    BY DEF UnderWay
  <1>2. Cursor'
    BY <1>1 DEF ReadOrder, Cursor
  <1>3. Chunk' /\ (mode' = "write" => ~ Delivered')
    <2>1. CASE ~ Delivered'
      BY <2>1 DEF Chunk
    <2>2. CASE mode = "write" /\ UNCHANGED ret
      BY <2>2 DEF ReadOrder, Chunk, Delivered
    <2>3. CASE UNCHANGED <<buffer, ret>> /\ (Idle' => Idle)
      BY <2>3 DEF ReadOrder, Chunk, Delivered
    <2>4. QED
      BY <2>1, <2>2, <2>3
  <1>4. Filling'
    BY DEF Filling
  <1>5. QED
    BY <1>2, <1>3, <1>4 DEF ReadOrder

(* A file or a memory block is opened at its beginning. *)
LEMMA OrderOpen == ASSUME Known, ReadOrder, Open PROVE ReadOrder'
  <1>1. /\ UNCHANGED <<logical_position, dropped, ret, op, total>>
        /\ phase = "new" /\ phase' \in {"open", "failed"}
        /\ (mode' = "read" /\ (owns' \/ source' = "memory")) => fd_pos' \in {fd_pos, 0}
    <2>1. ASSUME NEW m \in {"read", "write"}, OpenFile(m) PROVE <1>1!:
      BY <2>1 DEF OpenFile, AllocateWithBuffer, NothingDone, loop
    <2>2. ASSUME NEW m \in {"read", "write"}, NEW s \in {"file", "pipe", "memory"},
                 OpenFileDescriptor(m, s)
          PROVE  <1>1!:
      BY <2>2 DEF OpenFileDescriptor, AllocateWithBuffer, NothingDone, loop
    <2>3. CASE OpenMemory
      BY <2>3 DEF OpenMemory, NothingDone, loop
    <2>4. QED
      BY <2>1, <2>2, <2>3 DEF Open
  <1>2. op = "none" /\ fd_pos = 0 /\ dropped = 0 /\ logical_position = 0 /\ ~ Delivered
    BY <1>1 DEF Known, Inv, Protocol, Agreement, ReadOrder
  <1>3. ~ Delivered' /\ UnderWay' = 0
    BY <1>1, <1>2 DEF Delivered, UnderWay
  <1>4. Cursor' /\ Chunk' /\ Filling'
    BY <1>1, <1>2, <1>3 DEF Cursor, Chunk, Filling
  <1>5. QED
    BY <1>1, <1>2, <1>3, <1>4 DEF ReadOrder

(* Writing does not touch what a reading stream has delivered. *)
LEMMA OrderWrite == ASSUME Known, ReadOrder, Write PROVE ReadOrder'
  <1>1. UNCHANGED <<mode, source, owns, fd_pos, dropped, phase>>
    BY DEF Write, WriteChunk, WriteSome, WriteRefused, Flush, FlushEnds, PreflushEnds,
           DirectEnds, opening, input
  <1>2. op # "read" /\ op' # "read" /\ phase # "new"
    <2>1. op # "read" /\ op' # "read"
      BY DEF Write, WriteChunk, Call, Idle, WriteSome, WriteRefused, Flush, FlushEnds,
             PreflushEnds, DirectEnds, StartLoop, Flushes, loop
    <2>2. phase = "open" \/ op # "none"
      BY DEF Write, WriteChunk, Call, Idle, WriteSome, WriteRefused, Flush, FlushEnds,
             PreflushEnds, DirectEnds, Flushes
    <2>3. QED
      BY <2>1, <2>2 DEF Known, Inv, Protocol
  <1>3. UNCHANGED ret \/ ~ Delivered'
    <2>1. ASSUME NEW size \in 0 .. MaxChunk, WriteChunk(size) PROVE <1>3!:
      <3>1. UNCHANGED ret \/ \E ok \in BOOLEAN, n \in {0, size} : Returns("write", ok, n)
        BY <2>1 DEF WriteChunk, BufferChunk
      <3>2. QED
        BY <3>1, NotDelivered
    <2>2. CASE Flush \/ FlushEnds
      <3>1. UNCHANGED ret \/ \E ok \in {TRUE, total = want} : Returns("flush", ok, 0)
        BY <2>2 DEF Flush, FlushEnds
      <3>2. QED
        BY <3>1, NotDelivered
    <2>3. CASE PreflushEnds
      <3>1. UNCHANGED ret \/ \E ok \in BOOLEAN, n \in {0, pending} : Returns("write", ok, n)
        BY <2>3 DEF PreflushEnds, BufferChunk
      <3>2. QED
        BY <3>1, NotDelivered
    <2>4. CASE DirectEnds
      <3>1. \E ok, n : Returns("write", ok, n)
        BY <2>4 DEF DirectEnds
      <3>2. QED
        BY <3>1, NotDelivered
    <2>5. QED
      BY <2>1, <2>2, <2>3, <2>4 DEF Write, WriteSome, WriteRefused
  <1>4. CASE mode = "write"
    BY <1>1, <1>2, <1>3, <1>4, OrderKept
  <1>5. CASE mode = "read"
    <2>1. buffer_used = 0 /\ op \notin Flushes \cup {"direct"}
      BY <1>5 DEF Known, Inv, Protocol
    <2>2. ASSUME NEW size \in 0 .. MaxChunk, WriteChunk(size)
          PROVE  UNCHANGED logical_position /\ ~ Delivered'
      <3>1. Returns("write", FALSE, 0) /\ Unwritten
        BY <1>5, <2>2 DEF WriteChunk
      <3>2. QED
        BY <3>1, NotDelivered DEF Unwritten
    <2>3. CASE Flush
      <3>1. Returns("flush", TRUE, 0) /\ UNCHANGED logical_position
        BY <2>1, <2>3 DEF Flush
      <3>2. QED
        BY <1>1, <1>2, <3>1, NotDelivered, OrderKept
    <2>4. ~ (FlushEnds \/ PreflushEnds \/ DirectEnds)
      BY <2>1 DEF FlushEnds, PreflushEnds, DirectEnds, Flushes
    <2>5. \A k : ~ WriteSome(k) /\ ~ WriteRefused(k)
      BY <2>1 DEF WriteSome, WriteRefused
    <2>6. CASE \E size \in 0 .. MaxChunk : WriteChunk(size)
      BY <1>1, <1>2, <2>2, <2>6, OrderKept
    <2>7. QED
      BY <2>3, <2>4, <2>5, <2>6 DEF Write
  <1>6. QED
    BY <1>4, <1>5 DEF Known, Inv, Protocol

(* Nor does closing. *)
LEMMA OrderClose == ASSUME Known, ReadOrder, Close \/ CloseEnds PROVE ReadOrder'
  <1>1. CASE Close
    <2>1. /\ Idle /\ phase' # "new"
          /\ UNCHANGED <<mode, source, owns, fd_pos, logical_position, dropped, buffer, ret>>
          /\ op' # "read"
      BY <1>1 DEF Close, Idle, Released, StartLoop, input, loop
    <2>2. op # "read" /\ phase # "new"
      BY <2>1 DEF Idle
    <2>3. QED
      BY <2>1, <2>2, OrderKept
  <1>2. CASE CloseEnds
    <2>1. /\ op = "closing" /\ phase' = "closed" /\ op' = "none"
          /\ UNCHANGED <<mode, source, owns, fd_pos, logical_position, dropped, ret>>
      BY <1>2 DEF CloseEnds, Released, input
    <2>2. mode = "write" /\ op # "read" /\ op' # "read" /\ phase # "new" /\ phase' # "new"
      BY <2>1 DEF Known, Inv, Protocol, Flushes
    <2>3. QED
      BY <2>1, <2>2, OrderKept
  <1>3. QED
    BY <1>1, <1>2

(* One read(2): the bytes go behind those the loop has read already. *)
LEMMA OrderReadSome ==
  ASSUME Known, ReadOrder, NEW k \in 1 .. BufferSize, ReadSome(k)
  PROVE  ReadOrder'
  <1>1. /\ op = "read" /\ k <= want - total
        /\ buffer' = [i \in Offsets |-> IF total <= i /\ i < total + k
                                          THEN fd_pos + (i - total) + 1 ELSE buffer[i]]
        /\ fd_pos' = fd_pos + k /\ total' = total + k
        /\ UNCHANGED <<phase, mode, source, owns, op, want, logical_position, dropped, ret>>
    BY DEF ReadSome, opening
  <1>2. /\ want = BufferSize /\ total \in 0 .. want /\ fd_pos \in Nat /\ BufferSize \in Nat
        /\ k \in Nat /\ logical_position \in Nat /\ dropped \in Nat
        /\ mode = "read" /\ phase # "new"
        /\ \A i \in 0 .. total - 1 : buffer[i] = fd_pos - total + i + 1
    BY <1>1, StreamAssumption
    DEF Known, Inv, Protocol, Counts, Agreement, InputInRange, ReadOrder, Filling
  <1>3. ASSUME NEW i \in 0 .. total' - 1
        PROVE  buffer'[i] = fd_pos' - total' + i + 1
    <2>1. i \in Offsets /\ i \in Nat
      BY <1>1, <1>2 DEF Offsets
    <2>2. CASE i < total
      <3>1. buffer'[i] = buffer[i] /\ i \in 0 .. total - 1
        BY <1>1, <1>2, <2>1, <2>2
      <3>2. QED
        BY <1>1, <1>2, <2>1, <3>1
    <2>3. CASE i >= total
      <3>1. buffer'[i] = fd_pos + (i - total) + 1
        BY <1>1, <1>2, <2>1, <2>3
      <3>2. QED
        BY <1>1, <1>2, <2>1, <3>1
    <2>4. QED
      BY <1>2, <2>1, <2>2, <2>3
  <1>4. Filling'
    BY <1>1, <1>2, <1>3 DEF Filling
  <1>5. UnderWay = total /\ UnderWay' = total + k
    BY <1>1 DEF UnderWay
  <1>6. Cursor'
    BY <1>1, <1>2, <1>5 DEF ReadOrder, Cursor
  <1>7. Chunk'
    BY <1>1 DEF Chunk, Idle
  <1>8. QED
    BY <1>1, <1>2, <1>4, <1>6, <1>7 DEF ReadOrder

(* The end of the loop: what it read is delivered, or dropped. *)
LEMMA OrderReadEnds == ASSUME Known, ReadOrder, ReadEnds PROVE ReadOrder'
  <1>1. /\ op = "read" /\ op' = "none"
        /\ UNCHANGED <<phase, mode, source, owns, buffer, total, fd_pos>>
    BY DEF ReadEnds, opening
  <1>2. /\ want = BufferSize /\ total \in Nat /\ fd_pos \in Nat
        /\ logical_position \in Nat /\ dropped \in Nat
        /\ mode = "read" /\ phase # "new"
        /\ \A i \in 0 .. total - 1 : buffer[i] = fd_pos - total + i + 1
    BY <1>1 DEF Known, Inv, Protocol, Counts, Agreement, InputInRange, ReadOrder, Filling
  <1>3. UnderWay = total /\ UnderWay' = 0
    BY <1>1 DEF UnderWay
  <1>4. Filling'
    BY <1>1 DEF Filling
  <1>5. CASE /\ Returns("read", FALSE, 0)
             /\ \/ dropped' = dropped + total /\ UNCHANGED logical_position
                \/ total = 0 /\ UNCHANGED <<logical_position, dropped>>
    <2>1. ~ Delivered'
      BY <1>5, NotDelivered
    <2>2. Cursor' /\ Chunk' /\ dropped' \in Nat
      BY <1>1, <1>2, <1>3, <1>5, <2>1 DEF ReadOrder, Cursor, Chunk
    <2>3. QED
      BY <1>1, <1>2, <1>4, <2>1, <2>2 DEF ReadOrder
  <1>6. CASE /\ Returns("read", TRUE, total) /\ logical_position' = logical_position + total
             /\ UNCHANGED dropped
    <2>1. ret'.size = total
      BY <1>6 DEF Returns
    <2>2. Chunk'
      BY <1>1, <1>2, <2>1 DEF Chunk
    <2>3. Cursor'
      BY <1>1, <1>2, <1>3, <1>6 DEF ReadOrder, Cursor
    <2>4. QED
      BY <1>1, <1>2, <1>4, <1>6, <2>2, <2>3 DEF ReadOrder
  <1>7. QED
    BY <1>5, <1>6 DEF ReadEnds

(* Every step of reading keeps the order. *)
LEMMA OrderRead == ASSUME Known, ReadOrder, Read PROVE ReadOrder'
  <1>1. CASE ReadChunk
    <2>1. /\ phase = "open" /\ op = "none"
          /\ UNCHANGED <<phase, mode, source, owns, buffer, dropped>>
      BY <1>1 DEF ReadChunk, Call, Idle, opening
    <2>2. phase # "new" /\ phase' # "new" /\ op # "read" /\ UnderWay = 0
      BY <2>1 DEF UnderWay
    <2>3. CASE Returns("read", FALSE, 0) /\ UNCHANGED <<loop, logical_position, fd_pos>>
      <3>1. ~ Delivered' /\ UNCHANGED op
        BY <2>3, NotDelivered DEF loop
      <3>2. op' # "read" /\ UNCHANGED <<mode, source, owns, fd_pos, dropped>>
        BY <2>1, <2>3, <3>1
      <3>3. QED
        BY <2>2, <2>3, <3>1, <3>2, OrderKept
    <2>4. CASE mode = "read" /\ source = "memory" /\ ReadMemory
      <3> DEFINE size == SmallerOf(file_size - fd_pos, BufferSize)
      <3>1. op' = "none"
        BY <2>1, <2>4 DEF ReadMemory, loop
      <3>2. UnderWay' = 0 /\ Filling' /\ Chunk'
        BY <2>1, <2>4, <3>1 DEF UnderWay, Filling, Chunk
      <3>3. \/ UNCHANGED <<fd_pos, logical_position>>
            \/ /\ size \in Nat /\ fd_pos' = fd_pos + size
               /\ logical_position' = logical_position + size
        BY <2>4, MemoryMoves, MemoryChunk DEF Known
      <3> HIDE DEF size
      <3>4. Cursor'
        BY <2>1, <2>2, <3>2, <3>3, PositionsAreInts DEF ReadOrder, Cursor
      <3>5. QED
        BY <2>1, <2>4, <3>2, <3>4 DEF ReadOrder
    <2>5. CASE /\ mode = "read" /\ StartLoop("read", BufferSize)
               /\ UNCHANGED <<ret, logical_position, fd_pos>>
      <3>1. op' = "read" /\ total' = 0 /\ want' = BufferSize
        BY <2>5 DEF StartLoop
      <3>2. UnderWay' = 0 /\ Filling' /\ Chunk'
        BY <3>1 DEF UnderWay, Filling, Chunk, Idle
      <3>3. Cursor'
        BY <2>1, <2>2, <2>5, <3>2 DEF ReadOrder, Cursor
      <3>4. QED
        BY <2>1, <2>5, <3>2, <3>3 DEF ReadOrder
    <2>6. QED
      BY <1>1, <2>3, <2>4, <2>5 DEF ReadChunk
  <1>2. ASSUME NEW why \in {"again", "eof", "error"}, ReadStops(why) PROVE ReadOrder'
    <2>1. /\ op = "read" /\ UNCHANGED <<phase, mode, source, owns, buffer, op, want, total>>
          /\ UNCHANGED <<fd_pos, logical_position, dropped, ret>>
      BY <1>2 DEF ReadStops, opening, input
    <2>2. QED
      BY <2>1 DEF ReadOrder, Cursor, Chunk, Filling, UnderWay, Delivered, Idle
  <1>3. CASE FileChanges
    <2>1. /\ UNCHANGED <<phase, mode, source, owns, buffer, op, want, total>>
          /\ UNCHANGED <<fd_pos, logical_position, dropped, ret>>
      BY <1>3 DEF FileChanges, FileGrows, FileShrinks, opening, loop
    <2>2. QED
      BY <2>1 DEF ReadOrder, Cursor, Chunk, Filling, UnderWay, Delivered, Idle
  <1>4. QED
    BY <1>1, <1>2, <1>3, OrderReadSome, OrderReadEnds DEF Read

(* And so does every step. *)
LEMMA OrderNext == Known /\ ReadOrder /\ [Next]_vars => ReadOrder'
  <1> SUFFICES ASSUME Known, ReadOrder, [Next]_vars PROVE ReadOrder'
    OBVIOUS
  <1>1. CASE UNCHANGED vars
    BY <1>1 DEF ReadOrder, Cursor, Chunk, Filling, UnderWay, Delivered, Idle, vars, opening,
                loop, input
  <1>2. CASE Gone
    BY <1>1, <1>2 DEF Gone
  <1>3. QED
    BY <1>1, <1>2, OrderOpen, OrderWrite, OrderRead, OrderClose DEF Next

(* So the order always holds. *)
LEMMA OrderAlways == Spec => []ReadOrder
  <1>1. Init => ReadOrder
    BY DEF Init, ReadOrder, Cursor, Chunk, Filling, UnderWay, Delivered, Idle
  <1>2. Inv /\ Agreement /\ InputInRange => Known
    BY DEF Known
  <1>3. QED
    BY <1>1, <1>2, InvAlways, AgreementAlways, InputAlways, OrderNext, PTL DEF Spec

(***************************************************************************)
(* read_chunk delivers the file in order, from the front of the buffer,    *)
(* whatever the sizes that read(2) returns, and skips only the bytes of a  *)
(* read that failed.                                                       *)
(***************************************************************************)
THEOREM ReadsAreInOrder == Spec => []InOrder
  <1>1. ReadOrder => InOrder
    <2> SUFFICES ASSUME ReadOrder PROVE InOrder
      OBVIOUS
    <2>1. mode = "read" /\ (owns \/ source = "memory") =>
            fd_pos = logical_position + dropped + (IF op = "read" THEN total ELSE 0)
      BY DEF ReadOrder, Cursor, UnderWay
    <2>2. ASSUME Idle, source # "memory", ret.call = "read", ret.ok
          PROVE  \A i \in 0 .. ret.size - 1 : buffer[i] = fd_pos - ret.size + i + 1
      <3>1. Delivered
        BY <2>2 DEF Delivered
      <3>2. QED
        BY <2>2, <3>1 DEF ReadOrder, Chunk
    <2>3. QED
      BY <2>1, <2>2 DEF InOrder
  <1>2. QED
    BY <1>1, OrderAlways, PTL

-----------------------------------------------------------------------------
(* A loop of system calls runs on an open stream, and only a read meets    *)
(* the end of a file.                                                      *)
Running ==
  /\ op # "none" => phase = "open"
  /\ op \in Flushes \cup {"direct"} => stop \in {"no", "again", "error"}

(* Every step keeps that: a stream is closed when its last loop is over. *)
LEMMA RunningNext ==
  ASSUME Inv, Running, [Next]_vars
  PROVE  Running'
  <1> USE DEF Running, opening, loop
  <1>1. CASE Open
    <2>1. phase = "new" /\ UNCHANGED loop
      BY <1>1 DEF Open, OpenFile, OpenFileDescriptor, OpenMemory, NothingDone
    <2>2. op' = "none"
      BY <2>1 DEF Inv, Protocol
    <2>3. QED
      BY <2>2 DEF Flushes
  <1>2. CASE Write
    <2>1. ASSUME NEW size \in 0 .. MaxChunk, WriteChunk(size) PROVE Running'
      BY <2>1 DEF WriteChunk, Call, Idle, StartLoop
    <2>2. ASSUME NEW k \in 1 .. BufferSize + MaxChunk, WriteSome(k) PROVE Running'
      BY <2>2 DEF WriteSome
    <2>3. ASSUME NEW why \in {"again", "error"}, WriteRefused(why) PROVE Running'
      BY <2>3 DEF WriteRefused
    <2>4. CASE Flush
      BY <2>4 DEF Flush, Call, Idle, StartLoop
    <2>5. CASE FlushEnds
      BY <2>5 DEF FlushEnds, Flushes
    <2>6. CASE PreflushEnds
      BY <2>6 DEF PreflushEnds, StartLoop, Flushes
    <2>7. CASE DirectEnds
      BY <2>7 DEF DirectEnds, Flushes
    <2>8. QED
      BY <1>2, <2>1, <2>2, <2>3, <2>4, <2>5, <2>6, <2>7 DEF Write
  <1>3. CASE Read
    <2>1. CASE ReadChunk
      BY <2>1 DEF ReadChunk, ReadMemory, Call, Idle, StartLoop, Flushes
    <2>2. ASSUME NEW why \in {"again", "eof", "error"}, ReadStops(why) PROVE Running'
      BY <2>2 DEF ReadStops, Flushes
    <2>3. QED
      BY <1>3, <2>1, <2>2 DEF Read, ReadSome, ReadEnds, FileChanges, FileGrows, FileShrinks, Flushes
  <1>4. CASE Close
    BY <1>4 DEF Close, Idle, Released, StartLoop
  <1>5. CASE CloseEnds
    BY <1>5 DEF CloseEnds, Flushes
  <1>6. CASE UNCHANGED vars
    BY <1>6 DEF vars
  <1>7. QED
    BY <1>1, <1>2, <1>3, <1>4, <1>5, <1>6 DEF Next, Gone

(* Running holds in every reachable state. *)
LEMMA RunningAlways == Spec => []Running
  <1>1. Init => Running
    BY DEF Init, Running, Flushes
  <1>2. QED
    BY <1>1, InvAlways, RunningNext, PTL DEF Spec

(* A stream that is closed or failed to open has no step left. *)
LEMMA OverStays ==
  ASSUME Running, phase \in {"closed", "failed"}, [Next]_vars
  PROVE  UNCHANGED vars
  <1>1. op = "none" /\ phase # "open" /\ phase # "new"
    BY DEF Running
  <1>2. ~ Open
    BY <1>1 DEF Open, OpenFile, OpenFileDescriptor, OpenMemory
  <1>3. ~ Write
    BY <1>1 DEF Write, WriteChunk, Call, Idle, WriteSome, WriteRefused, Flush, FlushEnds,
                PreflushEnds, DirectEnds, Flushes
  <1>4. ~ Read
    BY <1>1 DEF Read, ReadChunk, Call, Idle, ReadSome, ReadStops, ReadEnds, FileChanges,
                FileGrows, FileShrinks
  <1>5. ~ Close /\ ~ CloseEnds
    BY <1>1 DEF Close, Idle, CloseEnds
  <1>6. QED
    BY <1>2, <1>3, <1>4, <1>5 DEF Next, Gone

(* What a step changes of how the stream was opened. *)
LEMMA PhaseSteps ==
  ASSUME [Next]_vars
  PROVE  \/ UNCHANGED <<phase, mode, source, owns, fd, total_size>>
         \/ Open
         \/ (Close \/ CloseEnds) /\ Released /\ UNCHANGED <<mode, source, owns, total_size>>
  <1> USE DEF opening
  <1>1. CASE Write
    BY <1>1 DEF Write, WriteChunk, WriteSome, WriteRefused, Flush, FlushEnds, PreflushEnds,
                DirectEnds
  <1>2. CASE Read
    BY <1>2 DEF Read, ReadChunk, ReadSome, ReadStops, ReadEnds, FileChanges, FileGrows, FileShrinks
  <1>3. CASE Close \/ CloseEnds
    BY <1>3 DEF Close, CloseEnds
  <1>4. CASE UNCHANGED vars
    BY <1>4 DEF vars
  <1>5. QED
    BY <1>1, <1>2, <1>3, <1>4 DEF Next, Gone

(* A close that was refused nothing leaves nothing behind. *)
LEMMA CloseLosesNext ==
  ASSUME Inv, Inv', Running, CloseLosesOnlyRefused, [Next]_vars
  PROVE  CloseLosesOnlyRefused'
  <1>1. CASE phase \in {"closed", "failed"}
    <2>1. UNCHANGED <<phase, written, accepted, op, stop>>
      BY <1>1, OverStays DEF vars, opening, output, loop
    <2>2. QED
      BY <2>1 DEF CloseLosesOnlyRefused
  <1>2. CASE phase \notin {"closed", "failed"} /\ phase' = "closed"
    <2>1. Close \/ CloseEnds
      <3>1. ~ Open
        BY <1>2 DEF Open, OpenFile, OpenFileDescriptor, OpenMemory, AllocateWithBuffer
      <3>2. QED
        BY <1>2, <3>1, PhaseSteps
    <2>2. written' + buffer_used' = accepted' + Flushed' + Unacknowledged'
          /\ written' \in Nat /\ accepted' \in Nat /\ buffer_used' \in Nat
      BY StreamAssumption DEF Inv, NoByteLost, Counts
    <2>3. CASE Close
      <3>1. buffer_used = 0 /\ UNCHANGED <<buffer_used, op>> /\ op = "none"
        BY <1>2, <2>3 DEF Close, Idle, loop
      <3>2. Flushed' = 0 /\ Unacknowledged' = 0
        BY <3>1 DEF Flushed, Unacknowledged, Flushes
      <3>3. QED
        BY <2>2, <3>1, <3>2 DEF CloseLosesOnlyRefused
    <2>4. CASE CloseEnds
      <3>1. /\ op = "closing" /\ op' = "none" /\ stop' = stop
            /\ buffer_used' = want - total /\ (stop # "no" \/ total = want)
        BY <2>4 DEF CloseEnds, CompactBuffer, LoopOver
      <3>2. Flushed' = 0 /\ Unacknowledged' = 0
        BY <3>1 DEF Flushed, Unacknowledged, Flushes
      <3>3. CASE stop # "no"
        BY <3>1, <3>3 DEF Running, Flushes, CloseLosesOnlyRefused
      <3>4. CASE total = want
        BY <2>2, <3>1, <3>2, <3>4 DEF CloseLosesOnlyRefused, Inv, Counts
      <3>5. QED
        BY <3>1, <3>3, <3>4
    <2>5. QED
      BY <2>1, <2>3, <2>4
  <1>3. CASE phase' # "closed"
    BY <1>3 DEF CloseLosesOnlyRefused
  <1>4. QED
    BY <1>1, <1>2, <1>3

(***************************************************************************)
(* A close loses acknowledged bytes only to a descriptor that refused them *)
(* in that close.                                                          *)
(***************************************************************************)
THEOREM CloseKeepsBytes == Spec => []CloseLosesOnlyRefused
  <1>1. Init => CloseLosesOnlyRefused
    BY DEF Init, CloseLosesOnlyRefused
  <1>2. QED
    BY <1>1, InvAlways, RunningAlways, CloseLosesNext, PTL DEF Spec

-----------------------------------------------------------------------------
(* Types and the descriptor. *)

(* The types that no invariant above has. *)
Types ==
  /\ OpeningType /\ FlagType /\ ReturnType
  /\ buffer \in [Offsets -> Nat] /\ stop \in Stops
  /\ device \in [0 .. written - 1 -> Nat]

(* An open stream has its descriptor, or needs none. *)
Owning ==
  /\ phase = "new" => fd = "none"
  /\ phase = "open" => fd \in {"none", "open"}
  /\ phase \in {"closed", "failed"} /\ fd # "none" => (fd = "open" <=> ~ owns)

(* Every step keeps the types of what an open sets, *)
LEMMA OpeningNext ==
  ASSUME Types, InputInRange, [Next]_vars
  PROVE  OpeningType'
  <1> USE DEF Types, OpeningType
  <1>1. CASE UNCHANGED <<phase, mode, source, owns, fd, total_size>>
    BY <1>1
  <1>2. CASE Open
    <2>1. ASSUME NEW m \in {"read", "write"}, NEW s \in {"file", "pipe", "memory"}
          PROVE  KnownSize(m, s) \subseteq Nat \cup {-1}
      BY DEF KnownSize, InputInRange
    <2>2. ASSUME NEW m \in {"read", "write"}, OpenFile(m) PROVE OpeningType'
      BY <2>1, <2>2 DEF OpenFile, AllocateWithBuffer
    <2>3. ASSUME NEW m \in {"read", "write"}, NEW s \in {"file", "pipe", "memory"},
                 OpenFileDescriptor(m, s)
          PROVE  OpeningType'
      BY <2>1, <2>3 DEF OpenFileDescriptor, AllocateWithBuffer
    <2>4. CASE OpenMemory
      BY <2>4 DEF OpenMemory, InputInRange
    <2>5. QED
      BY <1>2, <2>2, <2>3, <2>4 DEF Open
  <1>3. CASE Released /\ UNCHANGED <<mode, source, owns, total_size>>
    BY <1>3 DEF Released
  <1>4. QED
    BY <1>1, <1>2, <1>3, PhaseSteps

(* of the flags, *)
LEMMA FlagNext ==
  ASSUME Types, [Next]_vars
  PROVE  FlagType'
  <1> USE DEF Types, FlagType
  <1>1. owns' \in BOOLEAN
    <2>1. CASE Open
      BY <2>1 DEF Open, OpenFile, OpenFileDescriptor, OpenMemory
    <2>2. QED
      BY <2>1, PhaseSteps
  <1>2. grown' \in BOOLEAN /\ shrunk' \in BOOLEAN
    <2>1. CASE Open
      BY <2>1 DEF Open, OpenFile, OpenFileDescriptor, OpenMemory, NothingDone
    <2>2. CASE Write
      BY <2>2 DEF Write, WriteChunk, WriteSome, WriteRefused, Flush, FlushEnds, PreflushEnds,
                  DirectEnds, input
    <2>3. CASE Read
      BY <2>3 DEF Read, ReadChunk, ReadSome, ReadStops, ReadEnds, FileChanges, FileGrows,
                  FileShrinks, input
    <2>4. QED
      BY <2>1, <2>2, <2>3 DEF Next, Close, CloseEnds, Gone, vars, input
  <1>3. end_of_stream' \in BOOLEAN
    <2>1. CASE Open
      BY <2>1 DEF Open, OpenFile, OpenFileDescriptor, OpenMemory, NothingDone
    <2>2. CASE Write
      BY <2>2 DEF Write, WriteChunk, WriteSome, WriteRefused, Flush, FlushEnds, PreflushEnds,
                  DirectEnds
    <2>3. CASE ReadEnds
      <3>1. \/ end_of_stream' = end_of_stream \/ end_of_stream' = TRUE
            \/ end_of_stream' = (end_of_stream \/ stop = "eof")
        BY <2>3 DEF ReadEnds
      <3>2. (end_of_stream \/ stop = "eof") \in BOOLEAN
        BY Zenon
      <3>3. QED
        BY <3>1, <3>2
    <2>4. CASE ReadChunk
      BY <2>4 DEF ReadChunk, ReadMemory
    <2>5. CASE Read
      BY <2>3, <2>4, <2>5 DEF Read, ReadSome, ReadStops, FileChanges, FileGrows, FileShrinks
    <2>6. QED
      BY <2>1, <2>2, <2>5 DEF Next, Close, CloseEnds, Gone, vars
  <1>4. QED
    BY <1>1, <1>2, <1>3

(* of the reason why a loop stopped, *)
LEMMA StopNext ==
  ASSUME Types, [Next]_vars
  PROVE  stop' \in Stops
  <1> USE DEF Types, Stops, loop
  <1>1. CASE Open
    BY <1>1 DEF Open, OpenFile, OpenFileDescriptor, OpenMemory, NothingDone
  <1>2. CASE Write
    BY <1>2 DEF Write, WriteChunk, WriteSome, WriteRefused, Flush, FlushEnds, PreflushEnds,
                DirectEnds, StartLoop
  <1>3. CASE Read
    BY <1>3 DEF Read, ReadChunk, ReadMemory, ReadSome, ReadStops, ReadEnds, FileChanges,
                FileGrows, FileShrinks, StartLoop
  <1>4. CASE Close \/ CloseEnds
    BY <1>4 DEF Close, CloseEnds, StartLoop
  <1>5. QED
    BY <1>1, <1>2, <1>3, <1>4 DEF Next, Gone, vars

(* A chunk of the caller and what a flush leaves are bytes like any other. *)
LEMMA ChunkType ==
  ASSUME Inv, Types, NEW at \in Nat, NEW size \in Nat, BufferChunk(at, size)
  PROVE  buffer' \in [Offsets -> Nat]
  <1>1. accepted \in Nat /\ Offsets \subseteq Int
    BY DEF Inv, Counts, Offsets
  <1>2. ASSUME NEW i \in Offsets
        PROVE  (IF at <= i /\ i < at + size THEN accepted + (i - at) + 1 ELSE buffer[i]) \in Nat
    BY <1>1, StreamAssumption DEF Types, Offsets
  <1>3. QED
    BY <1>2 DEF BufferChunk

(* of the buffer when its rest is moved to the front, *)
LEMMA CompactType ==
  ASSUME Inv, Types, op \in Flushes, CompactBuffer
  PROVE  buffer' \in [Offsets -> Nat]
  <1>1. want \in 0 .. BufferSize /\ total \in 0 .. want
    BY DEF Inv, Counts, Protocol
  <1>2. ASSUME NEW i \in Offsets
        PROVE  (IF i < want - total THEN buffer[i + total] ELSE buffer[i]) \in Nat
    <2>1. i < want - total => i + total \in Offsets
      BY <1>1, StreamAssumption DEF Offsets
    <2>2. QED
      BY <2>1 DEF Types
  <1>3. QED
    BY <1>2 DEF CompactBuffer

(* of the buffer, *)
LEMMA BufferNext ==
  ASSUME Inv, Types, InputInRange, [Next]_vars
  PROVE  buffer' \in [Offsets -> Nat]
  <1>1. CASE UNCHANGED buffer
    BY <1>1 DEF Types
  <1>2. CASE Open
    BY <1>1, <1>2 DEF Open, OpenFile, OpenFileDescriptor, OpenMemory, NothingDone
  <1>3. CASE Write
    <2>1. ASSUME NEW size \in 0 .. MaxChunk, WriteChunk(size) PROVE buffer' \in [Offsets -> Nat]
      <3>1. size \in Nat /\ buffer_used \in Nat
        BY StreamAssumption DEF Inv, Counts
      <3>2. UNCHANGED buffer \/ BufferChunk(buffer_used, size)
        BY <2>1 DEF WriteChunk, Unwritten
      <3>3. QED
        BY <1>1, <3>1, <3>2, ChunkType
    <2>2. CASE FlushEnds
      BY <2>2, CompactType DEF FlushEnds, Flushes
    <2>3. CASE PreflushEnds
      <3>1. 0 \in Nat /\ pending \in Nat
        BY DEF Inv, Counts
      <3>2. op \in Flushes /\ (CompactBuffer \/ BufferChunk(0, pending))
        BY <2>3 DEF PreflushEnds, Flushes
      <3>3. QED
        BY <3>1, <3>2, CompactType, ChunkType
    <2>4. QED
      BY <1>1, <1>3, <2>1, <2>2, <2>3 DEF Write, WriteSome, WriteRefused, Flush, DirectEnds
  <1>4. CASE Read
    <2>1. ASSUME NEW k \in 1 .. BufferSize, ReadSome(k) PROVE buffer' \in [Offsets -> Nat]
      <3>1. fd_pos \in Nat /\ total \in Nat
        BY DEF Inv, Counts, InputInRange
      <3>2. ASSUME NEW i \in Offsets
            PROVE  (IF total <= i /\ i < total + k THEN fd_pos + (i - total) + 1
                                                   ELSE buffer[i]) \in Nat
        BY <3>1, StreamAssumption DEF Types, Offsets
      <3>3. QED
        BY <2>1, <3>2 DEF ReadSome
    <2>2. QED
      BY <1>1, <1>4, <2>1 DEF Read, ReadChunk, ReadStops, ReadEnds, FileChanges, FileGrows,
                              FileShrinks
  <1>5. CASE CloseEnds
    BY <1>5, CompactType DEF CloseEnds, Flushes
  <1>6. QED
    BY <1>1, <1>2, <1>3, <1>4, <1>5 DEF Next, Close, Gone, vars

(* of what is on the descriptor, *)
LEMMA DeviceNext ==
  ASSUME Inv, Types, [Next]_vars
  PROVE  device' \in [0 .. written' - 1 -> Nat]
  <1>1. CASE UNCHANGED <<device, written>>
    BY <1>1 DEF Types
  <1>2. ASSUME NEW k \in 1 .. BufferSize + MaxChunk, WriteSome(k)
        PROVE  device' \in [0 .. written' - 1 -> Nat]
    <2>1. /\ written \in Nat /\ accepted \in Nat /\ total \in Nat /\ want \in Nat /\ k \in Nat
          /\ k <= want - total
          /\ op = "direct" \/ want <= BufferSize
      BY <1>2, StreamAssumption DEF WriteSome, Inv, Counts, Protocol
    <2>2. ASSUME NEW i \in 0 .. written + k - 1
          PROVE  (IF i < written THEN device[i]
                  ELSE IF op = "direct" THEN accepted + total + (i - written) + 1
                  ELSE buffer[total + (i - written)]) \in Nat
      <3>1. CASE i < written
        <4>1. i \in 0 .. written - 1
          BY <2>1, <3>1
        <4>2. QED
          BY <3>1, <4>1 DEF Types
      <3>2. CASE ~ (i < written) /\ op = "direct"
        BY <2>1, <3>2
      <3>3. CASE ~ (i < written) /\ op # "direct"
        <4>1. total + (i - written) \in Offsets
          BY <2>1, <3>3, StreamAssumption DEF Offsets
        <4>2. QED
          BY <3>3, <4>1 DEF Types
      <3>4. QED
        BY <3>1, <3>2, <3>3
    <2>3. device' \in [0 .. written + k - 1 -> Nat]
      <3>1. device' = [i \in 0 .. written + k - 1 |->
                         IF i < written THEN device[i]
                         ELSE IF op = "direct" THEN accepted + total + (i - written) + 1
                         ELSE buffer[total + (i - written)]]
        BY <1>2 DEF WriteSome
      <3>2. QED
        BY <2>2, <3>1, Zenon
    <2>4. written' = written + k
      BY <1>2 DEF WriteSome
    <2>5. 0 .. written' - 1 = 0 .. written + k - 1
      BY <2>1, <2>4
    <2>6. QED
      BY <2>3, <2>5, Zenon
  <1>3. CASE Write
    BY <1>1, <1>2, <1>3 DEF Write, WriteChunk, WriteRefused, Flush, FlushEnds, PreflushEnds,
                DirectEnds, output
  <1>4. CASE Open
    BY <1>1, <1>4 DEF Open, OpenFile, OpenFileDescriptor, OpenMemory, NothingDone, output
  <1>5. CASE Read
    BY <1>1, <1>5 DEF Read, ReadChunk, ReadSome, ReadStops, ReadEnds, FileChanges, FileGrows,
                      FileShrinks, output
  <1>6. QED
    BY <1>1, <1>3, <1>4, <1>5 DEF Next, Close, CloseEnds, Gone, vars, output

(* What a call may return. *)
LEMMA ReturnsType ==
  ASSUME NEW call \in {"read", "write", "flush"}, NEW ok \in BOOLEAN, NEW size \in Nat,
         Returns(call, ok, size)
  PROVE  ret' \in Results
  BY DEF Returns, Results

(* and of what a call returned: *)
LEMMA ReturnNext ==
  ASSUME Inv, InputInRange, Types, [Next]_vars
  PROVE  ReturnType'
  <1>1. ASSUME UNCHANGED ret PROVE ret' \in Results
    BY <1>1 DEF Types, ReturnType
  <1>2. total \in Nat /\ pending \in Nat
    BY DEF Inv, Counts
  <1>3. calls' \in Nat
    <2>1. calls' = calls \/ calls' = calls + 1
      <3>1. CASE Open
        BY <3>1 DEF Open, OpenFile, OpenFileDescriptor, OpenMemory, NothingDone
      <3>2. CASE Write
        BY <3>2 DEF Write, WriteChunk, Call, WriteSome, WriteRefused, Flush, FlushEnds,
                    PreflushEnds, DirectEnds
      <3>3. CASE Read
        BY <3>3 DEF Read, ReadChunk, Call, ReadSome, ReadStops, ReadEnds, FileChanges, FileGrows,
                    FileShrinks
      <3>4. QED
        BY <3>1, <3>2, <3>3 DEF Next, Close, CloseEnds, Gone, vars
    <2>2. QED
      BY <2>1 DEF Types, ReturnType
  <1> SUFFICES ret' \in Results
    BY <1>3 DEF ReturnType
  <1>4. CASE Open
    BY <1>1, <1>4 DEF Open, OpenFile, OpenFileDescriptor, OpenMemory, NothingDone
  <1>5. CASE Write
    <2>1. ASSUME NEW size \in 0 .. MaxChunk, WriteChunk(size) PROVE ret' \in Results
      <3>1. size \in Nat /\ 0 \in Nat
        BY StreamAssumption
      <3>2. UNCHANGED ret \/ Returns("write", FALSE, 0) \/ Returns("write", TRUE, 0)
            \/ Returns("write", TRUE, size)
        BY <2>1 DEF WriteChunk, BufferChunk
      <3>3. QED
        BY <1>1, <3>1, <3>2, ReturnsType
    <2>2. CASE Flush \/ FlushEnds
      <3>1. UNCHANGED ret \/ Returns("flush", TRUE, 0) \/ Returns("flush", total = want, 0)
        BY <2>2 DEF Flush, FlushEnds
      <3>2. QED
        BY <1>1, <3>1, ReturnsType
    <2>3. CASE PreflushEnds
      <3>1. UNCHANGED ret \/ Returns("write", FALSE, 0) \/ Returns("write", TRUE, pending)
        BY <2>3 DEF PreflushEnds, BufferChunk
      <3>2. QED
        BY <1>1, <1>2, <3>1, ReturnsType
    <2>4. CASE DirectEnds
      <3>1. Returns("write", stop # "error", total)
        BY <2>4 DEF DirectEnds
      <3>2. QED
        BY <1>2, <3>1, ReturnsType
    <2>5. QED
      BY <1>1, <1>5, <2>1, <2>2, <2>3, <2>4 DEF Write, WriteSome, WriteRefused
  <1>6. CASE Read
    <2>1. CASE ReadChunk
      <3>1. CASE ReadMemory
        <4>1. CASE fd_pos >= file_size
          <5>1. Returns("read", FALSE, 0)
            BY <3>1, <4>1 DEF ReadMemory
          <5>2. QED
            BY <5>1, ReturnsType
        <4>2. CASE ~ (fd_pos >= file_size)
          <5>1. Returns("read", TRUE, SmallerOf(file_size - fd_pos, BufferSize))
            BY <3>1, <4>2 DEF ReadMemory
          <5>2. SmallerOf(file_size - fd_pos, BufferSize) \in Nat
            BY <4>2, StreamAssumption DEF SmallerOf, InputInRange
          <5>3. QED
            BY <5>1, <5>2, ReturnsType
        <4>3. QED
          BY <4>1, <4>2
      <3>2. UNCHANGED ret \/ Returns("read", FALSE, 0) \/ ReadMemory
        BY <2>1 DEF ReadChunk
      <3>3. QED
        BY <1>1, <3>1, <3>2, ReturnsType
    <2>2. CASE ReadEnds
      <3>1. Returns("read", FALSE, 0) \/ Returns("read", TRUE, total)
        BY <2>2 DEF ReadEnds
      <3>2. QED
        BY <1>2, <3>1, ReturnsType
    <2>3. QED
      BY <1>1, <1>6, <2>1, <2>2 DEF Read, ReadSome, ReadStops, FileChanges, FileGrows, FileShrinks
  <1>7. QED
    BY <1>1, <1>4, <1>5, <1>6 DEF Next, Close, CloseEnds, Gone, vars

(* all the types. *)
LEMMA TypesNext ==
  ASSUME Inv, InputInRange, Types, [Next]_vars
  PROVE  Types'
  BY OpeningNext, FlagNext, ReturnNext, BufferNext, StopNext, DeviceNext DEF Types

(* The types hold in every reachable state. *)
LEMMA TypesAlways == Spec => []Types
  <1>1. Init => Types
    <2> SUFFICES ASSUME Init PROVE Types
      OBVIOUS
    <2>1. written = 0 /\ device = [i \in 0 .. -1 |-> 0]
      BY DEF Init
    <2>2. device \in [0 .. written - 1 -> Nat]
      BY <2>1
    <2>3. OpeningType /\ FlagType /\ stop \in Stops
      BY DEF Init, OpeningType, FlagType, Stops
    <2>4. ReturnType
      BY DEF Init, ReturnType, Results
    <2>5. buffer \in [Offsets -> Nat]
      BY DEF Init
    <2>6. QED
      BY <2>2, <2>3, <2>4, <2>5 DEF Types
  <1>2. QED
    BY <1>1, InvAlways, InputAlways, TypesNext, PTL DEF Spec

(* A descriptor that the stream opened is closed where the stream ends. *)
LEMMA OwningNext ==
  ASSUME Types, Running, Owning, [Next]_vars
  PROVE  Owning'
  <1> USE DEF Owning
  <1>1. CASE UNCHANGED <<phase, mode, source, owns, fd, total_size>>
    BY <1>1
  <1>2. CASE Open
    <2>1. ASSUME NEW m \in {"read", "write"}, OpenFile(m) PROVE Owning'
      BY <2>1 DEF OpenFile, AllocateWithBuffer
    <2>2. ASSUME NEW m \in {"read", "write"}, NEW s \in {"file", "pipe", "memory"},
                 OpenFileDescriptor(m, s)
          PROVE  Owning'
      BY <2>2 DEF OpenFileDescriptor, AllocateWithBuffer
    <2>3. CASE OpenMemory
      BY <2>3 DEF OpenMemory
    <2>4. QED
      BY <1>2, <2>1, <2>2, <2>3 DEF Open
  <1>3. CASE (Close \/ CloseEnds) /\ Released /\ UNCHANGED <<mode, source, owns, total_size>>
    <2>1. phase = "open"
      BY <1>3 DEF Close, Idle, CloseEnds, Running
    <2>2. QED
      BY <1>3, <2>1 DEF Released
  <1>4. QED
    BY <1>1, <1>2, <1>3, PhaseSteps

(***************************************************************************)
(* Every variable keeps its type, and the descriptor is closed exactly if  *)
(* the stream opened it, on every path that ends a stream.                 *)
(***************************************************************************)
THEOREM DescriptorIsOwned == Spec => []DescriptorOwnership
  <1>1. Init => Owning
    BY DEF Init, Owning
  <1>2. Spec => []Owning
    BY <1>1, TypesAlways, RunningAlways, OwningNext, PTL DEF Spec
  <1>3. Known /\ ReadOrder /\ Types => TypeOK
    <2> SUFFICES ASSUME Known, ReadOrder, Types PROVE TypeOK
      OBVIOUS
    <2>1. OpeningType /\ BufferType /\ FlagType /\ ReturnType
      BY DEF Types, BufferType, Known, Inv, Counts
    <2>2. LoopType
      BY DEF Types, LoopType, Known, Inv, Counts, Protocol
    <2>3. PositionType /\ OutputType /\ InputType
      BY DEF Types, PositionType, OutputType, InputType, Known, Inv, Counts, Agreement,
             InputInRange, ReadOrder
    <2>4. QED
      BY <2>1, <2>2, <2>3 DEF TypeOK
  <1>4. TypeOK /\ Owning => DescriptorOwnership
    BY DEF Owning, DescriptorOwnership
  <1>5. Inv /\ Agreement /\ InputInRange => Known
    BY DEF Known
  <1>6. QED
    BY <1>2, <1>3, <1>4, <1>5, InvAlways, AgreementAlways, InputAlways, OrderAlways,
       TypesAlways, PTL

-----------------------------------------------------------------------------
(* The end of the input. *)

(* The end, or a loop that met it, is the end of a file that has not grown. *)
AtEnd ==
  grown = FALSE /\ (end_of_stream = TRUE \/ (op = "read" /\ stop = "eof")) => fd_pos >= file_size

(***************************************************************************)
(* The size asked for at the open is right as long as the file does not    *)
(* change, and not too small as long as it does not grow.                  *)
(***************************************************************************)
Sized ==
  /\ file_size <= MaxFile
  /\ phase = "new" => total_size = -1
  /\ total_size # -1 => total_size <= MaxFile
  /\ total_size # -1 /\ grown = FALSE =>
       file_size <= total_size /\ (shrunk = FALSE => total_size = file_size)

(* What was delivered, dropped or is being read. *)
Taken == logical_position + dropped + UnderWay

(***************************************************************************)
(* The descriptor is past it; it was in the file at the open unless the    *)
(* file has grown, and a file this stream opened itself is not read past   *)
(* its end unless it was truncated.                                        *)
(***************************************************************************)
Behind ==
  mode = "read" =>
    /\ Taken <= fd_pos
    /\ grown = FALSE /\ total_size # -1 => Taken <= total_size
    /\ shrunk = FALSE /\ (owns \/ source = "memory") => fd_pos <= file_size

(* All that the end of the input depends on. *)
Reading == Known /\ ReadOrder /\ Types /\ EndIsQuiet

(* And these facts hold in every reachable state. *)
LEMMA ReadingAlways == Spec => []Reading
  <1>1. Inv /\ Agreement /\ InputInRange /\ ReadOrder /\ Types /\ EndIsQuiet => Reading
    BY DEF Reading, Known
  <1>2. QED
    BY <1>1, InvAlways, AgreementAlways, InputAlways, OrderAlways, TypesAlways,
       EndIsQuietAlways, PTL

(* What a step changes of the input. *)
LEMMA InputSteps ==
  ASSUME Next
  PROVE  \/ Open \/ Read
         \/ UNCHANGED <<end_of_stream, file_size, fd_pos, dropped, grown, shrunk>>
  <1> USE DEF input
  <1>1. CASE Write
    BY <1>1 DEF Write, WriteChunk, WriteSome, WriteRefused, Flush, FlushEnds, PreflushEnds,
                DirectEnds
  <1>2. CASE Close \/ CloseEnds \/ Gone
    BY <1>2 DEF Close, CloseEnds, Gone, vars
  <1>3. QED
    BY <1>1, <1>2 DEF Next

(* A new stream has not ended and runs nothing, and an open keeps it so. *)
LEMMA OpenQuiet ==
  ASSUME Reading, Open
  PROVE  /\ phase = "new" /\ op = "none" /\ op' = "none"
         /\ end_of_stream = FALSE /\ end_of_stream' = FALSE
         /\ logical_position' = 0 /\ dropped' = 0
         /\ UNCHANGED <<file_size, grown, shrunk>>
  <1>1. /\ phase = "new"
        /\ UNCHANGED <<op, end_of_stream, logical_position, dropped, file_size, grown, shrunk>>
    BY DEF Open, OpenFile, OpenFileDescriptor, OpenMemory, NothingDone, loop
  <1>2. op = "none" /\ logical_position = 0 /\ dropped = 0
    BY <1>1 DEF Reading, Known, Inv, Protocol, Agreement, ReadOrder
  <1>3. end_of_stream = FALSE
    BY <1>1 DEF Reading, EndIsQuiet, Types, FlagType
  <1>4. QED
    BY <1>1, <1>2, <1>3

(* No writing step has a read under way, before or after it. *)
LEMMA NoReadUnderWay ==
  ASSUME Next, ~ Read, ~ Gone
  PROVE  (op # "read" /\ op' # "read") \/ Open
  <1>1. CASE Write
    BY <1>1 DEF Write, WriteChunk, Call, Idle, WriteSome, WriteRefused, Flush, FlushEnds,
                PreflushEnds, DirectEnds, StartLoop, Flushes, loop
  <1>2. CASE Close \/ CloseEnds
    BY <1>2 DEF Close, Idle, CloseEnds, StartLoop, loop
  <1>3. QED
    BY <1>1, <1>2 DEF Next

(* Every step keeps AtEnd: eof is only met at the end of the file. *)
LEMMA AtEndNext ==
  ASSUME Reading, AtEnd, [Next]_vars
  PROVE  AtEnd'
  <1> USE DEF AtEnd
  <1>1. CASE UNCHANGED vars
    BY <1>1 DEF vars, loop, input
  <1>2. CASE Open
    BY <1>2, OpenQuiet
  <1>3. CASE Read
    <2>1. CASE ReadChunk
      <3>1. op = "none" /\ UNCHANGED <<file_size, grown, shrunk>>
        BY <2>1 DEF ReadChunk, Call, Idle
      <3>2. CASE UNCHANGED <<loop, end_of_stream, fd_pos>>
        BY <3>1, <3>2 DEF loop
      <3>3. CASE /\ end_of_stream # TRUE /\ ReadMemory
        <4>1. op' = "none"
          BY <3>1, <3>3 DEF ReadMemory, loop
        <4>2. CASE fd_pos >= file_size
          <5>1. UNCHANGED fd_pos
            BY <3>3, <4>2 DEF ReadMemory
          <5>2. QED
            BY <3>1, <4>2, <5>1 DEF Reading, Known, InputInRange
        <4>3. CASE ~ (fd_pos >= file_size)
          <5>1. UNCHANGED end_of_stream
            BY <3>3, <4>3 DEF ReadMemory
          <5>2. QED
            BY <3>3, <4>1, <5>1
        <4>4. QED
          BY <4>2, <4>3
      <3>4. CASE StartLoop("read", BufferSize) /\ UNCHANGED <<end_of_stream, fd_pos>>
        BY <3>1, <3>4 DEF StartLoop
      <3>5. QED
        BY <2>1, <3>2, <3>3, <3>4 DEF ReadChunk
    <2>2. ASSUME NEW k \in 1 .. BufferSize, ReadSome(k) PROVE AtEnd'
      <3>1. op = "read" /\ stop = "no" /\ UNCHANGED <<stop, end_of_stream>>
        BY <2>2 DEF ReadSome
      <3>2. end_of_stream # TRUE
        BY <3>1 DEF Reading, EndIsQuiet
      <3>3. QED
        BY <3>1, <3>2
    <2>3. ASSUME NEW why \in {"again", "eof", "error"}, ReadStops(why) PROVE AtEnd'
      BY <2>3 DEF ReadStops, input
    <2>4. CASE ReadEnds
      <3>1. op = "read" /\ op' = "none" /\ UNCHANGED <<file_size, fd_pos, grown, shrunk>>
        BY <2>4 DEF ReadEnds
      <3>2. end_of_stream # TRUE
        BY <3>1 DEF Reading, EndIsQuiet
      <3>3. \/ end_of_stream' = end_of_stream
            \/ stop = "eof"
            \/ end_of_stream' = (end_of_stream \/ stop = "eof")
        BY <2>4 DEF ReadEnds
      <3>4. end_of_stream = FALSE
        BY <3>2 DEF Reading, Types, FlagType
      <3>5. end_of_stream' # TRUE \/ stop = "eof"
        BY <3>3, <3>4
      <3>6. QED
        BY <3>1, <3>5
    <2>5. CASE FileChanges
      <3>1. CASE FileGrows
        BY <3>1 DEF FileGrows
      <3>2. ASSUME NEW size \in 0 .. MaxFile, FileShrinks(size) PROVE AtEnd'
        <4>1. /\ UNCHANGED <<grown, end_of_stream, op, stop, fd_pos>>
              /\ file_size' = size /\ size < file_size
          BY <3>2 DEF FileShrinks, loop
        <4>2. fd_pos \in Nat /\ file_size \in Nat /\ size \in Int
          BY <3>2, StreamAssumption DEF Reading, Known, InputInRange
        <4>3. QED
          BY <4>1, <4>2
      <3>3. QED
        BY <2>5, <3>1, <3>2 DEF FileChanges
    <2>6. QED
      BY <1>3, <2>1, <2>2, <2>3, <2>4, <2>5 DEF Read
  <1>4. CASE Next /\ ~ Open /\ ~ Read /\ ~ Gone
    BY <1>4, InputSteps, NoReadUnderWay
  <1>5. QED
    BY <1>1, <1>2, <1>3, <1>4 DEF Gone

(* How the file changes under an open stream. *)
LEMMA FileSteps ==
  ASSUME Reading, [Next]_vars, ~ Open
  PROVE  \/ UNCHANGED <<file_size, grown, shrunk>>
         \/ grown' = TRUE /\ file_size' = file_size + 1 /\ file_size' <= MaxFile /\ UNCHANGED shrunk
         \/ shrunk' = TRUE /\ file_size' \in 0 .. file_size /\ UNCHANGED grown
  <1>1. UNCHANGED <<file_size, grown, shrunk>> \/ FileChanges
    <2>1. CASE Read
      BY <2>1 DEF Read, ReadChunk, ReadSome, ReadStops, ReadEnds, input
    <2>2. CASE UNCHANGED vars
      BY <2>2 DEF vars, input
    <2>3. QED
      BY <2>1, <2>2, InputSteps
  <1>2. file_size \in Nat /\ MaxFile \in Nat
    BY StreamAssumption DEF Reading, Known, InputInRange
  <1>3. ASSUME FileGrows
        PROVE  grown' = TRUE /\ file_size' = file_size + 1 /\ file_size' <= MaxFile
               /\ UNCHANGED shrunk
    BY <1>2, <1>3 DEF FileGrows
  <1>4. ASSUME NEW size \in 0 .. MaxFile, FileShrinks(size)
        PROVE  shrunk' = TRUE /\ file_size' \in 0 .. file_size /\ UNCHANGED grown
    BY <1>2, <1>4 DEF FileShrinks
  <1>5. QED
    BY <1>1, <1>3, <1>4 DEF FileChanges

(* Every step keeps Sized: the size is asked for once. *)
LEMMA SizedNext ==
  ASSUME Reading, Sized, [Next]_vars
  PROVE  Sized'
  <1> USE DEF Sized
  <1>1. CASE Open
    <2>1. phase = "new" /\ UNCHANGED <<file_size, grown, shrunk>>
      BY <1>1, OpenQuiet
    <2>2. phase' # "new" /\ total_size' \in {-1, file_size}
      <3>1. ASSUME NEW m \in {"read", "write"}, OpenFile(m) PROVE <2>2!:
        BY <2>1, <3>1 DEF OpenFile, AllocateWithBuffer, KnownSize
      <3>2. ASSUME NEW m \in {"read", "write"}, NEW s \in {"file", "pipe", "memory"},
                   OpenFileDescriptor(m, s)
            PROVE  <2>2!:
        BY <3>2 DEF OpenFileDescriptor, AllocateWithBuffer, KnownSize
      <3>3. CASE OpenMemory
        BY <3>3 DEF OpenMemory
      <3>4. QED
        BY <1>1, <3>1, <3>2, <3>3 DEF Open
    <2>3. file_size \in Nat
      BY DEF Reading, Known, InputInRange
    <2>4. QED
      BY <2>1, <2>2, <2>3
  <1>2. CASE ~ Open
    <2>1. total_size' = total_size /\ (phase' = "new" => phase = "new")
      BY <1>2, PhaseSteps DEF Released
    <2>2. /\ file_size \in Nat /\ MaxFile \in Nat /\ total_size \in Nat \cup {-1}
          /\ grown \in BOOLEAN /\ shrunk \in BOOLEAN
      BY StreamAssumption DEF Reading, Known, InputInRange, Types, OpeningType, FlagType
    <2>3. CASE UNCHANGED <<file_size, grown, shrunk>>
      BY <2>1, <2>3
    <2>4. CASE grown' = TRUE /\ file_size' = file_size + 1 /\ file_size' <= MaxFile
               /\ UNCHANGED shrunk
      BY <2>1, <2>4
    <2>5. CASE shrunk' = TRUE /\ file_size' \in 0 .. file_size /\ UNCHANGED grown
      BY <2>1, <2>2, <2>5
    <2>6. QED
      BY <1>2, <2>3, <2>4, <2>5, FileSteps
  <1>3. QED
    BY <1>1, <1>2

(* A stream opened for reading writes and flushes nothing. *)
LEMMA NothingWritten ==
  ASSUME Reading, mode = "read", Write \/ Close \/ CloseEnds
  PROVE  UNCHANGED <<mode, logical_position, op, total, fd_pos, dropped>>
  <1>1. buffer_used = 0 /\ op \notin Flushes \cup {"direct"}
    BY DEF Reading, Known, Inv, Protocol
  <1>2. ~ (FlushEnds \/ PreflushEnds \/ DirectEnds \/ CloseEnds)
    BY <1>1 DEF FlushEnds, PreflushEnds, DirectEnds, CloseEnds, Flushes
  <1>3. \A k : ~ WriteSome(k) /\ ~ WriteRefused(k)
    BY <1>1 DEF WriteSome, WriteRefused
  <1>4. CASE \E size \in 0 .. MaxChunk : WriteChunk(size)
    BY <1>4 DEF WriteChunk, Unwritten, opening, loop, input
  <1>5. CASE Flush
    BY <1>1, <1>5 DEF Flush, opening, loop, input
  <1>6. CASE Close
    BY <1>1, <1>6 DEF Close, loop, input
  <1>7. QED
    BY <1>2, <1>3, <1>4, <1>5, <1>6 DEF Write

(* The counts are numbers. *)
LEMMA TakenIsNumber ==
  ASSUME Reading
  PROVE  /\ fd_pos \in Nat /\ logical_position \in Nat /\ dropped \in Nat /\ total \in Nat
         /\ file_size \in Nat /\ mode \in {"read", "write"} /\ UnderWay \in Nat /\ Taken \in Nat
  BY DEF Reading, Known, Inv, Counts, Protocol, Agreement, InputInRange, ReadOrder, UnderWay, Taken

(* Bytes are taken from the file as the descriptor moves over them. *)
LEMMA TakenSteps ==
  ASSUME Reading, [Next]_vars, ~ Open, mode = "read"
  PROVE  \/ Taken' \in 0 .. Taken /\ UNCHANGED fd_pos
         \/ \E k \in Nat : /\ Taken' = Taken + k /\ fd_pos' = fd_pos + k
                          /\ fd_pos + k <= file_size /\ UNCHANGED <<file_size, grown, shrunk>>
  <1>1. /\ fd_pos \in Nat /\ logical_position \in Nat /\ dropped \in Nat /\ total \in Nat
        /\ file_size \in Nat /\ Taken \in Nat
    BY TakenIsNumber
  <1>2. ASSUME UNCHANGED <<logical_position, op, total, fd_pos, dropped>>
        PROVE  Taken' \in 0 .. Taken /\ UNCHANGED fd_pos
    BY <1>1, <1>2 DEF UnderWay, Taken
  <1>3. CASE ReadChunk
    <2>1. op = "none" /\ UNCHANGED <<dropped, file_size, grown, shrunk>> /\ UnderWay = 0
      BY <1>3 DEF ReadChunk, Call, Idle, UnderWay
    <2>2. CASE UNCHANGED <<loop, logical_position, fd_pos>>
      BY <1>2, <2>1, <2>2 DEF loop
    <2>3. CASE ReadMemory
      <3> DEFINE size == SmallerOf(file_size - fd_pos, BufferSize)
      <3>1. UnderWay' = 0
        BY <2>1, <2>3 DEF ReadMemory, loop, UnderWay
      <3>2. \/ UNCHANGED <<fd_pos, logical_position>>
            \/ /\ size \in Nat /\ fd_pos + size <= file_size
               /\ fd_pos' = fd_pos + size /\ logical_position' = logical_position + size
        BY <2>3, MemoryMoves, MemoryChunk DEF Reading, Known
      <3> HIDE DEF size
      <3>3. CASE UNCHANGED <<fd_pos, logical_position>>
        BY <1>1, <2>1, <3>1, <3>3 DEF Taken
      <3>4. CASE /\ size \in Nat /\ fd_pos + size <= file_size
                 /\ fd_pos' = fd_pos + size /\ logical_position' = logical_position + size
        <4>1. Taken' = Taken + size
          BY <1>1, <2>1, <3>1, <3>4 DEF Taken
        <4>2. QED
          BY <2>1, <3>4, <4>1
      <3>5. QED
        BY <3>2, <3>3, <3>4
    <2>4. CASE StartLoop("read", BufferSize) /\ UNCHANGED <<logical_position, fd_pos>>
      BY <1>1, <2>1, <2>4 DEF StartLoop, UnderWay, Taken
    <2>5. QED
      BY <1>3, <2>2, <2>3, <2>4 DEF ReadChunk
  <1>4. ASSUME NEW k \in 1 .. BufferSize, ReadSome(k)
        PROVE  /\ k \in Nat /\ Taken' = Taken + k /\ fd_pos' = fd_pos + k
               /\ fd_pos + k <= file_size /\ UNCHANGED <<file_size, grown, shrunk>>
    <2>1. /\ op = "read" /\ op' = "read" /\ fd_pos' = fd_pos + k /\ total' = total + k
          /\ UNCHANGED <<logical_position, dropped, file_size, grown, shrunk>> /\ k \in Nat
          /\ k <= file_size - fd_pos
      BY <1>4, StreamAssumption DEF ReadSome
    <2>2. QED
      BY <1>1, <2>1 DEF UnderWay, Taken
  <1>5. ASSUME NEW why \in {"again", "eof", "error"}, ReadStops(why)
        PROVE  Taken' \in 0 .. Taken /\ UNCHANGED fd_pos
    BY <1>2, <1>5 DEF ReadStops, input
  <1>6. CASE ReadEnds
    <2>1. /\ op = "read" /\ op' = "none" /\ UNCHANGED fd_pos
          /\ \/ dropped' = dropped + total /\ logical_position' = logical_position
             \/ dropped' = dropped /\ logical_position' = logical_position
             \/ dropped' = dropped /\ logical_position' = logical_position + total
      BY <1>6 DEF ReadEnds
    <2>2. QED
      BY <1>1, <2>1 DEF UnderWay, Taken
  <1>7. CASE FileChanges
    BY <1>2, <1>7 DEF FileChanges, FileGrows, FileShrinks, loop
  <1>8. CASE Write \/ Close \/ CloseEnds
    BY <1>2, <1>8, NothingWritten
  <1>9. CASE UNCHANGED vars
    BY <1>2, <1>9 DEF vars, loop, input
  <1>10. QED
    BY <1>3, <1>4, <1>5, <1>6, <1>7, <1>8, <1>9 DEF Next, Read, Gone

(* A file or a block that the stream opens itself is read from its start. *)
LEMMA OpenAtStart ==
  ASSUME Reading, Open, owns' \/ source' = "memory" PROVE fd_pos' = 0
  <1>1. fd_pos = 0
    BY OpenQuiet DEF Reading, ReadOrder
  <1>2. ASSUME NEW m \in {"read", "write"}, OpenFile(m) PROVE fd_pos' = fd_pos
    BY <1>2 DEF OpenFile
  <1>3. ASSUME NEW m \in {"read", "write"}, NEW s \in {"file", "pipe", "memory"},
               OpenFileDescriptor(m, s)
        PROVE  fd_pos' = 0
    BY <1>3 DEF OpenFileDescriptor
  <1>4. CASE OpenMemory
    BY <1>1, <1>4 DEF OpenMemory
  <1>5. QED
    BY <1>1, <1>2, <1>3, <1>4 DEF Open

(* Every step keeps Behind: no byte is delivered before it is read. *)
LEMMA BehindNext ==
  ASSUME Reading, Sized, Behind, [Next]_vars
  PROVE  Behind'
  <1>1. /\ fd_pos \in Nat /\ file_size \in Nat /\ Taken \in Nat /\ mode \in {"read", "write"}
        /\ total_size \in Nat \cup {-1} /\ grown \in BOOLEAN /\ shrunk \in BOOLEAN
    BY TakenIsNumber DEF Reading, Types, OpeningType, FlagType
  <1>2. CASE Open
    <2>1. fd_pos' \in Nat /\ file_size' \in Nat
      BY <1>2, InputNext DEF Reading, Known, InputInRange
    <2>2. Taken' = 0
      BY <1>2, OpenQuiet DEF UnderWay, Taken
    <2>3. total_size' # -1 => 0 <= total_size'
      <3>1. total_size' \in Nat \cup {-1}
        BY OpeningNext DEF Reading, Known, OpeningType
      <3>2. QED
        BY <3>1
    <2>4. owns' \/ source' = "memory" => fd_pos' <= file_size'
      BY <1>2, <2>1, OpenAtStart
    <2>5. QED
      BY <2>1, <2>2, <2>3, <2>4 DEF Behind
  <1>3. CASE ~ Open /\ mode = "read"
    <2>1. UNCHANGED <<mode, source, owns, total_size>>
      BY <1>3, PhaseSteps
    <2>2. /\ Taken <= fd_pos
          /\ grown = FALSE /\ total_size # -1 => Taken <= total_size /\ file_size <= total_size
          /\ shrunk = FALSE /\ (owns \/ source = "memory") => fd_pos <= file_size
      BY <1>3 DEF Behind, Sized
    <2>3. /\ grown' = FALSE => grown = FALSE
          /\ shrunk' = FALSE => shrunk = FALSE /\ file_size <= file_size'
          /\ file_size' \in Int
      <3>1. CASE UNCHANGED <<file_size, grown, shrunk>>
        BY <1>1, <3>1
      <3>2. CASE grown' = TRUE /\ file_size' = file_size + 1 /\ UNCHANGED shrunk
        BY <1>1, <3>2
      <3>3. CASE shrunk' = TRUE /\ file_size' \in 0 .. file_size /\ UNCHANGED grown
        BY <1>1, <3>3
      <3>4. QED
        BY <1>3, <3>1, <3>2, <3>3, FileSteps
    <2>4. CASE Taken' \in 0 .. Taken /\ UNCHANGED fd_pos
      BY <1>1, <2>1, <2>2, <2>3, <2>4 DEF Behind
    <2>5. ASSUME NEW k \in Nat, Taken' = Taken + k, fd_pos' = fd_pos + k,
                 fd_pos + k <= file_size, UNCHANGED <<file_size, grown, shrunk>>
          PROVE  Behind'
      BY <1>1, <2>1, <2>2, <2>5 DEF Behind
    <2>6. QED
      BY <1>3, <2>4, <2>5, TakenSteps
  <1>4. CASE ~ Open /\ mode # "read"
    <2>1. mode' = mode
      BY <1>4, PhaseSteps
    <2>2. QED
      BY <1>4, <2>1 DEF Behind
  <1>5. QED
    BY <1>2, <1>3, <1>4

(* What of the input is always known. *)
LEMMA EndAlways == Spec => [](Reading /\ AtEnd /\ Sized /\ Behind)
  <1>1. Init => AtEnd /\ Sized /\ Behind
    <2> SUFFICES ASSUME Init PROVE AtEnd /\ Sized /\ Behind
      OBVIOUS
    <2>1. AtEnd
      BY DEF Init, AtEnd
    <2>2. Sized
      BY StreamAssumption DEF Init, Sized
    <2>3. Behind
      BY StreamAssumption DEF Init, Behind, UnderWay, Taken
    <2>4. QED
      BY <2>1, <2>2, <2>3
  <1>2. QED
    BY <1>1, ReadingAlways, AtEndNext, SizedNext, BehindNext, PTL DEF Spec

(* Up to the size that was asked for, remaining_bytes does not wrap. *)
LEMMA RemainingIsExact ==
  ASSUME Reading, Sized, total_size # -1, logical_position <= total_size
  PROVE  RemainingBytes = total_size - logical_position
  <1>1. /\ logical_position \in Nat /\ total_size \in Nat /\ total_size <= MaxFile
    BY TakenIsNumber DEF Reading, Types, OpeningType, Sized
  <1>2. PICK d \in Nat : d = total_size - logical_position /\ d < SizeLimit
    BY <1>1, StreamAssumption
  <1>3. d % SizeLimit = d
    BY <1>2, StreamAssumption
  <1>4. QED
    BY <1>2, <1>3 DEF RemainingBytes

(***************************************************************************)
(* When the stream says end_of_stream, nothing is left of a file that it   *)
(* opened and nobody appended to; if nobody truncated it either it was     *)
(* delivered whole, and remaining_bytes has counted down to zero.          *)
(***************************************************************************)
THEOREM EndIsTheEnd == Spec => []EndMeansAll
  <1>1. Reading /\ AtEnd /\ Sized /\ Behind => EndMeansAll
    <2>1. SUFFICES ASSUME Reading, AtEnd, Sized, Behind, phase = "open",
                          owns \/ source = "memory", end_of_stream, ~ grown, dropped = 0
                   PROVE  /\ logical_position >= file_size
                          /\ ~ shrunk => logical_position = file_size
                          /\ ~ shrunk /\ total_size # -1 => RemainingBytes = 0
      BY DEF EndMeansAll
    <2>2. grown = FALSE /\ end_of_stream = TRUE
      BY <2>1 DEF Reading, Types, FlagType
    <2>3. mode = "read" /\ op = "none"
      BY <2>1, <2>2 DEF Reading, EndIsQuiet
    <2>4. logical_position \in Nat /\ file_size \in Nat
      BY <2>1, TakenIsNumber
    <2>5. fd_pos = logical_position
      <3>1. fd_pos = logical_position + dropped + UnderWay
        BY <2>1, <2>3 DEF Reading, ReadOrder, Cursor
      <3>2. QED
        BY <2>1, <2>3, <2>4, <3>1 DEF UnderWay
    <2>6. logical_position >= file_size
      BY <2>1, <2>2, <2>5 DEF AtEnd
    <2>7. ASSUME ~ shrunk PROVE logical_position = file_size
      <3>1. shrunk = FALSE
        BY <2>1, <2>7 DEF Reading, Types, FlagType
      <3>2. fd_pos <= file_size
        BY <2>1, <2>3, <3>1 DEF Behind
      <3>3. QED
        BY <2>4, <2>5, <2>6, <3>2
    <2>8. ASSUME ~ shrunk, total_size # -1 PROVE RemainingBytes = 0
      <3>1. shrunk = FALSE
        BY <2>1, <2>8 DEF Reading, Types, FlagType
      <3>2. total_size = file_size
        BY <2>1, <2>2, <2>8, <3>1 DEF Sized
      <3>3. RemainingBytes = total_size - logical_position
        BY <2>1, <2>4, <2>7, <2>8, <3>2, RemainingIsExact
      <3>4. QED
        BY <2>4, <2>7, <2>8, <3>2, <3>3
    <2>9. QED
      BY <2>6, <2>7, <2>8
  <1>2. QED
    BY <1>1, EndAlways, PTL

(***************************************************************************)
(* remaining_bytes wraps only after more was delivered than the file held  *)
(* when it was opened, and a buffer of that size takes the rest of a file  *)
(* that does not grow, even if the descriptor was not at its start, reads  *)
(* have failed, and the file was truncated.                                *)
(***************************************************************************)
THEOREM RemainingIsEnough == Spec => []RemainingSuffices
  <1>1. Reading /\ Sized /\ Behind => RemainingSuffices
    <2>1. SUFFICES ASSUME Reading, Sized, Behind, mode = "read", total_size # -1
                   PROVE  /\ \/ RemainingBytes + logical_position = total_size
                             \/ grown /\ logical_position > total_size
                          /\ ~ grown => RemainingBytes >= file_size - fd_pos
      BY DEF RemainingSuffices
    <2>2. /\ logical_position \in Nat /\ dropped \in Nat /\ UnderWay \in Nat /\ fd_pos \in Nat
          /\ file_size \in Nat /\ total_size \in Nat /\ grown \in BOOLEAN
      BY <2>1, TakenIsNumber DEF Reading, Types, OpeningType, FlagType
    <2>3. logical_position <= fd_pos
      BY <2>1, <2>2 DEF Behind, Taken
    <2>4. ASSUME ~ grown PROVE logical_position <= total_size /\ file_size <= total_size
      <3>1. grown = FALSE
        BY <2>2, <2>4
      <3>2. QED
        BY <2>1, <2>2, <3>1 DEF Behind, Taken, Sized
    <2>5. ASSUME logical_position <= total_size
          PROVE  RemainingBytes = total_size - logical_position
      BY <2>1, <2>5, RemainingIsExact
    <2>6. QED
      BY <2>2, <2>3, <2>4, <2>5
  <1>2. QED
    BY <1>1, EndAlways, PTL
==============================================================================
