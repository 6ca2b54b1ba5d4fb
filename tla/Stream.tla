-------------------------------- MODULE Stream --------------------------------
(***************************************************************************)
(* bc_io_stream: one buffered stream, opened for reading or for writing,   *)
(* over a file, a descriptor of the caller or a block of memory.           *)
(*                                                                         *)
(* Bytes are numbered.  What the caller writes is 1, 2, 3, ... and a call  *)
(* offers the bytes that follow the ones the calls before it reported as   *)
(* written; what a file or a memory block holds is 1, 2, 3, ... too.  So a *)
(* byte that is lost, repeated or out of place can be told.                *)
(*                                                                         *)
(* write_full and read_full are loops of system calls; each call is a step *)
(* with every outcome the loop tells apart.  A call that is interrupted    *)
(* (EINTR), or that writes zero bytes, changes nothing and is no step.     *)
(***************************************************************************)
EXTENDS Integers

CONSTANTS
  BufferSize,   \* stream->buffer_size, after alignment
  MaxChunk,     \* the largest size passed to write_chunk
  MaxFile,      \* how far the file being read may grow
  MaxCalls,     \* how many calls the caller makes
  SizeLimit     \* SIZE_MAX + 1: size_t subtraction is modulo this

ASSUME StreamAssumption ==
  /\ BufferSize \in Nat \ {0}
  /\ MaxChunk \in Nat /\ MaxFile \in Nat /\ MaxCalls \in Nat
  /\ SizeLimit \in Nat /\ SizeLimit > MaxFile

VARIABLES
  phase,              \* "new", "open", "closed", or "failed" if open failed
  mode, source, owns, \* how the stream was opened
  fd,                 \* the descriptor under it: "none", "open" or "closed"
  buffer,             \* the buffer's memory, stale bytes included
  buffer_used,
  logical_position,
  end_of_stream,
  total_size,         \* -1 while total_size_known is false
  stats,
  op,                 \* the loop of system calls that is under way, if any
  want, total, stop,  \* its size, its count so far and why it ended
  pending,            \* the size write_chunk was called with
  ret,                \* what the last call returned
  calls,
  device, written,    \* what reached the descriptor, and how much
  accepted,           \* bytes the caller was told are written
  file_size, fd_pos,  \* the file or memory read from, and the offset in it
  dropped,            \* history: bytes of failed reads
  grown, shrunk       \* the file has grown, or was truncated

opening == <<phase, mode, source, owns, fd, total_size>>
loop == <<op, want, total, stop, pending>>
output == <<device, written, accepted>>
input == <<file_size, fd_pos, dropped, grown, shrunk>>
vars == <<opening, buffer, buffer_used, logical_position, end_of_stream, stats,
          loop, ret, calls, output, input>>

Offsets == 0 .. BufferSize - 1
Flushes == {"flush", "preflush", "closing"}
Loops == Flushes \cup {"direct", "read"}
Stops == {"no", "again", "eof", "error"}
Counters == {"bytes_written", "write_count", "short_write_count",
             "bytes_read", "read_count", "short_read_count"}

SmallerOf(a, b) == IF a < b THEN a ELSE b

Bit(condition) == IF condition THEN 1 ELSE 0

Init ==
  /\ phase = "new" /\ mode = "read" /\ source = "file" /\ owns = FALSE /\ fd = "none"
  /\ buffer = [i \in Offsets |-> 0] /\ buffer_used = 0
  /\ logical_position = 0 /\ end_of_stream = FALSE /\ total_size = -1
  /\ stats = [c \in Counters |-> 0]
  /\ op = "none" /\ want = 0 /\ total = 0 /\ stop = "no" /\ pending = 0
  /\ ret = [call |-> "none", ok |-> TRUE, size |-> 0]
  /\ calls = 0
  /\ device = [i \in 0 .. -1 |-> 0] /\ written = 0 /\ accepted = 0
  /\ file_size \in 0 .. MaxFile /\ fd_pos = 0 /\ dropped = 0
  /\ grown = FALSE /\ shrunk = FALSE

Returns(call, ok, size) == ret' = [call |-> call, ok |-> ok, size |-> size]

-----------------------------------------------------------------------------
(* Opening. *)

(* The size is asked for when a file is read, and known if it is regular. *)
KnownSize(m, s) == IF m = "read" /\ s = "file" THEN {-1, file_size} ELSE {-1}

(* The stream, its arena and its buffer: all three are there, or none. *)
AllocateWithBuffer == phase' \in {"open", "failed"}

NothingDone ==
  UNCHANGED <<buffer, buffer_used, logical_position, end_of_stream, stats, loop, ret, calls,
              output, file_size, dropped, grown, shrunk>>

(* Variant: the descriptor stays open when the allocation fails. *)
OpenFileLeaking(m) ==
  /\ phase = "new"
  /\ mode' = m /\ source' = "file" /\ owns' = TRUE
  /\ AllocateWithBuffer /\ fd' = "open" /\ total_size' \in KnownSize(m, "file")
  /\ NothingDone /\ UNCHANGED fd_pos

(* The stream owns the descriptor, which is closed if it comes to nothing. *)
OpenFile(m) ==
  /\ phase = "new"
  /\ mode' = m /\ source' = "file" /\ owns' = TRUE
  /\ \/ phase' = "failed" /\ fd' = "none" /\ UNCHANGED total_size
     \/ /\ AllocateWithBuffer /\ total_size' \in KnownSize(m, "file")
        /\ fd' = IF phase' = "failed" THEN "closed" ELSE "open"
  /\ NothingDone /\ UNCHANGED fd_pos

(* A descriptor of the caller, at whatever offset; it stays the caller's.  *)
(* A stream of memory that is opened like this has a block of no bytes.    *)
OpenFileDescriptor(m, s) ==
  /\ phase = "new"
  /\ mode' = m /\ source' = s /\ owns' = FALSE /\ fd' = "open"
  /\ AllocateWithBuffer /\ total_size' \in KnownSize(m, s)
  /\ IF s = "memory" THEN file_size = 0 /\ fd_pos' = 0 ELSE fd_pos' \in 0 .. MaxFile
  /\ NothingDone

OpenMemory ==
  /\ phase = "new"
  /\ mode' = "read" /\ source' = "memory" /\ owns' = FALSE
  /\ phase' \in {"open", "failed"}
  /\ total_size' = file_size
  /\ NothingDone /\ UNCHANGED <<fd, fd_pos>>

-----------------------------------------------------------------------------
(* Writing. *)

Idle == phase = "open" /\ op = "none"

Call == Idle /\ calls < MaxCalls /\ calls' = calls + 1

Unwritten == UNCHANGED <<buffer, buffer_used, logical_position, stats, accepted>>

(* size bytes of the caller go behind the first `at` bytes of the buffer. *)
BufferChunk(at, size) ==
  /\ buffer' = [i \in Offsets |->
                  IF at <= i /\ i < at + size THEN accepted + (i - at) + 1 ELSE buffer[i]]
  /\ buffer_used' = at + size
  /\ logical_position' = logical_position + size
  /\ stats' = [stats EXCEPT !["bytes_written"] = @ + size, !["write_count"] = @ + 1]
  /\ accepted' = accepted + size
  /\ Returns("write", TRUE, size)

(* write_full starts on what the buffer holds, or on the caller's bytes. *)
StartLoop(kind, size) ==
  /\ op' = kind /\ want' = size /\ total' = 0 /\ stop' = "no"

WriteChunk(size) ==
  /\ Call
  /\ \/ /\ mode # "write" \/ source = "memory"
        /\ Returns("write", FALSE, 0) /\ Unwritten /\ UNCHANGED loop
     \/ /\ mode = "write" /\ source # "memory" /\ size = 0
        /\ Returns("write", TRUE, 0) /\ Unwritten /\ UNCHANGED loop
     \/ /\ mode = "write" /\ source # "memory"
        /\ size > 0 /\ size <= BufferSize - buffer_used
        /\ BufferChunk(buffer_used, size) /\ UNCHANGED loop
     \/ /\ mode = "write" /\ source # "memory"
        /\ size > BufferSize - buffer_used
        /\ pending' = size
        /\ IF buffer_used > 0 THEN StartLoop("preflush", buffer_used)
                              ELSE StartLoop("direct", size)
        /\ Unwritten /\ UNCHANGED ret
  /\ UNCHANGED <<opening, end_of_stream, device, written, input>>

(* write(2) took some bytes: of the buffer, or of the caller's data. *)
WriteSome(k) ==
  /\ op \in Flushes \cup {"direct"} /\ stop = "no" /\ k <= want - total
  /\ device' = [i \in 0 .. written + k - 1 |->
                  IF i < written THEN device[i]
                  ELSE IF op = "direct" THEN accepted + total + (i - written) + 1
                  ELSE buffer[total + (i - written)]]
  /\ written' = written + k
  /\ total' = total + k
  /\ UNCHANGED <<opening, buffer, buffer_used, logical_position, end_of_stream, stats,
                 op, want, stop, pending, ret, calls, accepted, input>>

(* EAGAIN ends the loop as a success, any other error as a failure. *)
WriteRefused(why) ==
  /\ op \in Flushes \cup {"direct"} /\ stop = "no" /\ total < want
  /\ stop' = why
  /\ UNCHANGED <<opening, buffer, buffer_used, logical_position, end_of_stream, stats,
                 op, want, total, pending, ret, calls, output, input>>

LoopOver == stop # "no" \/ total = want

(* Variant: the bytes that were not written stay at their old offset. *)
CompactNothing ==
  /\ buffer_used' = want - total
  /\ stats' = [stats EXCEPT !["short_write_count"] = @ + Bit(total < want)]
  /\ UNCHANGED buffer

(* What the flush did not write moves to the front of the buffer. *)
CompactBuffer ==
  /\ buffer' = [i \in Offsets |->
                  IF i < want - total THEN buffer[i + total] ELSE buffer[i]]
  /\ buffer_used' = want - total
  /\ stats' = [stats EXCEPT !["short_write_count"] = @ + Bit(total < want)]

FlushEnds ==
  /\ op = "flush" /\ LoopOver
  /\ CompactBuffer
  /\ op' = "none" /\ Returns("flush", total = want, 0)
  /\ UNCHANGED <<opening, logical_position, end_of_stream, want, total, stop, pending,
                 calls, output, input>>

(* write_chunk gives up if its flush came up short; otherwise the chunk    *)
(* goes to the descriptor or into the buffer, whichever it fits.           *)
PreflushEnds ==
  /\ op = "preflush" /\ LoopOver
  /\ \/ /\ total < want
        /\ CompactBuffer
        /\ op' = "none" /\ Returns("write", FALSE, 0)
        /\ UNCHANGED <<want, total, stop, logical_position, accepted>>
     \/ /\ total = want /\ pending >= BufferSize
        /\ CompactBuffer
        /\ StartLoop("direct", pending) /\ UNCHANGED <<ret, logical_position, accepted>>
     \/ /\ total = want /\ pending < BufferSize
        /\ BufferChunk(0, pending)
        /\ op' = "none" /\ UNCHANGED <<want, total, stop>>
  /\ UNCHANGED <<opening, end_of_stream, pending, calls, device, written, input>>

(* Variant: the position moves by what was asked, not by what was written. *)
DirectEndsAhead ==
  /\ op = "direct" /\ LoopOver
  /\ stats' = [stats EXCEPT !["bytes_written"] = @ + total, !["write_count"] = @ + 1,
                            !["short_write_count"] = @ + Bit(total < want)]
  /\ logical_position' = logical_position + want
  /\ accepted' = accepted + total
  /\ op' = "none" /\ Returns("write", stop # "error", total)
  /\ UNCHANGED <<opening, buffer, buffer_used, end_of_stream, want, total, stop, pending,
                 calls, device, written, input>>

DirectEnds ==
  /\ op = "direct" /\ LoopOver
  /\ stats' = [stats EXCEPT !["bytes_written"] = @ + total, !["write_count"] = @ + 1,
                            !["short_write_count"] = @ + Bit(total < want)]
  /\ logical_position' = logical_position + total
  /\ accepted' = accepted + total
  /\ op' = "none" /\ Returns("write", stop # "error", total)
  /\ UNCHANGED <<opening, buffer, buffer_used, end_of_stream, want, total, stop, pending,
                 calls, device, written, input>>

Flush ==
  /\ Call
  /\ IF buffer_used = 0
       THEN Returns("flush", TRUE, 0) /\ UNCHANGED loop
       ELSE StartLoop("flush", buffer_used) /\ UNCHANGED <<pending, ret>>
  /\ UNCHANGED <<opening, buffer, buffer_used, logical_position, end_of_stream, stats,
                 output, input>>

-----------------------------------------------------------------------------
(* Reading. *)

(* The next chunk of a memory block is a window on it, not a copy. *)
ReadMemory ==
  /\ IF fd_pos >= file_size
       THEN /\ end_of_stream' = TRUE /\ Returns("read", FALSE, 0)
            /\ UNCHANGED <<fd_pos, logical_position, stats>>
       ELSE LET size == SmallerOf(file_size - fd_pos, BufferSize) IN
            /\ fd_pos' = fd_pos + size
            /\ logical_position' = logical_position + size
            /\ stats' = [stats EXCEPT !["bytes_read"] = @ + size, !["read_count"] = @ + 1]
            /\ Returns("read", TRUE, size) /\ UNCHANGED end_of_stream
  /\ UNCHANGED loop

(* Variant: the end of the stream is not remembered. *)
ReadChunkPastEnd ==
  /\ Call
  /\ mode = "read" /\ source # "memory"
  /\ StartLoop("read", BufferSize)
  /\ UNCHANGED <<opening, buffer, buffer_used, logical_position, end_of_stream, stats,
                 pending, ret, output, input>>

ReadChunk ==
  /\ Call
  /\ \/ /\ end_of_stream \/ mode # "read"
        /\ Returns("read", FALSE, 0)
        /\ UNCHANGED <<loop, logical_position, end_of_stream, stats, fd_pos>>
     \/ ~ end_of_stream /\ mode = "read" /\ source = "memory" /\ ReadMemory
     \/ /\ ~ end_of_stream /\ mode = "read" /\ source # "memory"
        /\ StartLoop("read", BufferSize)
        /\ UNCHANGED <<pending, ret, logical_position, end_of_stream, stats, fd_pos>>
  /\ UNCHANGED <<opening, buffer, buffer_used, output, file_size, dropped, grown, shrunk>>

(* Variant: every read goes to the front of the buffer. *)
ReadSomeAtFront(k) ==
  /\ op = "read" /\ stop = "no" /\ k <= want - total /\ k <= file_size - fd_pos
  /\ buffer' = [i \in Offsets |-> IF i < k THEN fd_pos + i + 1 ELSE buffer[i]]
  /\ fd_pos' = fd_pos + k /\ total' = total + k
  /\ UNCHANGED <<opening, buffer_used, logical_position, end_of_stream, stats, op, want,
                 stop, pending, ret, calls, output, file_size, dropped, grown, shrunk>>

ReadSome(k) ==
  /\ op = "read" /\ stop = "no" /\ k <= want - total /\ k <= file_size - fd_pos
  /\ buffer' = [i \in Offsets |->
                  IF total <= i /\ i < total + k THEN fd_pos + (i - total) + 1 ELSE buffer[i]]
  /\ fd_pos' = fd_pos + k
  /\ total' = total + k
  /\ UNCHANGED <<opening, buffer_used, logical_position, end_of_stream, stats, op, want,
                 stop, pending, ret, calls, output, file_size, dropped, grown, shrunk>>

ReadStops(why) ==
  /\ op = "read" /\ stop = "no" /\ total < want
  /\ why = "eof" => fd_pos >= file_size
  /\ stop' = why
  /\ UNCHANGED <<opening, buffer, buffer_used, logical_position, end_of_stream, stats,
                 op, want, total, pending, ret, calls, output, input>>

(* Variant: a short read is taken for the end of the file. *)
ReadEndsShort ==
  /\ op = "read" /\ LoopOver /\ stop # "error"
  /\ op' = "none"
  /\ Returns("read", TRUE, total)
  /\ stats' = [stats EXCEPT !["bytes_read"] = @ + total, !["read_count"] = @ + 1]
  /\ end_of_stream' = (total < want)
  /\ logical_position' = logical_position + total
  /\ UNCHANGED <<opening, buffer, buffer_used, want, total, stop, pending, calls,
                 output, input>>

(* Variant: the position moves by what was asked for. *)
ReadEndsAhead ==
  /\ op = "read" /\ LoopOver /\ stop # "error"
  /\ op' = "none"
  /\ Returns("read", TRUE, total)
  /\ stats' = [stats EXCEPT !["bytes_read"] = @ + total, !["read_count"] = @ + 1]
  /\ end_of_stream' = (stop = "eof")
  /\ logical_position' = logical_position + want
  /\ UNCHANGED <<opening, buffer, buffer_used, want, total, stop, pending, calls,
                 output, input>>

(* After a failed read what the loop had already read is dropped. *)
ReadEnds ==
  /\ op = "read" /\ LoopOver
  /\ op' = "none"
  /\ \/ /\ stop = "error"
        /\ Returns("read", FALSE, 0) /\ dropped' = dropped + total
        /\ UNCHANGED <<logical_position, end_of_stream, stats>>
     \/ /\ stop = "eof" /\ total = 0
        /\ Returns("read", FALSE, 0) /\ end_of_stream' = TRUE
        /\ UNCHANGED <<logical_position, stats, dropped>>
     \/ /\ stop # "error" /\ ~ (stop = "eof" /\ total = 0)
        /\ Returns("read", TRUE, total)
        /\ stats' = [stats EXCEPT !["bytes_read"] = @ + total, !["read_count"] = @ + 1,
                                  !["short_read_count"] = @ + Bit(total < BufferSize)]
        /\ end_of_stream' = (end_of_stream \/ stop = "eof")
        /\ logical_position' = logical_position + total
        /\ UNCHANGED dropped
  /\ UNCHANGED <<opening, buffer, buffer_used, want, total, stop, pending, calls,
                 output, file_size, fd_pos, grown, shrunk>>

(* Somebody else appends to the file, or writes to the pipe. *)
FileGrows ==
  /\ phase = "open" /\ source # "memory" /\ mode = "read" /\ file_size < MaxFile
  /\ file_size' = file_size + 1 /\ grown' = TRUE
  /\ UNCHANGED <<opening, buffer, buffer_used, logical_position, end_of_stream, stats,
                 loop, ret, calls, output, fd_pos, dropped, shrunk>>

(* Somebody else truncates it; the descriptor may be past its end then. *)
FileShrinks(size) ==
  /\ phase = "open" /\ source = "file" /\ mode = "read" /\ size < file_size
  /\ file_size' = size /\ shrunk' = TRUE
  /\ UNCHANGED <<opening, buffer, buffer_used, logical_position, end_of_stream, stats,
                 loop, ret, calls, output, fd_pos, dropped, grown>>

FileChanges == FileGrows \/ \E size \in 0 .. MaxFile : FileShrinks(size)

(* bc_io_stream_remaining_bytes, where total_size is known. *)
RemainingBytes == (total_size - logical_position) % SizeLimit

-----------------------------------------------------------------------------
(* Closing flushes; what the flush returns is not looked at. *)

Released == phase' = "closed" /\ fd' = IF owns THEN "closed" ELSE fd

(* Variant: the buffer is dropped unflushed. *)
CloseUnflushed ==
  /\ Idle /\ Released
  /\ UNCHANGED <<mode, source, owns, total_size, buffer, buffer_used, logical_position,
                 end_of_stream, stats, loop, ret, calls, output, input>>

Close ==
  /\ Idle
  /\ IF buffer_used = 0
       THEN Released /\ UNCHANGED loop
       ELSE StartLoop("closing", buffer_used) /\ UNCHANGED <<phase, fd, pending>>
  /\ UNCHANGED <<mode, source, owns, total_size, buffer, buffer_used, logical_position,
                 end_of_stream, stats, ret, calls, output, input>>

CloseEnds ==
  /\ op = "closing" /\ LoopOver
  /\ CompactBuffer
  /\ op' = "none" /\ Released
  /\ UNCHANGED <<mode, source, owns, total_size, logical_position, end_of_stream, want,
                 total, stop, pending, ret, calls, output, input>>

Gone == phase \in {"closed", "failed"} /\ UNCHANGED vars

Open ==
  \/ \E m \in {"read", "write"} :
       OpenFile(m) \/ \E s \in {"file", "pipe", "memory"} : OpenFileDescriptor(m, s)
  \/ OpenMemory

Write ==
  \/ \E size \in 0 .. MaxChunk : WriteChunk(size)
  \/ \E k \in 1 .. BufferSize + MaxChunk : WriteSome(k)
  \/ \E why \in {"again", "error"} : WriteRefused(why)
  \/ Flush \/ FlushEnds \/ PreflushEnds \/ DirectEnds

Read ==
  \/ ReadChunk \/ ReadEnds \/ FileChanges
  \/ \E k \in 1 .. BufferSize : ReadSome(k)
  \/ \E why \in {"again", "eof", "error"} : ReadStops(why)

Next == Open \/ Write \/ Read \/ Close \/ CloseEnds \/ Gone

Spec == Init /\ [][Next]_vars

-----------------------------------------------------------------------------
OpeningType ==
  /\ phase \in {"new", "open", "closed", "failed"}
  /\ mode \in {"read", "write"} /\ source \in {"file", "pipe", "memory"}
  /\ fd \in {"none", "open", "closed"}
  /\ total_size \in Nat \cup {-1}

BufferType == buffer \in [Offsets -> Nat] /\ buffer_used \in 0 .. BufferSize

PositionType == logical_position \in Nat /\ stats \in [Counters -> Nat]

FlagType ==
  /\ owns \in BOOLEAN /\ end_of_stream \in BOOLEAN
  /\ grown \in BOOLEAN /\ shrunk \in BOOLEAN

LoopType ==
  /\ op \in Loops \cup {"none"} /\ stop \in Stops
  /\ want \in Nat /\ total \in 0 .. want /\ pending \in Nat

Results == [call : {"none", "read", "write", "flush"}, ok : BOOLEAN, size : Nat]

ReturnType == ret \in Results /\ calls \in Nat

OutputType == written \in Nat /\ device \in [0 .. written - 1 -> Nat] /\ accepted \in Nat

InputType == file_size \in Nat /\ fd_pos \in Nat /\ dropped \in Nat

TypeOK ==
  /\ OpeningType /\ BufferType /\ PositionType /\ FlagType /\ LoopType
  /\ ReturnType /\ OutputType /\ InputType

(***************************************************************************)
(* The bytes on the descriptor followed by those in the buffer are exactly *)
(* the bytes the caller was told are written, in order: no partial write   *)
(* and no error makes the stream lose, repeat or reorder one.              *)
(* While a flush runs, its first `total` buffer bytes are on the           *)
(* descriptor too; while a chunk goes straight to the descriptor, the      *)
(* bytes it has got there are not acknowledged yet.                        *)
(***************************************************************************)
Flushed == IF op \in Flushes THEN total ELSE 0
Unacknowledged == IF op = "direct" THEN total ELSE 0

NoByteLost ==
  /\ written + buffer_used = accepted + Flushed + Unacknowledged
  /\ \A i \in 0 .. written - 1 : device[i] = i + 1
  /\ mode = "write" =>
       \A i \in 0 .. buffer_used - 1 : buffer[i] = written - Flushed + i + 1

(***************************************************************************)
(* What the caller is told agrees: current_position and bytes_written (or  *)
(* bytes_read) are the bytes acknowledged (or delivered); a stream opened  *)
(* for reading buffers and writes nothing, so flush and close do not touch *)
(* its descriptor.                                                         *)
(***************************************************************************)
PositionsAgree ==
  /\ mode = "write" => logical_position = accepted
  /\ mode = "write" => logical_position = stats["bytes_written"] /\ stats["bytes_read"] = 0
  /\ mode = "read" => logical_position = stats["bytes_read"] /\ stats["bytes_written"] = 0
  /\ mode = "read" => buffer_used = 0 /\ written = 0

(***************************************************************************)
(* A close drops acknowledged bytes only if the descriptor refused them    *)
(* during that very close: nothing is lost when every write is taken.      *)
(***************************************************************************)
CloseLosesOnlyRefused ==
  phase = "closed" /\ written < accepted => op = "none" /\ stop \in {"again", "error"}

(***************************************************************************)
(* What read_chunk delivers is the file in order: the descriptor is past   *)
(* the bytes delivered, those of failed reads and those being read, and    *)
(* the chunk handed out last is the bytes before that, from the front of   *)
(* the buffer.                                                             *)
(***************************************************************************)
InOrder ==
  /\ mode = "read" /\ (owns \/ source = "memory") =>
       fd_pos = logical_position + dropped + (IF op = "read" THEN total ELSE 0)
  /\ Idle /\ source # "memory" /\ ret.call = "read" /\ ret.ok =>
       \A i \in 0 .. ret.size - 1 : buffer[i] = fd_pos - ret.size + i + 1

(***************************************************************************)
(* When the stream says end_of_stream, no byte is left of a file or block  *)
(* that it opened itself, that nobody appended to and of which no read     *)
(* failed; if nobody truncated it either, it was delivered whole, and      *)
(* remaining_bytes is zero.                                                *)
(***************************************************************************)
EndMeansAll ==
  phase = "open" /\ (owns \/ source = "memory") /\ end_of_stream /\ ~ grown /\ dropped = 0 =>
    /\ logical_position >= file_size
    /\ ~ shrunk => logical_position = file_size
    /\ ~ shrunk /\ total_size # -1 => RemainingBytes = 0

(***************************************************************************)
(* remaining_bytes wraps only on a file that has grown since it was opened *)
(* and of which more was delivered than it held then.  As long as the file *)
(* does not grow it is never less than what is left to read, wherever the  *)
(* descriptor stood when the stream was opened, whatever failed reads have *)
(* dropped and wherever the file was truncated: a buffer of that size      *)
(* takes the rest of the file.                                             *)
(***************************************************************************)
RemainingSuffices ==
  phase = "open" /\ mode = "read" /\ total_size # -1 =>
    /\ RemainingBytes + logical_position = total_size \/ (grown /\ logical_position > total_size)
    /\ ~ grown => RemainingBytes >= file_size - fd_pos

(***************************************************************************)
(* The descriptor is closed exactly if the stream opened it, on every path *)
(* that ends a stream, a failed open included.                             *)
(***************************************************************************)
DescriptorOwnership ==
  /\ TypeOK
  /\ phase \in {"closed", "failed"} /\ fd # "none" => (fd = "open" <=> ~ owns)

(* end_of_stream is final, and no call moves the position after it. *)
EndIsFinal ==
  [][end_of_stream => end_of_stream' /\ UNCHANGED <<logical_position, stats>>]_vars
==============================================================================
