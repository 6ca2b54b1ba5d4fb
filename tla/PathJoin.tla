------------------------------ MODULE PathJoin ------------------------------
(***************************************************************************)
(* bc_io_file_path_join on memory: a buffer is a function on 0 .. n - 1,   *)
(* of which the first `capacity` bytes are the caller's; the others belong *)
(* to somebody else.  Bytes are numbers.                                   *)
(***************************************************************************)
EXTENDS Integers, Sequences

CONSTANTS SizeLimit   \* SIZE_MAX + 1: size_t addition is modulo this

ASSUME PathAssumption == SizeLimit \in Nat \ {0}

Zero == 0
Slash == 1

(* bc_core_copy of a whole sequence to buffer + at. *)
Store(buffer, at, bytes) ==
  [i \in DOMAIN buffer |-> IF i \in at .. at + Len(bytes) - 1 THEN bytes[i - at + 1] ELSE buffer[i]]

Refused(buffer) == [ok |-> FALSE, buffer |-> buffer, length |-> 0]

(* Variant: the byte that ends the string is forgotten. *)
FitsWithoutZero(total, capacity) == total <= capacity

(* Is there room for `total` bytes and the zero? *)
Fits(total, capacity) == (total + 1) % SizeLimit <= capacity

(* A relative name stays as it is when the base is empty. *)
PathJoin(buffer, capacity, base, name) ==
  LET total == IF base = <<>> THEN Len(name) ELSE (Len(base) + 1 + Len(name)) % SizeLimit
      front == IF base = <<>> THEN buffer
               ELSE Store(Store(buffer, 0, base), Len(base), <<Slash>>)
      at == IF base = <<>> THEN 0 ELSE Len(base) + 1
  IN  IF ~ Fits(total, capacity) THEN Refused(buffer)
      ELSE [ok |-> TRUE, length |-> total,
            buffer |-> Store(Store(front, at, name), total, <<Zero>>)]

(* What a joined path is. *)
Joined(base, name) == IF base = <<>> THEN name ELSE base \o <<Slash>> \o name

(* The first `length` bytes of a buffer. *)
Bytes(buffer, length) == [i \in 1 .. length |-> buffer[i - 1]]

(***************************************************************************)
(* The result is the base, a slash and the name, and a zero behind them,   *)
(* all within the capacity; it is refused only if it does not fit there,   *)
(* and then nothing is written.  No byte behind the capacity is touched.   *)
(***************************************************************************)
JoinCorrect(buffer, capacity, base, name) ==
  LET result == PathJoin(buffer, capacity, base, name)
      path == Joined(base, name)
  IN  /\ result.ok <=> Len(path) + 1 <= capacity
      /\ result.ok => /\ result.length = Len(path)
                      /\ Bytes(result.buffer, result.length) = path
                      /\ result.buffer[result.length] = Zero
      /\ ~ result.ok => result.buffer = buffer
      /\ \A i \in DOMAIN buffer : i >= capacity => result.buffer[i] = buffer[i]
=============================================================================
