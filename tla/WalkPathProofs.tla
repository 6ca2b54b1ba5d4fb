--------------------------- MODULE WalkPathProofs ---------------------------
(***************************************************************************)
(* Proofs about PathJoin and WalkPath, for every length of a buffer, of a  *)
(* root and of a name.  What bc_io_file_path_join writes is said once, by  *)
(* JoinIsCorrect; the walk then keeps what OpensItsPath says, because the  *)
(* path of a directory is the base of the next join.                       *)
(***************************************************************************)
EXTENDS WalkPath, SequenceTheorems, TLAPS

(* The buffer begins with these bytes. *)
Begins(buffer, bytes) ==
  \A i \in 1 .. Len(bytes) : i - 1 \in DOMAIN buffer => buffer[i - 1] = bytes[i]

(* Two buffers are the same from an index on. *)
SameFrom(new, old, at) == \A i \in DOMAIN old : i >= at => new[i] = old[i]

-----------------------------------------------------------------------------
(* A remainder below the modulus is the number itself. *)
LEMMA Remainder == ASSUME NEW n \in Nat, n < SizeLimit PROVE n % SizeLimit = n
  BY PathAssumption

(* One byte is a sequence of one. *)
LEMMA OneByte ==
  ASSUME NEW b \in Nat
  PROVE  <<b>> \in Seq(Nat) /\ Len(<<b>>) = 1 /\ <<b>>[1] = b
  OBVIOUS

(* A copy behind the bytes that a buffer begins with makes it begin with   *)
(* the longer sequence, and changes nothing further on.                    *)
LEMMA StoreAppends ==
  ASSUME NEW buffer, NEW top \in Nat, DOMAIN buffer = 0 .. top,
         NEW front \in Seq(Nat), NEW bytes \in Seq(Nat), Begins(buffer, front)
  PROVE  /\ DOMAIN Store(buffer, Len(front), bytes) = 0 .. top
         /\ Begins(Store(buffer, Len(front), bytes), front \o bytes)
         /\ SameFrom(Store(buffer, Len(front), bytes), buffer, Len(front) + Len(bytes))
         /\ front \o bytes \in Seq(Nat) /\ Len(front \o bytes) = Len(front) + Len(bytes)
  <1>1. Len(front) \in Nat /\ Len(bytes) \in Nat
    OBVIOUS
  <1>2. /\ front \o bytes \in Seq(Nat) /\ Len(front \o bytes) = Len(front) + Len(bytes)
        /\ \A i \in 1 .. Len(front) + Len(bytes) :
             (front \o bytes)[i] = IF i <= Len(front) THEN front[i] ELSE bytes[i - Len(front)]
    BY ConcatProperties
  <1>3. \A i \in 0 .. top :
          Store(buffer, Len(front), bytes)[i] =
            IF i >= Len(front) /\ i <= Len(front) + Len(bytes) - 1
            THEN bytes[i - Len(front) + 1] ELSE buffer[i]
    BY <1>1 DEF Store
  <1>4. DOMAIN Store(buffer, Len(front), bytes) = 0 .. top
    BY DEF Store
  <1>5. ASSUME NEW i \in 1 .. Len(front) + Len(bytes), i - 1 \in 0 .. top
        PROVE  Store(buffer, Len(front), bytes)[i - 1] = (front \o bytes)[i]
    <2>1. CASE i <= Len(front)
      <3>1. i \in 1 .. Len(front) /\ ~ (i - 1 >= Len(front))
        BY <1>1, <2>1
      <3>2. buffer[i - 1] = front[i]
        BY <1>5, <3>1 DEF Begins
      <3>3. QED
        BY <1>2, <1>3, <1>5, <2>1, <3>1, <3>2
    <2>2. CASE ~ (i <= Len(front))
      <3>1. /\ i - 1 >= Len(front) /\ i - 1 <= Len(front) + Len(bytes) - 1
            /\ (i - 1) - Len(front) + 1 = i - Len(front)
        BY <1>1, <2>2
      <3>2. QED
        BY <1>2, <1>3, <1>5, <2>2, <3>1
    <2>3. QED
      BY <2>1, <2>2
  <1>6. Begins(Store(buffer, Len(front), bytes), front \o bytes)
    BY <1>2, <1>4, <1>5 DEF Begins
  <1>7. SameFrom(Store(buffer, Len(front), bytes), buffer, Len(front) + Len(bytes))
    BY <1>1, <1>3 DEF SameFrom
  <1>8. QED
    BY <1>2, <1>4, <1>6, <1>7

(* Changes behind an index are changes behind a smaller one. *)
LEMMA SameFromJoins ==
  ASSUME NEW top \in Nat, NEW a, NEW b, NEW c, NEW m \in Nat, NEW n \in Nat, m <= n,
         DOMAIN a = 0 .. top, DOMAIN b = 0 .. top, SameFrom(b, a, m), SameFrom(c, b, n)
  PROVE  SameFrom(c, a, n)
  BY DEF SameFrom

(* Copied from the start of the buffer, nothing is in front. *)
LEMMA StoreBegins ==
  ASSUME NEW buffer, NEW top \in Nat, DOMAIN buffer = 0 .. top, NEW bytes \in Seq(Nat)
  PROVE  /\ DOMAIN Store(buffer, 0, bytes) = 0 .. top
         /\ Begins(Store(buffer, 0, bytes), bytes)
         /\ SameFrom(Store(buffer, 0, bytes), buffer, Len(bytes))
  BY DEF Store, Begins, SameFrom

(* A path and its zero, written from the start of the buffer. *)
LEMMA StoreEnded ==
  ASSUME NEW buffer, NEW top \in Nat, DOMAIN buffer = 0 .. top,
         NEW path \in Seq(Nat), Begins(buffer, path), Len(path) <= top
  PROVE  /\ DOMAIN Store(buffer, Len(path), <<Zero>>) = 0 .. top
         /\ Bytes(Store(buffer, Len(path), <<Zero>>), Len(path)) = path
         /\ Store(buffer, Len(path), <<Zero>>)[Len(path)] = Zero
         /\ SameFrom(Store(buffer, Len(path), <<Zero>>), buffer, Len(path) + 1)
  <1>1. <<Zero>> \in Seq(Nat) /\ Len(<<Zero>>) = 1 /\ <<Zero>>[1] = Zero
    BY OneByte DEF Zero
  <1>2. PICK zero \in Seq(Nat) : zero = <<Zero>> /\ Len(zero) = 1 /\ zero[1] = Zero
    BY <1>1
  <1>3. Len(path) \in Nat
    OBVIOUS
  <1>4. PICK new : new = Store(buffer, Len(path), zero)
    OBVIOUS
  <1>5. \A i \in 0 .. top : new[i] = IF i = Len(path) THEN Zero ELSE buffer[i]
    BY <1>2, <1>3, <1>4 DEF Store
  <1>6. DOMAIN new = 0 .. top /\ SameFrom(new, buffer, Len(path) + 1)
    <2>1. DOMAIN new = 0 .. top
      BY <1>4 DEF Store
    <2>2. SameFrom(new, buffer, Len(path) + 1)
      BY <1>3, <1>5 DEF SameFrom
    <2>3. QED
      BY <2>1, <2>2
  <1>7. \A i \in 1 .. Len(path) : i - 1 \in 0 .. top /\ new[i - 1] = path[i]
    BY <1>3, <1>5 DEF Begins
  <1>8. path = [i \in 1 .. Len(path) |-> path[i]]
    OBVIOUS
  <1>9. Bytes(new, Len(path)) = path
    BY <1>7, <1>8 DEF Bytes
  <1>10. new[Len(path)] = Zero
    BY <1>3, <1>5
  <1>11. QED
    BY <1>2, <1>4, <1>6, <1>9, <1>10

(* The bytes at the front of a buffer are a sequence. *)
LEMMA BytesAreSequence ==
  ASSUME NEW top \in Nat, NEW buffer \in [0 .. top -> Nat],
         NEW length \in Nat, length <= top + 1
  PROVE  Bytes(buffer, length) \in Seq(Nat) /\ Len(Bytes(buffer, length)) = length
  <1>1. Bytes(buffer, length) \in [1 .. length -> Nat]
    BY DEF Bytes
  <1>2. QED
    BY <1>1, IsASeq

-----------------------------------------------------------------------------
(* What is written before the zero. *)
Laid(buffer, base, last) ==
  IF base = <<>> THEN Store(buffer, 0, last)
  ELSE Store(Store(Store(buffer, 0, base), Len(base), <<Slash>>), Len(base) + 1, last)

(* It is the joined path. *)
LEMMA LaidIsJoined ==
  ASSUME NEW buffer, NEW top \in Nat, DOMAIN buffer = 0 .. top,
         NEW base \in Seq(Nat), NEW last \in Seq(Nat)
  PROVE  /\ DOMAIN Laid(buffer, base, last) = 0 .. top
         /\ Begins(Laid(buffer, base, last), Joined(base, last))
         /\ SameFrom(Laid(buffer, base, last), buffer, Len(Joined(base, last)))
         /\ Joined(base, last) \in Seq(Nat)
         /\ Len(Joined(base, last)) =
              IF base = <<>> THEN Len(last) ELSE Len(base) + 1 + Len(last)
  <1>1. CASE base = <<>>
    BY <1>1, StoreBegins DEF Laid, Joined
  <1>2. CASE base # <<>>
    <2>1. <<Slash>> \in Seq(Nat) /\ Len(<<Slash>>) = 1
      BY OneByte DEF Slash
    <2>2. PICK slash \in Seq(Nat) : slash = <<Slash>> /\ Len(slash) = 1
      BY <2>1
    <2>3. PICK first : first = Store(buffer, 0, base)
      OBVIOUS
    <2>4. DOMAIN first = 0 .. top /\ Begins(first, base) /\ SameFrom(first, buffer, Len(base))
      BY <2>3, StoreBegins
    <2>5. PICK second : second = Store(first, Len(base), slash)
      OBVIOUS
    <2>6. /\ DOMAIN second = 0 .. top /\ Begins(second, base \o slash)
          /\ SameFrom(second, first, Len(base) + Len(slash))
          /\ base \o slash \in Seq(Nat) /\ Len(base \o slash) = Len(base) + Len(slash)
      BY <2>4, <2>5, StoreAppends
    <2>7. PICK front \in Seq(Nat) :
            front = base \o slash /\ Len(front) = Len(base) + 1 /\ Begins(second, front)
      BY <2>2, <2>6
    <2>8. PICK third : third = Store(second, Len(front), last)
      OBVIOUS
    <2>9. /\ DOMAIN third = 0 .. top /\ Begins(third, front \o last)
          /\ SameFrom(third, second, Len(front) + Len(last))
          /\ front \o last \in Seq(Nat) /\ Len(front \o last) = Len(front) + Len(last)
      <3>1. DOMAIN second = 0 .. top /\ Begins(second, front)
        BY <2>6, <2>7
      <3>2. QED
        BY <2>8, <3>1, StoreAppends
    <2>10. SameFrom(third, buffer, Len(front) + Len(last))
      <3>1. Len(base) \in Nat /\ Len(last) \in Nat
        OBVIOUS
      <3>2. SameFrom(second, buffer, Len(base) + 1)
        BY <2>2, <2>4, <2>6, <3>1, SameFromJoins
      <3>3. QED
        BY <2>6, <2>7, <2>9, <3>1, <3>2, SameFromJoins
    <2>11. Laid(buffer, base, last) = third /\ Joined(base, last) = front \o last
      BY <1>2, <2>2, <2>3, <2>5, <2>7, <2>8 DEF Laid, Joined
    <2>12. QED
      BY <1>2, <2>7, <2>9, <2>10, <2>11
  <1>3. QED
    BY <1>1, <1>2

(* What the function returns, with its additions done without wrapping. *)
LEMMA JoinResult ==
  ASSUME NEW buffer, NEW top \in Nat, DOMAIN buffer = 0 .. top, NEW capacity \in Nat,
         NEW base \in Seq(Nat), NEW last \in Seq(Nat), Len(base) + Len(last) + 2 < SizeLimit
  PROVE  PathJoin(buffer, capacity, base, last) =
           IF Len(Joined(base, last)) + 1 <= capacity
           THEN [ok |-> TRUE, length |-> Len(Joined(base, last)),
                 buffer |-> Store(Laid(buffer, base, last), Len(Joined(base, last)), <<Zero>>)]
           ELSE Refused(buffer)
  <1>1. Len(base) \in Nat /\ Len(last) \in Nat /\ SizeLimit \in Nat \ {0}
    BY PathAssumption
  <1>2. PICK total : total = Len(Joined(base, last))
    OBVIOUS
  <1>3. total = IF base = <<>> THEN Len(last) ELSE Len(base) + 1 + Len(last)
    BY <1>2, LaidIsJoined
  <1>4. total \in Nat /\ total < SizeLimit /\ total + 1 < SizeLimit
    BY <1>1, <1>3
  <1>5. total % SizeLimit = total /\ (total + 1) % SizeLimit = total + 1
    BY <1>4, Remainder
  <1>6. (IF base = <<>> THEN Len(last) ELSE (Len(base) + 1 + Len(last)) % SizeLimit) = total
    BY <1>3, <1>5
  <1>7. PathJoin(buffer, capacity, base, last) =
          IF ~ ((total + 1) % SizeLimit <= capacity) THEN Refused(buffer)
          ELSE [ok |-> TRUE, length |-> total,
                buffer |-> Store(Laid(buffer, base, last), total, <<Zero>>)]
    <2>1. CASE base = <<>>
      BY <1>6, <2>1 DEF PathJoin, Fits, Laid
    <2>2. CASE base # <<>>
      BY <1>6, <2>2 DEF PathJoin, Fits, Laid
    <2>3. QED
      BY <2>1, <2>2
  <1>8. QED
    BY <1>2, <1>4, <1>5, <1>7

(***************************************************************************)
(* bc_io_file_path_join, for every buffer, capacity, base and name whose   *)
(* lengths size_t can add: it writes the joined path and its zero, within  *)
(* the capacity, exactly if they fit, and nothing at all otherwise.        *)
(***************************************************************************)
THEOREM JoinIsCorrect ==
  ASSUME NEW buffer, NEW top \in Nat, DOMAIN buffer = 0 .. top,
         NEW capacity \in Nat, capacity <= top + 1,
         NEW base \in Seq(Nat), NEW last \in Seq(Nat), Len(base) + Len(last) + 2 < SizeLimit
  PROVE  JoinCorrect(buffer, capacity, base, last)
  <1>1. PICK path \in Seq(Nat) : path = Joined(base, last)
    BY LaidIsJoined
  <1>2. PICK laid : laid = Laid(buffer, base, last)
    OBVIOUS
  <1>3. DOMAIN laid = 0 .. top /\ Begins(laid, path) /\ SameFrom(laid, buffer, Len(path))
    BY <1>1, <1>2, LaidIsJoined
  <1>4. PICK new : new = Store(laid, Len(path), <<Zero>>)
    OBVIOUS
  <1>5. PICK result : result = PathJoin(buffer, capacity, base, last)
    OBVIOUS
  <1>6. result = IF Len(path) + 1 <= capacity
                 THEN [ok |-> TRUE, length |-> Len(path), buffer |-> new]
                 ELSE Refused(buffer)
    BY <1>1, <1>2, <1>4, <1>5, JoinResult
  <1>7. Len(path) \in Nat
    BY <1>1
  <1>8. /\ result.ok <=> Len(path) + 1 <= capacity
        /\ result.ok => result.length = Len(path) /\ result.buffer = new
        /\ ~ result.ok => result.buffer = buffer
    <2>1. CASE Len(path) + 1 <= capacity
      BY <1>6, <2>1
    <2>2. CASE ~ (Len(path) + 1 <= capacity)
      BY <1>6, <2>2 DEF Refused
    <2>3. QED
      BY <2>1, <2>2
  <1>9. result.ok => /\ Bytes(new, Len(path)) = path /\ new[Len(path)] = Zero
                     /\ SameFrom(new, laid, Len(path) + 1)
    <2>1. result.ok => Len(path) <= top
      BY <1>7, <1>8
    <2>2. QED
      BY <1>3, <1>4, <2>1, StoreEnded
  <1>10. \A i \in DOMAIN buffer : i >= capacity => result.buffer[i] = buffer[i]
    <2>1. CASE ~ result.ok
      BY <1>8, <2>1
    <2>2. CASE result.ok
      <3>1. SameFrom(new, buffer, Len(path) + 1)
        BY <1>3, <1>7, <1>9, <2>2, SameFromJoins
      <3>2. QED
        BY <1>7, <1>8, <2>2, <3>1 DEF SameFrom
    <2>3. QED
      BY <2>1, <2>2
  <1>11. QED
    BY <1>1, <1>5, <1>8, <1>9, <1>10 DEF JoinCorrect

-----------------------------------------------------------------------------
(* The last index of the memory. *)
Top == MaxPath + MaxRoot + MaxName + 1

(* The inductive invariant: the name at hand is one of a directory. *)
Inv == OpensItsPath /\ Len(name) <= MaxName

(* The lengths are numbers, and size_t can add those of a path and a name. *)
LEMMA Lengths ==
  /\ MaxPath \in Nat \ {0} /\ MaxName \in Nat \ {0} /\ MaxRoot \in Nat
  /\ SizeLimit \in Nat /\ SizeLimit > MaxPath + MaxName + 2
  /\ Memory = 0 .. Top /\ Top \in Nat /\ MaxPath < Top
  BY LengthAssumption, PathAssumption DEF Memory, Top

(* A copy of bytes leaves bytes in the buffer. *)
LEMMA StoreIsTyped ==
  ASSUME NEW top \in Nat, NEW buffer \in [0 .. top -> Nat], NEW bytes \in Seq(Nat), NEW at \in Nat
  PROVE  Store(buffer, at, bytes) \in [0 .. top -> Nat]
  <1>1. Len(bytes) \in Nat
    OBVIOUS
  <1>2. ASSUME NEW i \in 0 .. top, i \in at .. at + Len(bytes) - 1
        PROVE  bytes[i - at + 1] \in Nat
    <2>1. i - at + 1 \in 1 .. Len(bytes)
      BY <1>1, <1>2
    <2>2. QED
      BY <2>1, ElementOfSeq
  <1>3. QED
    BY <1>2 DEF Store

(* The text of a name is a sequence of bytes of its length. *)
LEMMA TextIsSequence ==
  ASSUME NEW first \in Nat, NEW length \in Nat
  PROVE  /\ Text(first, length) \in Seq(Nat) /\ Len(Text(first, length)) = length
         /\ \A i \in 1 .. length : Text(first, length)[i] = first + i
  <1>1. Text(first, length) \in [1 .. length -> Nat]
    BY DEF Text
  <1>2. QED
    BY <1>1, IsASeq DEF Text

(* The buffers that nobody has written to. *)
LEMMA CleanBuffers ==
  /\ Dirty \in [0 .. Top -> Nat] /\ Cleared \in [0 .. Top -> Nat]
  /\ \A i \in 0 .. Top : i >= MaxPath => Dirty[i] = Stale /\ Cleared[i] = Stale
  BY Lengths DEF Dirty, Cleared, Stale, Zero

(***************************************************************************)
(* A path that is written to a buffer from its start, with a zero behind   *)
(* it: as the parallel walk writes its root and each sub_entry.            *)
(***************************************************************************)
LEMMA WrittenPath ==
  ASSUME NEW buffer \in [0 .. Top -> Nat], NEW path \in Seq(Nat), Len(path) < MaxPath,
         \A i \in 0 .. Top : i >= MaxPath => buffer[i] = Stale,
         NEW new, new = Store(Store(buffer, 0, path), Len(path), <<Zero>>)
  PROVE  /\ new \in [0 .. Top -> Nat]
         /\ Bytes(new, Len(path)) = path /\ new[Len(path)] = Zero
         /\ \A i \in 0 .. Top : i >= MaxPath => new[i] = Stale
  <1>1. Len(path) \in Nat /\ Len(path) <= Top
    BY Lengths
  <1>2. PICK first : first = Store(buffer, 0, path)
    OBVIOUS
  <1>3. /\ first \in [0 .. Top -> Nat] /\ DOMAIN first = 0 .. Top
        /\ Begins(first, path) /\ SameFrom(first, buffer, Len(path))
    BY <1>2, Lengths, StoreIsTyped, StoreBegins
  <1>4. PICK zero \in Seq(Nat) : zero = <<Zero>>
    BY OneByte DEF Zero
  <1>5. new = Store(first, Len(path), zero)
    BY <1>2, <1>4
  <1>6. new \in [0 .. Top -> Nat]
    <2>1. Store(first, Len(path), zero) \in [0 .. Top -> Nat]
      BY <1>1, <1>3, Lengths, StoreIsTyped
    <2>2. QED
      BY <1>5, <2>1
  <1>7. /\ Bytes(new, Len(path)) = path /\ new[Len(path)] = Zero
        /\ SameFrom(new, first, Len(path) + 1)
    <2>1. /\ Bytes(Store(first, Len(path), <<Zero>>), Len(path)) = path
          /\ Store(first, Len(path), <<Zero>>)[Len(path)] = Zero
          /\ SameFrom(Store(first, Len(path), <<Zero>>), first, Len(path) + 1)
      BY <1>1, <1>3, Lengths, StoreEnded
    <2>2. QED
      BY <1>4, <1>5, <2>1
  <1>8. \A i \in 0 .. Top : i >= MaxPath => new[i] = Stale
    <2>1. ASSUME NEW i \in 0 .. Top, i >= MaxPath PROVE new[i] = Stale
      <3>1. i >= Len(path) + 1 /\ i >= Len(path)
        BY <1>1, <2>1, Lengths
      <3>2. new[i] = first[i] /\ first[i] = buffer[i]
        BY <1>3, <1>7, <3>1 DEF SameFrom
      <3>3. QED
        BY <2>1, <3>2
    <2>2. QED
      BY <2>1
  <1>9. QED
    BY <1>6, <1>7, <1>8

(* The root of a sequential walk whose zero is not at root_length. *)
LEMMA UnendedRoot ==
  ASSUME NEW path \in Seq(Nat), Len(path) < MaxPath,
         NEW new, new = Store(Store(Dirty, 0, path), Len(path) + 1, <<Zero>>)
  PROVE  new \in [0 .. Top -> Nat] /\ Bytes(new, Len(path)) = path
  <1>1. Len(path) \in Nat /\ Len(path) <= Top
    BY Lengths
  <1>2. PICK first : first = Store(Dirty, 0, path)
    OBVIOUS
  <1>3. first \in [0 .. Top -> Nat] /\ DOMAIN first = 0 .. Top /\ Begins(first, path)
    BY <1>2, Lengths, CleanBuffers, StoreIsTyped, StoreBegins
  <1>4. PICK zero \in Seq(Nat) : zero = <<Zero>>
    BY OneByte DEF Zero
  <1>5. new = Store(first, Len(path) + 1, zero)
    BY <1>2, <1>4
  <1>6. new \in [0 .. Top -> Nat]
    <2>1. PICK at \in Nat : at = Len(path) + 1
      BY <1>1
    <2>2. Store(first, at, zero) \in [0 .. Top -> Nat]
      BY <1>3, Lengths, StoreIsTyped
    <2>3. QED
      BY <1>5, <2>1, <2>2
  <1>7. \A i \in 1 .. Len(path) : i - 1 \in 0 .. Top /\ new[i - 1] = path[i]
    BY <1>1, <1>3, <1>5, Lengths DEF Begins, Store
  <1>8. path = [i \in 1 .. Len(path) |-> path[i]]
    OBVIOUS
  <1>9. QED
    BY <1>6, <1>7, <1>8 DEF Bytes

-----------------------------------------------------------------------------
(* Nothing is written before the first call. *)
LEMMA InvInit == Init => Inv
  <1> SUFFICES ASSUME Init PROVE Inv
    OBVIOUS
  <1>1. /\ directory.length = 0 /\ child.length = 0 /\ directory.path = Dirty /\ child.path = Dirty
        /\ expected = <<>> /\ name = <<>> /\ pc = "start"
        /\ walk \in {"parallel", "sequential"} /\ root_ends \in BOOLEAN
    BY DEF Init
  <1>2. expected \in Seq(Nat) /\ name \in Seq(Nat) /\ Len(name) = 0
    BY <1>1
  <1>3. TypeOK
    BY <1>1, <1>2, Lengths, CleanBuffers DEF TypeOK
  <1>4. \A i \in Memory : i >= MaxPath => child.path[i] = Stale /\ directory.path[i] = Stale
    BY <1>1, Lengths, CleanBuffers
  <1>5. QED
    BY <1>1, <1>2, <1>3, <1>4, Lengths DEF Inv, OpensItsPath

(* The root is opened by its name, if it is let through. *)
LEMMA InvBegin == ASSUME Inv, NEW length \in 0 .. MaxRoot, Begin(length) PROVE Inv'
  <1> USE DEF Inv, OpensItsPath, TypeOK
  <1>1. CASE BadRoot(length) /\ pc' = "rejected" /\ UNCHANGED <<directory, expected>>
    BY <1>1 DEF Begin
  <1>2. CASE ~ BadRoot(length)
    <2>1. length \in Nat /\ length < MaxPath
      BY <1>2, Lengths DEF BadRoot
    <2>2. PICK root \in Seq(Nat) : root = Text(2, length) /\ Len(root) = length
      BY <2>1, TextIsSequence
    <2>3. \A i \in 1 .. Len(root) : root[i] # Slash
      BY <2>1, <2>2 DEF Slash, Text
    <2>4. /\ pc' = "open" /\ expected' = root /\ directory'.length = length
          /\ UNCHANGED <<walk, child, root_ends, name>>
          /\ directory'.path =
               IF walk = "parallel" THEN Store(Store(Cleared, 0, root), length, <<Zero>>)
               ELSE Store(Store(Dirty, 0, root), IF root_ends THEN length ELSE length + 1, <<Zero>>)
      BY <1>2, <2>2 DEF Begin
    <2>5. /\ directory'.path \in [0 .. Top -> Nat] /\ Bytes(directory'.path, length) = root
          /\ directory'.path[length] = Zero \/ (walk = "sequential" /\ ~ root_ends)
          /\ walk = "parallel" => \A i \in 0 .. Top : i >= MaxPath => directory'.path[i] = Stale
      <3>1. CASE walk = "parallel"
        <4>1. directory'.path = Store(Store(Cleared, 0, root), Len(root), <<Zero>>)
          BY <2>2, <2>4, <3>1
        <4>2. /\ Cleared \in [0 .. Top -> Nat]
              /\ \A i \in 0 .. Top : i >= MaxPath => Cleared[i] = Stale
          BY CleanBuffers
        <4>3. Len(root) < MaxPath
          BY <2>1, <2>2
        <4>4. /\ directory'.path \in [0 .. Top -> Nat] /\ Bytes(directory'.path, Len(root)) = root
              /\ directory'.path[Len(root)] = Zero
              /\ \A i \in 0 .. Top : i >= MaxPath => directory'.path[i] = Stale
          BY <4>1, <4>2, <4>3, WrittenPath
        <4>5. QED
          BY <2>2, <4>4
      <3>2. CASE walk = "sequential" /\ root_ends
        <4>1. directory'.path = Store(Store(Dirty, 0, root), Len(root), <<Zero>>)
          BY <2>2, <2>4, <3>2
        <4>2. Dirty \in [0 .. Top -> Nat] /\ \A i \in 0 .. Top : i >= MaxPath => Dirty[i] = Stale
          BY CleanBuffers
        <4>3. Len(root) < MaxPath
          BY <2>1, <2>2
        <4>4. /\ directory'.path \in [0 .. Top -> Nat] /\ Bytes(directory'.path, Len(root)) = root
              /\ directory'.path[Len(root)] = Zero
              /\ \A i \in 0 .. Top : i >= MaxPath => directory'.path[i] = Stale
          BY <4>1, <4>2, <4>3, WrittenPath
        <4>5. QED
          BY <2>2, <4>4
      <3>3. CASE walk = "sequential" /\ ~ root_ends
        <4>1. directory'.path = Store(Store(Dirty, 0, root), Len(root) + 1, <<Zero>>)
          BY <2>2, <2>4, <3>3
        <4>2. QED
          BY <2>1, <2>2, <3>3, <4>1, UnendedRoot
      <3>4. QED
        BY <3>1, <3>2, <3>3
    <2>6. TypeOK'
      <3>1. length \in 0 .. MaxPath - 1
        BY <2>1, Lengths
      <3>2. QED
        BY <2>4, <2>5, <3>1, Lengths
    <2>7. IsPath(directory', expected')
      BY <2>2, <2>4, <2>5 DEF IsPath
    <2>8. AtRoot'
      BY <2>3, <2>4 DEF AtRoot
    <2>9. directory'.path[directory'.length] = Zero \/ (walk' = "sequential" /\ ~ root_ends')
      BY <2>4, <2>5
    <2>10. \A i \in Memory : i >= MaxPath =>
             child'.path[i] = Stale /\ (walk' = "parallel" => directory'.path[i] = Stale)
      BY <2>4, <2>5, Lengths
    <2>11. QED
      BY <2>4, <2>6, <2>7, <2>8, <2>9, <2>10
  <1>3. QED
    BY <1>1, <1>2 DEF Begin

(* What path_join writes are bytes. *)
LEMMA JoinIsTyped ==
  ASSUME NEW top \in Nat, NEW buffer \in [0 .. top -> Nat], NEW capacity \in Nat,
         NEW base \in Seq(Nat), NEW last \in Seq(Nat), Len(base) + Len(last) + 2 < SizeLimit
  PROVE  PathJoin(buffer, capacity, base, last).buffer \in [0 .. top -> Nat]
  <1>1. Len(base) \in Nat /\ Len(base) + 1 \in Nat
    OBVIOUS
  <1>2. PICK slash \in Seq(Nat) : slash = <<Slash>>
    BY OneByte DEF Slash
  <1>3. PICK zero \in Seq(Nat) : zero = <<Zero>>
    BY OneByte DEF Zero
  <1>4. Laid(buffer, base, last) \in [0 .. top -> Nat]
    <2>1. CASE base = <<>>
      BY <2>1, StoreIsTyped DEF Laid
    <2>2. CASE base # <<>>
      <3>1. PICK first \in [0 .. top -> Nat] : first = Store(buffer, 0, base)
        BY StoreIsTyped
      <3>2. PICK second \in [0 .. top -> Nat] : second = Store(first, Len(base), slash)
        BY <1>1, StoreIsTyped
      <3>3. PICK at \in Nat : at = Len(base) + 1
        BY <1>1
      <3>4. Store(second, at, last) \in [0 .. top -> Nat]
        BY StoreIsTyped
      <3>5. QED
        BY <1>2, <2>2, <3>1, <3>2, <3>3, <3>4 DEF Laid
    <2>3. QED
      BY <2>1, <2>2
  <1>5. PICK total \in Nat : total = Len(Joined(base, last))
    <2>1. Joined(base, last) \in Seq(Nat)
      BY LaidIsJoined
    <2>2. QED
      BY <2>1
  <1>6. PICK new \in [0 .. top -> Nat] : new = Store(Laid(buffer, base, last), total, zero)
    BY <1>4, StoreIsTyped
  <1>7. PathJoin(buffer, capacity, base, last) =
          IF total + 1 <= capacity THEN [ok |-> TRUE, length |-> total, buffer |-> new]
          ELSE Refused(buffer)
    BY <1>3, <1>5, <1>6, JoinResult
  <1>8. QED
    BY <1>7 DEF Refused

(* A child is reached by the path of its directory, a slash and its name. *)
LEMMA InvJoinChild == ASSUME Inv, NEW length \in 1 .. MaxName, JoinChild(length) PROVE Inv'
  <1>1. /\ pc \in {"list", "descend"} /\ name' = Text(Fresh, length)
        /\ UNCHANGED <<walk, directory, root_ends, expected>>
    BY DEF JoinChild
  <1>2. /\ TypeOK /\ IsPath(directory, expected)
        /\ directory.path[directory.length] = Zero \/ (walk = "sequential" /\ ~ root_ends /\ AtRoot)
        /\ \A i \in Memory : i >= MaxPath =>
             child.path[i] = Stale /\ (walk = "parallel" => directory.path[i] = Stale)
    BY <1>1 DEF Inv, OpensItsPath
  <1>3. /\ expected \in Seq(Nat) /\ Len(expected) < MaxPath /\ Len(expected) \in Nat
        /\ Bytes(directory.path, directory.length) = expected
    BY <1>2, Lengths DEF TypeOK, IsPath
  <1>4. PICK last \in Seq(Nat) : last = name' /\ Len(last) = length
    <2>1. MaxName * Len(expected) \in Nat
      BY <1>3, Lengths
    <2>2. Fresh \in Nat /\ length \in Nat
      BY <2>1, Lengths DEF Fresh
    <2>3. QED
      BY <1>1, <2>2, TextIsSequence
  <1>5. Len(expected) + Len(last) + 2 < SizeLimit
    BY <1>3, <1>4, Lengths
  <1>6. child.path \in [0 .. Top -> Nat] /\ DOMAIN child.path = 0 .. Top
    BY <1>2, Lengths DEF TypeOK
  <1>7. JoinCorrect(child.path, MaxPath, expected, last)
    <2>1. MaxPath \in Nat /\ MaxPath <= Top + 1 /\ Top \in Nat
      BY Lengths
    <2>2. QED
      BY <1>3, <1>5, <1>6, <2>1, JoinIsCorrect
  <1>8. PICK result : result = PathJoin(child.path, MaxPath, expected, last)
    OBVIOUS
  <1>9. result.buffer \in [0 .. Top -> Nat]
    BY <1>3, <1>5, <1>6, <1>8, Lengths, JoinIsTyped
  <1>10. PICK path \in Seq(Nat) : path = Joined(expected, last)
    BY <1>3, <1>6, Lengths, LaidIsJoined
  <1>11. /\ result.ok => /\ Len(path) + 1 <= MaxPath /\ result.length = Len(path)
                          /\ Bytes(result.buffer, result.length) = path
                          /\ result.buffer[result.length] = Zero
         /\ \A i \in 0 .. Top : i >= MaxPath => result.buffer[i] = child.path[i]
    BY <1>6, <1>7, <1>8, <1>10 DEF JoinCorrect
  <1>12. /\ child'.path = result.buffer /\ child'.length = IF result.ok THEN result.length ELSE 0
         /\ pc' = IF result.ok THEN "descend" ELSE "list"
    BY <1>3, <1>4, <1>8 DEF JoinChild
  <1>13. child'.length \in 0 .. MaxPath - 1
    BY <1>10, <1>11, <1>12, Lengths
  <1>14. TypeOK'
    BY <1>1, <1>2, <1>4, <1>9, <1>12, <1>13, Lengths DEF TypeOK
  <1>15. IsPath(directory, expected)' /\ (AtRoot <=> AtRoot')
    BY <1>1, <1>2 DEF IsPath, AtRoot
  <1>16. pc' = "descend" =>
           IsPath(child, Joined(expected, name))' /\ child'.path[child'.length] = Zero
    BY <1>1, <1>4, <1>10, <1>11, <1>12 DEF IsPath
  <1>17. \A i \in Memory : i >= MaxPath =>
           child'.path[i] = Stale /\ (walk' = "parallel" => directory'.path[i] = Stale)
    BY <1>1, <1>2, <1>11, <1>12, Lengths
  <1>18. Len(name') <= MaxName
    BY <1>4, Lengths
  <1>19. QED
    BY <1>1, <1>2, <1>14, <1>15, <1>16, <1>17, <1>18 DEF Inv, OpensItsPath

(* It is walked with a copy of that path, or in the buffer that holds it. *)
LEMMA InvDescend == ASSUME Inv, Descend PROVE Inv'
  <1>1. /\ pc = "descend" /\ pc' = "open"
        /\ directory' = (IF walk = "parallel" THEN SubEntry ELSE child)
        /\ child' = [path |-> Dirty, length |-> 0]
        /\ expected' = Joined(expected, name) /\ name' = <<>>
        /\ UNCHANGED <<walk, root_ends>>
    BY DEF Descend
  <1>2. /\ TypeOK /\ IsPath(child, Joined(expected, name)) /\ child.path[child.length] = Zero
    BY <1>1 DEF Inv, OpensItsPath
  <1>3. PICK path \in Seq(Nat) : path = Joined(expected, name)
    <2>1. child.path \in [0 .. Top -> Nat] /\ DOMAIN child.path = 0 .. Top
      BY <1>2, Lengths DEF TypeOK
    <2>2. expected \in Seq(Nat) /\ name \in Seq(Nat)
      BY <1>2 DEF TypeOK
    <2>3. QED
      BY <2>1, <2>2, Lengths, LaidIsJoined
  <1>4. /\ child.length = Len(path) /\ Bytes(child.path, child.length) = path
        /\ Len(path) < MaxPath /\ Len(path) \in Nat
    BY <1>2, <1>3, Lengths DEF IsPath, TypeOK
  <1>5. /\ directory'.length = Len(path) /\ directory'.path \in [0 .. Top -> Nat]
        /\ Bytes(directory'.path, Len(path)) = path /\ directory'.path[Len(path)] = Zero
        /\ walk = "parallel" => \A i \in 0 .. Top : i >= MaxPath => directory'.path[i] = Stale
    <2>1. CASE walk = "parallel"
      <3>1. /\ directory'.length = Len(path)
            /\ directory'.path = Store(Store(Cleared, 0, path), Len(path), <<Zero>>)
        BY <1>1, <1>4, <2>1 DEF SubEntry
      <3>2. Cleared \in [0 .. Top -> Nat] /\ \A i \in 0 .. Top : i >= MaxPath => Cleared[i] = Stale
        BY CleanBuffers
      <3>3. /\ directory'.path \in [0 .. Top -> Nat] /\ Bytes(directory'.path, Len(path)) = path
            /\ directory'.path[Len(path)] = Zero
            /\ \A i \in 0 .. Top : i >= MaxPath => directory'.path[i] = Stale
        BY <1>4, <3>1, <3>2, WrittenPath
      <3>4. QED
        BY <3>1, <3>3
    <2>2. CASE walk # "parallel"
      BY <1>1, <1>2, <1>4, <2>2, Lengths DEF TypeOK
    <2>3. QED
      BY <2>1, <2>2
  <1>6. child'.path = Dirty /\ child'.length = 0
    BY <1>1
  <1>7. name' \in Seq(Nat) /\ Len(name') = 0
    BY <1>1
  <1>8. TypeOK'
    <2>1. directory'.length \in 0 .. MaxPath - 1 /\ child'.length \in 0 .. MaxPath - 1
      BY <1>4, <1>5, <1>6, Lengths
    <2>2. directory'.path \in [Memory -> Nat] /\ child'.path \in [Memory -> Nat]
      BY <1>5, <1>6, Lengths, CleanBuffers
    <2>3. expected' \in Seq(Nat)
      BY <1>1, <1>3
    <2>4. QED
      BY <1>1, <1>2, <1>7, <2>1, <2>2, <2>3 DEF TypeOK
  <1>9. IsPath(directory, expected)' /\ directory'.path[directory'.length] = Zero
    BY <1>1, <1>3, <1>5 DEF IsPath
  <1>10. \A i \in Memory : i >= MaxPath =>
           child'.path[i] = Stale /\ (walk' = "parallel" => directory'.path[i] = Stale)
    BY <1>1, <1>5, <1>6, Lengths, CleanBuffers
  <1>11. QED
    BY <1>1, <1>7, <1>8, <1>9, <1>10, Lengths DEF Inv, OpensItsPath

(* Every step of the specification preserves the invariant. *)
LEMMA InvNext == Inv /\ [Next]_vars => Inv'
  <1> SUFFICES ASSUME Inv, [Next]_vars PROVE Inv'
    OBVIOUS
  <1>1. CASE OpenDirectory
    BY <1>1 DEF OpenDirectory, Inv, OpensItsPath, TypeOK, IsPath, AtRoot
  <1>2. CASE Done \/ UNCHANGED vars
    BY <1>2 DEF Done, vars, Inv, OpensItsPath, TypeOK, IsPath, AtRoot
  <1>3. QED
    BY <1>1, <1>2, InvBegin, InvJoinChild, InvDescend DEF Next

(* It holds in every state that a walk reaches. *)
LEMMA InvAlways == Spec => []Inv
  BY InvInit, InvNext, PTL DEF Spec

(***************************************************************************)
(* Whatever the limit of a path, the lengths of the root and of the names, *)
(* and the depth: a directory is opened by the path that its callbacks see *)
(* and the paths of its children begin with, but for the root of a         *)
(* sequential walk without its zero, and nothing is written behind the     *)
(* buffers.                                                                *)
(***************************************************************************)
THEOREM DirectoriesOpenTheirPaths == Spec => []OpensItsPath
  <1>1. Inv => OpensItsPath
    BY DEF Inv
  <1>2. QED
    BY <1>1, InvAlways, PTL

(***************************************************************************)
(* Every base, name and buffer that a walk meets is joined as              *)
(* bc_io_file_path_join promises, in a buffer of any capacity.             *)
(***************************************************************************)
THEOREM WalksJoinAnyBuffer == Spec => []JoinsAnyBuffer
  <1>1. Inv => JoinsAnyBuffer
    <2> SUFFICES ASSUME Inv, NEW capacity \in 0 .. MaxPath, NEW length \in 0 .. directory.length
                 PROVE  JoinCorrect(child.path, capacity, Bytes(directory.path, length), name)
      BY DEF JoinsAnyBuffer
    <2>1. TypeOK /\ Len(name) <= MaxName
      BY DEF Inv, OpensItsPath
    <2>2. /\ directory.path \in [0 .. Top -> Nat] /\ DOMAIN child.path = 0 .. Top
          /\ name \in Seq(Nat) /\ Len(name) \in Nat
      BY <2>1, Lengths DEF TypeOK
    <2>3. length \in Nat /\ length < MaxPath /\ length <= Top + 1
      BY <2>1, Lengths DEF TypeOK
    <2>4. PICK base \in Seq(Nat) : base = Bytes(directory.path, length) /\ Len(base) = length
      BY <2>2, <2>3, Lengths, BytesAreSequence
    <2>5. Len(base) + Len(name) + 2 < SizeLimit
      BY <2>1, <2>2, <2>3, <2>4, Lengths
    <2>6. capacity \in Nat /\ capacity <= Top + 1 /\ Top \in Nat
      BY Lengths
    <2>7. JoinCorrect(child.path, capacity, base, name)
      BY <2>2, <2>5, <2>6, JoinIsCorrect
    <2>8. QED
      BY <2>4, <2>7
  <1>2. QED
    BY <1>1, InvAlways, PTL
=============================================================================
