-------------------------- MODULE ReadHandleProofs --------------------------
(***************************************************************************)
(* Proofs about Mmap and about ReadHandle, which opens and destroys maps   *)
(* as Mmap does, for every page size, size of the file, part of it that is *)
(* asked for, and threshold.                                               *)
(*                                                                         *)
(* The first half is about maps.  Accounted is inductive once it is said,  *)
(* step by step, what the call under way or the map holds: MapHolds.       *)
(* Covered says what the memory and the stream reach of the file, and how  *)
(* a stream may have outlived its memory.                                  *)
(*                                                                         *)
(* The second half is about handles.  Stage says what each step of an open *)
(* has made so far, and Holds what it holds; Measured relates the stream   *)
(* to the handle and to the file.                                          *)
(***************************************************************************)
EXTENDS ReadHandle, TLAPS

(* How many of a resource are held if the condition says that it is. *)
One(condition) == IF condition THEN 1 ELSE 0

(* More bytes take at least as many pages. *)
LEMMA PagesMonotone ==
  ASSUME NEW a \in Nat, NEW b \in Nat, a <= b
  PROVE  Pages(a) <= Pages(b)
  <1> DEFINE x == a + PageSize - 1
             y == b + PageSize - 1
  <1>1. PageSize \in Nat \ {0} /\ x \in Nat /\ y \in Nat /\ x <= y
    BY MmapAssumption
  <1> HIDE DEF x, y
  <1>2. x \div PageSize <= y \div PageSize
    BY <1>1
  <1>3. QED
    BY <1>2 DEF Pages, x, y

-----------------------------------------------------------------------------
(* Maps. *)

(* The labels at which the map structure exists. *)
Living == {"ready", "destroy_stream", "destroy_memory", "destroy_map"}

(* What is held at each step, resource by resource. *)
MapHolds ==
  /\ held["descriptor"] = One(pc \in {"stat", "mmap", "close", "abandon"})
  /\ held["memory"] = One(\/ pc \in {"close", "create", "unmap"} /\ address
                          \/ pc \in {"ready", "destroy_stream", "destroy_memory"} /\ map.base)
  /\ held["map"] = One(pc \in Living)
  /\ held["stream"] = One(pc \in {"ready", "destroy_stream"} /\ map.stream)
  /\ held["handle"] = 0

(* An address is the address of something; a map has memory or no size. *)
MapShape ==
  /\ pc \in {"new", "open", "stat", "mmap", "abandon"} => ~ address
  /\ pc = "unmap" => address
  /\ pc = "mmap" => size > 0
  /\ pc \in {"close", "create", "unmap"} => (address <=> size > 0)
  /\ pc \in Living => (map.base <=> map.mapped_size > 0) /\ (map.base => map.is_mapped)
  /\ pc \notin {"ready", "destroy_stream"} => ~ map.stream

(* The inductive invariant for Accounted. *)
MapInv == TypeOK /\ MapHolds /\ MapShape

-----------------------------------------------------------------------------
(* At most one of each resource is held, and none at the end. *)
LEMMA MapInvAccounts == MapInv => Accounted
  BY DEF MapInv, MapHolds, Accounted, One, Resources, Ended, Living

(* Nothing is held before the first call. *)
LEMMA MapInvInit == Init => MapInv
  <1> SUFFICES ASSUME Init PROVE MapInv
    OBVIOUS
  <1>1. TypeOK
    <2>1. options \in Requests /\ touched \in Touches
      BY MmapAssumption DEF Init, Requests, Touches
    <2>2. map \in Maps /\ held \in [Resources -> Int]
      BY DEF Init, NoMap, Maps
    <2>3. stream \in Streams /\ stream.position <= stream.total_size
      BY DEF Init, NoStream, Streams
    <2>4. /\ pc = "new" /\ file_size \in 0 .. MaxFile /\ shrunk \in BOOLEAN
          /\ address \in BOOLEAN /\ size \in Nat /\ outdated \in BOOLEAN
      BY DEF Init
    <2>5. QED
      BY <2>1, <2>2, <2>3, <2>4 DEF TypeOK, Labels
  <1>2. MapHolds
    BY DEF Init, MapHolds, One, Resources, Living
  <1>3. MapShape
    BY DEF Init, MapShape, Living, NoMap
  <1>4. QED
    BY <1>1, <1>2, <1>3 DEF MapInv

(* A length that is left to the library is what is behind the offset. *)
LEMMA RestIsNat ==
  ASSUME TypeOK, options.length # 0 \/ options.offset <= file_size
  PROVE  /\ (IF options.length = 0 THEN (file_size - options.offset) % SizeLimit
                                   ELSE options.length) \in Nat
         /\ options.length = 0 =>
              (file_size - options.offset) % SizeLimit = file_size - options.offset
  BY MmapAssumption DEF TypeOK, Requests

(* What a step may do to the balance. *)
LEMMA MapHeldIsTyped ==
  ASSUME TypeOK,
         UNCHANGED held \/ \E r \in Resources : Acquire(r) \/ Release(r)
  PROVE  held' \in [Resources -> Int]
  BY DEF TypeOK, Acquire, Release

(* The steps of bc_io_mmap_file keep the types, *)
LEMMA MapTypeCreate == ASSUME TypeOK, Create PROVE TypeOK'
  <1> USE DEF TypeOK, Labels, Ended, file, request
  <1>1. ASSUME NEW offset \in 0 .. MaxLength, NEW length \in 0 .. MaxLength,
               NEW hugepages \in BOOLEAN, MapFile(offset, length, hugepages)
        PROVE  TypeOK'
    <2>1. options' \in Requests
      BY <1>1 DEF MapFile, Requests
    <2>2. QED
      BY <1>1, <2>1 DEF MapFile
  <1>2. CASE OpenDescriptor
    BY <1>2, MapHeldIsTyped DEF OpenDescriptor, Resources
  <1>3. CASE Stat
    BY <1>3, RestIsNat DEF Stat
  <1>4. CASE MapMemory
    <2>1. options' \in Requests
      BY <1>4 DEF MapMemory, Requests
    <2>2. held' \in [Resources -> Int]
      BY <1>4, MapHeldIsTyped DEF MapMemory, Resources
    <2>3. QED
      BY <1>4, <2>1, <2>2 DEF MapMemory
  <1>5. CASE CloseDescriptor
    BY <1>5, MapHeldIsTyped DEF CloseDescriptor, Resources
  <1>6. CASE CreateMap
    <2>1. held' \in [Resources -> Int]
      BY <1>6, MapHeldIsTyped DEF CreateMap, CreateFromAddress, Resources
    <2>2. [base |-> address, mapped_size |-> size, is_mapped |-> TRUE, stream |-> FALSE] \in Maps
      BY DEF Maps
    <2>3. map' \in Maps
      BY <1>6, <2>2 DEF CreateMap, CreateFromAddress
    <2>4. QED
      BY <1>6, <2>1, <2>3 DEF CreateMap
  <1>7. CASE UnmapAbandoned
    BY <1>7, MapHeldIsTyped DEF UnmapAbandoned, Resources
  <1>8. QED
    BY <1>1, <1>2, <1>3, <1>4, <1>5, <1>6, <1>7 DEF Create

(* those of a caller who uses the map, *)
LEMMA MapTypeUse == ASSUME TypeOK, Use PROVE TypeOK'
  <1> USE DEF TypeOK, Labels, Ended, file, request
  <1>1. CASE GetStream
    <2>1. map' \in Maps /\ stream' \in Streams
      BY <1>1 DEF GetStream, OpenMapStream, Maps, Streams
    <2>2. stream'.position <= stream'.total_size
      BY <1>1 DEF GetStream, OpenMapStream, Maps
    <2>3. held' \in [Resources -> Int]
      BY <1>1, MapHeldIsTyped DEF GetStream, OpenMapStream, Resources
    <2>4. QED
      BY <1>1, <2>1, <2>2, <2>3 DEF GetStream
  <1>2. CASE ReadChunk
    <2>1. stream' \in Streams /\ stream'.position <= stream'.total_size
      BY <1>2, MmapAssumption DEF ReadChunk, ReadMemory, Streams
    <2>2. touched' \in Touches
      BY <1>2 DEF ReadChunk, ReadMemory, Touch, Touches
    <2>3. QED
      BY <1>2, <2>1, <2>2 DEF ReadChunk
  <1>3. CASE GetData
    <2>1. touched' \in Touches
      BY <1>3 DEF GetData, Touch, Touches
    <2>2. QED
      BY <1>3, <2>1 DEF GetData
  <1>4. CASE Advise
    <2>1. touched' \in Touches
      BY <1>4 DEF Advise, Touches
    <2>2. QED
      BY <1>4, <2>1 DEF Advise
  <1>5. CASE Unmap
    <2>1. held' \in [Resources -> Int]
      BY <1>5, MapHeldIsTyped DEF Unmap, Resources
    <2>2. map.stream \in BOOLEAN
      BY DEF Maps
    <2>3. map' = [base |-> FALSE, mapped_size |-> 0, is_mapped |-> FALSE, stream |-> map.stream]
      BY <1>5 DEF Unmap, Maps
    <2>4. map' \in Maps
      BY <2>2, <2>3 DEF Maps
    <2>5. outdated' \in BOOLEAN
      BY <1>5, <2>2 DEF Unmap
    <2>6. QED
      BY <1>5, <2>1, <2>4, <2>5 DEF Unmap
  <1>6. QED
    BY <1>1, <1>2, <1>3, <1>4, <1>5 DEF Use

(* and those of unmap, of destroy and of whoever changes the file. *)
LEMMA MapTypeDiscard == ASSUME TypeOK, Discard \/ FileChanges PROVE TypeOK'
  <1> USE DEF TypeOK, Labels, Ended, file, request
  <1>1. CASE Destroy
    BY <1>1 DEF Destroy
  <1>2. CASE DestroyStream
    <2>1. held' \in [Resources -> Int]
      BY <1>2, MapHeldIsTyped DEF DestroyStream, Resources
    <2>2. map' \in Maps
      BY <1>2 DEF DestroyStream, Maps
    <2>3. stream' \in Streams /\ stream'.position <= stream'.total_size
      BY <1>2 DEF DestroyStream, NoStream, Streams
    <2>4. QED
      BY <1>2, <2>1, <2>2, <2>3 DEF DestroyStream
  <1>3. CASE DestroyMemory
    BY <1>3, MapHeldIsTyped DEF DestroyMemory, Resources
  <1>4. CASE DestroyMap("destroyed")
    <2>1. held' \in [Resources -> Int]
      BY <1>4, MapHeldIsTyped DEF DestroyMap, Resources
    <2>2. map' \in Maps
      BY <1>4 DEF DestroyMap, NoMap, Maps
    <2>3. QED
      BY <1>4, <2>1, <2>2 DEF DestroyMap
  <1>5. CASE FileChanges
    BY <1>5 DEF FileChanges
  <1>6. QED
    BY <1>1, <1>2, <1>3, <1>4, <1>5 DEF Discard
-----------------------------------------------------------------------------
(* Every step acquires and releases what MapHolds says. *)
LEMMA MapHoldsNext == ASSUME MapInv, Next PROVE MapHolds'
  <1> USE DEF MapInv, TypeOK, MapHolds, MapShape, One, Living, Resources, request,
              Acquire, Release
  <1>1. ASSUME NEW offset, NEW length, NEW hugepages, MapFile(offset, length, hugepages)
        PROVE  MapHolds'
    BY <1>1 DEF MapFile
  <1>2. CASE OpenDescriptor
    BY <1>2 DEF OpenDescriptor
  <1>3. CASE Stat
    BY <1>3 DEF Stat
  <1>4. CASE MapMemory
    BY <1>4 DEF MapMemory
  <1>5. CASE CloseDescriptor
    BY <1>5 DEF CloseDescriptor
  <1>6. CASE CreateMap
    BY <1>6 DEF CreateMap, CreateFromAddress
  <1>7. CASE UnmapAbandoned
    BY <1>7 DEF UnmapAbandoned
  <1>8. CASE GetStream
    BY <1>8 DEF GetStream, OpenMapStream
  <1>9. CASE ReadChunk
    BY <1>9 DEF ReadChunk, ReadMemory
  <1>10. CASE GetData
    BY <1>10 DEF GetData
  <1>11. CASE Advise
    BY <1>11 DEF Advise
  <1>12. CASE Unmap
    BY <1>12 DEF Unmap, HasMemory
  <1>13. CASE Destroy
    BY <1>13 DEF Destroy
  <1>14. CASE DestroyStream
    BY <1>14 DEF DestroyStream
  <1>15. CASE DestroyMemory
    BY <1>15 DEF DestroyMemory, HasMemory
  <1>16. CASE DestroyMap("destroyed")
    BY <1>16 DEF DestroyMap, NoMap
  <1>17. CASE FileChanges
    BY <1>17 DEF FileChanges
  <1>18. QED
    BY <1>1, <1>2, <1>3, <1>4, <1>5, <1>6, <1>7, <1>8, <1>9,
       <1>10, <1>11, <1>12, <1>13, <1>14, <1>15, <1>16, <1>17
    DEF Next, Create, Use, Discard

(* And keeps the shape of the map. *)
LEMMA MapShapeNext == ASSUME MapInv, Next PROVE MapShape'
  <1> USE DEF MapInv, TypeOK, MapShape, Living, Maps, request
  <1>1. ASSUME NEW offset, NEW length, NEW hugepages, MapFile(offset, length, hugepages)
        PROVE  MapShape'
    BY <1>1 DEF MapFile
  <1>2. CASE OpenDescriptor
    BY <1>2 DEF OpenDescriptor
  <1>3. CASE Stat
    BY <1>3 DEF Stat
  <1>4. CASE MapMemory
    BY <1>4 DEF MapMemory
  <1>5. CASE CloseDescriptor
    BY <1>5 DEF CloseDescriptor
  <1>6. CASE CreateMap
    BY <1>6 DEF CreateMap, CreateFromAddress
  <1>7. CASE UnmapAbandoned
    BY <1>7 DEF UnmapAbandoned
  <1>8. CASE GetStream
    BY <1>8 DEF GetStream, OpenMapStream
  <1>9. CASE ReadChunk
    BY <1>9 DEF ReadChunk, ReadMemory
  <1>10. CASE GetData
    BY <1>10 DEF GetData
  <1>11. CASE Advise
    BY <1>11 DEF Advise
  <1>12. CASE Unmap
    BY <1>12 DEF Unmap, HasMemory
  <1>13. CASE Destroy
    BY <1>13 DEF Destroy
  <1>14. CASE DestroyStream
    BY <1>14 DEF DestroyStream
  <1>15. CASE DestroyMemory
    BY <1>15 DEF DestroyMemory, HasMemory
  <1>16. CASE DestroyMap("destroyed")
    BY <1>16 DEF DestroyMap, NoMap
  <1>17. CASE FileChanges
    BY <1>17 DEF FileChanges
  <1>18. QED
    BY <1>1, <1>2, <1>3, <1>4, <1>5, <1>6, <1>7, <1>8, <1>9,
       <1>10, <1>11, <1>12, <1>13, <1>14, <1>15, <1>16, <1>17
    DEF Next, Create, Use, Discard

(* Every step of the specification preserves the invariant. *)
LEMMA MapInvNext == MapInv /\ [Next]_vars => MapInv'
  <1> SUFFICES ASSUME MapInv, [Next]_vars PROVE MapInv'
    OBVIOUS
  <1>1. CASE Next
    <2>1. TypeOK'
      BY <1>1, MapTypeCreate, MapTypeUse, MapTypeDiscard DEF MapInv, Next
    <2>2. QED
      BY <1>1, <2>1, MapHoldsNext, MapShapeNext DEF MapInv
  <1>2. CASE UNCHANGED vars
    BY <1>2 DEF MapInv, TypeOK, MapHolds, MapShape, vars, file, request
  <1>3. QED
    BY <1>1, <1>2

(* It holds in every state that the map reaches. *)
LEMMA MapInvAlways == Spec => []MapInv
  BY MapInvInit, MapInvNext, PTL DEF Spec

(***************************************************************************)
(* Wherever bc_io_mmap_file fails, and in whatever order get_stream, unmap *)
(* and destroy are called, nothing is released twice or left behind.       *)
(***************************************************************************)
THEOREM ResourcesAreAccounted == Spec => []Accounted
  BY MapInvAlways, MapInvAccounts, PTL

-----------------------------------------------------------------------------
(***************************************************************************)
(* A map whose length was left to the library, and its stream, lie within  *)
(* the file as long as nobody truncates it.  A stream has the size of the  *)
(* map it was opened on, unless that was unmapped under it.                *)
(***************************************************************************)
Within(bytes) == options.offset + bytes <= file_size

(* The inductive invariant for TouchesLiveMemory, over MapInv. *)
Covered ==
  /\ options.length = 0 /\ ~ shrunk =>
       /\ pc \in {"mmap", "close", "create", "unmap"} => Within(size)
       /\ pc \in Living => Within(map.mapped_size)
       /\ pc = "ready" /\ map.stream => Within(stream.total_size)
  /\ outdated => ~ map.is_mapped /\ pc \in Living \cup Ended
  /\ pc = "ready" /\ map.stream /\ ~ outdated => stream.total_size = map.mapped_size
  /\ pc = "new" => touched[2] = "live"
  /\ TouchesLiveMemory

(* A step of bc_io_mmap_file touches nothing. *)
LEMMA CoveredCreate == ASSUME MapInv, Covered, Create PROVE Covered'
  <1> USE DEF MapInv, TypeOK, MapShape, Covered, Within, TouchesLiveMemory, Living,
              Ended, file, request
  <1>1. ASSUME NEW offset, NEW length, NEW hugepages, MapFile(offset, length, hugepages)
        PROVE  Covered'
    BY <1>1 DEF MapFile
  <1>2. CASE OpenDescriptor
    BY <1>2 DEF OpenDescriptor
  <1>3. CASE Stat
    BY <1>3, RestIsNat DEF Stat, Requests
  <1>4. CASE MapMemory
    BY <1>4 DEF MapMemory, Requests
  <1>5. CASE CloseDescriptor
    BY <1>5 DEF CloseDescriptor
  <1>6. CASE CreateMap
    BY <1>6 DEF CreateMap, CreateFromAddress
  <1>7. CASE UnmapAbandoned
    BY <1>7 DEF UnmapAbandoned
  <1>8. QED
    BY <1>1, <1>2, <1>3, <1>4, <1>5, <1>6, <1>7 DEF Create

(* An access to the first bytes of memory that is there is safe. *)
LEMMA TouchIsSafe ==
  ASSUME MapInv, NEW by \in {"stream", "data"}, NEW first \in Nat, NEW count \in Nat,
         Touch(by, first, count),
         count = 0 \/ held["memory"] # 0 \/ (by = "stream" /\ outdated = TRUE),
         options.length = 0 /\ ~ shrunk => Within(first + count),
         UNCHANGED <<outdated, shrunk, options>>
  PROVE  TouchesLiveMemory'
  <1>1. CASE touched' = <<by, "live">>
    BY <1>1 DEF TouchesLiveMemory
  <1>2. CASE touched' = <<by, "gone">> /\ count # 0 /\ held["memory"] = 0
    BY <1>2 DEF TouchesLiveMemory
  <1>3. CASE /\ touched' = <<by, "beyond">>
             /\ Pages(options.offset + first + count) > Pages(file_size)
    <2>1. options.offset \in Nat /\ options.length \in Nat /\ file_size \in Nat
      BY MmapAssumption DEF MapInv, TypeOK, Requests
    <2>2. ASSUME options.length = 0, ~ shrunk PROVE FALSE
      <3>1. options.offset + first + count <= file_size
        BY <2>1, <2>2 DEF Within
      <3>2. Pages(options.offset + first + count) <= Pages(file_size)
        BY <2>1, <3>1, PagesMonotone
      <3>3. Pages(options.offset + first + count) \in Int /\ Pages(file_size) \in Int
        BY <2>1, MmapAssumption DEF Pages
      <3>4. QED
        BY <1>3, <3>2, <3>3
    <2>3. options.length > 0 \/ shrunk
      BY <2>1, <2>2
    <2>4. QED
      BY <1>3, <2>3 DEF TouchesLiveMemory
  <1>4. QED
    BY <1>1, <1>2, <1>3 DEF Touch

(* Using a map touches what is there. *)
LEMMA CoveredUse == ASSUME MapInv, Covered, Use PROVE Covered'
  <1>1. CASE GetStream
    BY <1>1 DEF GetStream, OpenMapStream, MapInv, TypeOK, Maps, Covered, Within,
                TouchesLiveMemory, Living, file, request
  <1>2. CASE ReadChunk
    <2> DEFINE left == stream.total_size - stream.position
               count == IF left < ChunkSize THEN left ELSE ChunkSize
    <2>1. /\ stream.position \in Nat /\ stream.total_size \in Nat /\ ChunkSize \in Nat
          /\ stream.position <= stream.total_size
      BY MmapAssumption DEF MapInv, TypeOK, Streams
    <2>2. count \in Nat /\ stream.position + count <= stream.total_size
      BY <2>1
    <2>3. /\ pc = "ready" /\ map.stream /\ Touch("stream", stream.position, count)
          /\ stream' = [stream EXCEPT !.position = @ + count]
          /\ UNCHANGED <<pc, options, map, outdated, held, file_size, shrunk, size>>
      BY <1>2 DEF ReadChunk, ReadMemory, file, request
    <2>4. stream'.total_size = stream.total_size
      BY <2>3 DEF MapInv, TypeOK, Streams
    <2>5. count = 0 \/ held["memory"] # 0 \/ outdated = TRUE
      <3>1. CASE outdated
        BY <3>1 DEF MapInv, TypeOK
      <3>2. CASE ~ outdated /\ map.base
        BY <2>3, <3>2 DEF MapInv, MapHolds, One
      <3>3. CASE ~ outdated /\ ~ map.base
        <4>1. stream.total_size = 0
          BY <2>3, <3>3 DEF MapInv, TypeOK, Maps, Covered, MapShape, Living
        <4>2. QED
          BY <2>1, <2>2, <4>1
      <3>4. QED
        BY <3>1, <3>2, <3>3
    <2>6. options.length = 0 /\ ~ shrunk => Within(stream.position + count)
      <3>1. options.offset \in Nat /\ file_size \in Nat
        BY MmapAssumption DEF MapInv, TypeOK, Requests
      <3>2. options.length = 0 /\ ~ shrunk => Within(stream.total_size)
        BY <2>3 DEF Covered
      <3>3. QED
        BY <2>1, <2>2, <3>1, <3>2 DEF Within
    <2> HIDE DEF count
    <2>7. TouchesLiveMemory'
      BY <2>1, <2>2, <2>3, <2>5, <2>6, TouchIsSafe
    <2>8. QED
      BY <2>3, <2>4, <2>7 DEF Covered, Within
  <1>3. CASE GetData
    <2> DEFINE count == IF map.base THEN map.mapped_size ELSE 0
    <2>1. /\ pc = "ready" /\ Touch("data", 0, count)
          /\ UNCHANGED <<pc, options, map, outdated, held, file_size, shrunk, size, stream>>
      BY <1>3 DEF GetData, file, request
    <2>2. /\ count \in Nat /\ 0 + count = count /\ options.offset \in Nat
          /\ count <= map.mapped_size /\ map.mapped_size \in Nat /\ file_size \in Nat
      BY MmapAssumption DEF MapInv, TypeOK, Maps, Requests
    <2>3. count = 0 \/ held["memory"] # 0
      BY <2>1 DEF MapInv, MapHolds, One
    <2>4. options.length = 0 /\ ~ shrunk => Within(0 + count)
      BY <2>1, <2>2 DEF Covered, Within, Living
    <2> HIDE DEF count
    <2>5. TouchesLiveMemory'
      BY <2>1, <2>2, <2>3, <2>4, TouchIsSafe
    <2>6. QED
      BY <2>1, <2>5 DEF Covered, Within
  <1>4. CASE Advise
    <2>1. pc = "ready" /\ held["memory"] = 1
      BY <1>4 DEF Advise, MapInv, MapHolds, One
    <2>2. touched' = <<"advise", "live">>
      BY <1>4, <2>1 DEF Advise
    <2>3. QED
      BY <1>4, <2>2 DEF Advise, Covered, Within, TouchesLiveMemory, file, request
  <1>5. CASE Unmap
    <2>1. ~ outdated /\ touched[2] # "gone"
      BY <1>5 DEF Unmap, Covered, TouchesLiveMemory
    <2>2. /\ map' = [map EXCEPT !.base = FALSE, !.mapped_size = 0, !.is_mapped = FALSE]
          /\ pc = "ready" /\ outdated' = map.stream
          /\ UNCHANGED <<pc, file_size, shrunk, options, size, stream, touched>>
      BY <1>5 DEF Unmap, file, request
    <2>3. map'.mapped_size = 0 /\ map'.is_mapped = FALSE /\ map'.stream = map.stream
      BY <2>2 DEF MapInv, TypeOK, Maps
    <2>4. options.offset \in Nat /\ map.mapped_size \in Nat /\ file_size \in Nat
      BY MmapAssumption DEF MapInv, TypeOK, Maps, Requests
    <2>5. QED
      BY <2>1, <2>2, <2>3, <2>4 DEF Covered, Within, TouchesLiveMemory, Living
  <1>6. QED
    BY <1>1, <1>2, <1>3, <1>4, <1>5 DEF Use

(* Unmap and destroy leave at most a stream that is known to be outdated. *)
LEMMA CoveredDiscard == ASSUME MapInv, Covered, Discard \/ FileChanges PROVE Covered'
  <1> USE DEF MapInv, TypeOK, Covered, Within, TouchesLiveMemory, Living,
              Ended, file, request
  <1>1. CASE Destroy
    BY <1>1 DEF Destroy
  <1>2. CASE DestroyStream
    BY <1>2 DEF DestroyStream, Maps
  <1>3. CASE DestroyMemory
    BY <1>3 DEF DestroyMemory
  <1>4. CASE DestroyMap("destroyed")
    BY <1>4 DEF DestroyMap, NoMap
  <1>5. CASE FileChanges
    <2>1. /\ file_size \in Int /\ file_size' \in Int /\ options.offset \in Int
          /\ size \in Int /\ map.mapped_size \in Int /\ stream.total_size \in Int
      BY <1>5, MmapAssumption DEF FileChanges, Maps, Streams, Requests
    <2>2. /\ ~ shrunk' => ~ shrunk /\ ~ (file_size' < file_size)
          /\ shrunk => shrunk'
      BY <1>5, Zenon DEF FileChanges
    <2>3. UNCHANGED <<pc, options, size, map, stream, outdated, touched>>
      BY <1>5 DEF FileChanges
    <2>4. QED
      BY <2>1, <2>2, <2>3
  <1>6. QED
    BY <1>1, <1>2, <1>3, <1>4, <1>5 DEF Discard

(***************************************************************************)
(* Memory that is gone is reached only through a stream that was opened    *)
(* before the unmap, and a page behind the end of the file only after a    *)
(* truncation, or where the caller gave the length.                        *)
(***************************************************************************)
THEOREM MemoryIsLive == Spec => []TouchesLiveMemory
  <1>1. Init => Covered
    BY DEF Init, Covered, TouchesLiveMemory, NoMap, Living
  <1>2. MapInv /\ Covered /\ [Next]_vars => Covered'
    <2> SUFFICES ASSUME MapInv, Covered, [Next]_vars PROVE Covered'
      OBVIOUS
    <2>1. CASE UNCHANGED vars
      BY <2>1 DEF Covered, Within, TouchesLiveMemory, vars, file, request
    <2>2. QED
      BY <2>1, CoveredCreate, CoveredUse, CoveredDiscard DEF Next
  <1>3. Covered => TouchesLiveMemory
    BY DEF Covered
  <1>4. QED
    BY <1>1, <1>2, <1>3, MapInvAlways, PTL DEF Spec

-----------------------------------------------------------------------------
(* Handles. *)

(* HandleLabels at which the file is too large to be buffered. *)
Mapping == {"mmap", "close", "create", "unmap", "get_stream",
            "destroy_stream", "destroy_memory", "destroy_map"}

(* The steps of bc_io_mmap_destroy. *)
Destroying == {"destroy_stream", "destroy_memory", "destroy_map"}

(* The types, with those of Mmap that it needs; the whole file is mapped. *)
Types ==
  /\ HandleTypeOK
  /\ address \in BOOLEAN /\ map \in Maps /\ touched \in Touches
  /\ options.offset = 0

(* The handle is a map in the hands of the caller. *)
Mapped == pc = "ready" /\ handle.kind = "mapped"

(* What is known of the handle at each step. *)
Stage ==
  /\ pc \in Mapping \cup {"free"} \/ Mapped => handle.allocated
  /\ pc \in {"new", "open_noatime", "open_plain", "fstat", "allocate", "failed", "destroyed"} =>
       ~ handle.allocated
  /\ pc = "ready" => handle.kind # "none"
  /\ pc = "close_stream" => handle.kind = "buffered"
  /\ pc \in Destroying => handle.kind # "buffered"
  /\ pc \notin {"ready", "close_stream", "free", "destroyed"} \cup Destroying =>
       handle.kind = "none"
  /\ pc \in Mapping \/ Mapped => handle.file_size > 0

(* What is known of the map and of its stream. *)
MapStage ==
  /\ pc \in {"close", "create", "unmap"} => address /\ size = handle.file_size
  /\ pc \in {"get_stream", "destroy_stream", "destroy_memory"} \/ Mapped =>
       map.base /\ map.is_mapped /\ map.mapped_size = handle.file_size
  /\ ~ Mapped /\ pc # "destroy_stream" => ~ map.stream
  /\ Mapped => map.stream /\ stream.data = "memory"
  /\ stream.data = "memory" =>
       /\ Mapped \/ (pc = "destroy_stream" /\ map.stream)
       /\ stream.total_size = handle.file_size /\ stream.position <= stream.total_size

(* What is held at each step, resource by resource. *)
Holds ==
  /\ held["descriptor"] =
       One(\/ pc \in {"fstat", "allocate", "open_stream", "mmap", "close", "give_up"}
           \/ pc \in {"ready", "close_stream", "free", "destroyed"} /\ handle.kind = "buffered")
  /\ held["memory"] =
       One(Mapped \/ pc \in {"close", "create", "unmap", "get_stream", "destroy_stream",
                             "destroy_memory"})
  /\ held["map"] = One(Mapped \/ pc \in Destroying \cup {"get_stream"})
  /\ held["stream"] =
       One(pc \in {"ready", "close_stream"} \/ (pc = "destroy_stream" /\ map.stream))
  /\ held["handle"] = One(handle.allocated)

(* The inductive invariant. *)
Inv == Types /\ Stage /\ MapStage /\ Holds

-----------------------------------------------------------------------------
(* Of what is held only the descriptor of a buffered stream is left. *)
LEMMA InvLeaves == Inv => LeavesOnlyDescriptor
  BY DEF Inv, Types, Stage, Holds, LeavesOnlyDescriptor, One, Mapped, Resources, Destroying

(* Nothing is held before the first call. *)
LEMMA InvInit == HandleInit => Inv
  <1> SUFFICES ASSUME HandleInit PROVE Inv
    OBVIOUS
  <1> USE MmapAssumption, HandleAssumption DEF HandleInit, Init
  <1>1. Types
    <2>1. handle \in Handles /\ stream \in HandleStreams /\ map \in Maps
      BY DEF Handles, HandleStreams, Maps, NoHandle, NoStream, NoMap
    <2>2. held \in [Resources -> Int] /\ touched \in Touches
      BY DEF Touches
    <2>3. QED
      BY <2>1, <2>2 DEF Types, HandleTypeOK, HandleLabels
  <1>2. Stage /\ MapStage
    BY DEF Stage, MapStage, Mapping, Destroying, Mapped, NoHandle, NoMap, NoStream
  <1>3. Holds
    BY DEF Holds, Destroying, Mapped, NoHandle, One, Resources
  <1>4. QED
    BY <1>1, <1>2, <1>3 DEF Inv

(* What a step may do to the balance. *)
LEMMA HeldIsTyped ==
  ASSUME HandleTypeOK,
         UNCHANGED held \/ \E r \in Resources : Acquire(r) \/ Release(r)
  PROVE  held' \in [Resources -> Int]
  BY DEF HandleTypeOK, Acquire, Release

(* Every variable keeps its type. *)
LEMMA TypesNext == ASSUME Inv, HandleNext PROVE Types'
  <1> USE MmapAssumption, HandleAssumption
         DEF Inv, Types, HandleTypeOK, Quiet, old, file, request
  <1>1. ASSUME NEW call \in {"read", "auto"}, NEW noatime \in BOOLEAN, NEW t \in Nat,
               Begin(call, noatime, t)
        PROVE  Types'
    <2>1. handle' \in Handles
      BY <1>1 DEF Begin, Handles
    <2>2. QED
      BY <1>1, <2>1 DEF Begin, HandleLabels
  <1>2. CASE OpenForRead
    <2>1. held' \in [Resources -> Int]
      BY <1>2, HeldIsTyped DEF OpenForRead, Opened, Resources
    <2>2. QED
      BY <1>2, <2>1 DEF OpenForRead, Opened, HandleLabels
  <1>3. CASE Fstat
    <2>1. handle' \in Handles
      BY <1>3 DEF Fstat, Handles
    <2>2. QED
      BY <1>3, <2>1 DEF Fstat, HandleLabels
  <1>4. CASE AllocateHandle
    <2>1. handle' \in Handles
      BY <1>4 DEF AllocateHandle, Handles
    <2>2. held' \in [Resources -> Int]
      BY <1>4, HeldIsTyped DEF AllocateHandle, Resources
    <2>3. QED
      BY <1>4, <2>1, <2>2 DEF AllocateHandle, HandleLabels
  <1>5. CASE OpenStream
    <2>1. handle' \in Handles
      BY <1>5 DEF OpenStream, Handles
    <2>2. stream' \in HandleStreams
      BY <1>5 DEF OpenStream, HandleStreams
    <2>3. held' \in [Resources -> Int]
      BY <1>5, HeldIsTyped DEF OpenStream, Resources
    <2>4. QED
      BY <1>5, <2>1, <2>2, <2>3 DEF OpenStream, HandleLabels
  <1>6. CASE MapWhole
    <2>1. held' \in [Resources -> Int]
      BY <1>6, HeldIsTyped DEF MapWhole, Resources
    <2>2. QED
      BY <1>6, <2>1 DEF MapWhole, HandleLabels, Handles
  <1>7. CASE CloseMapped
    <2>1. held' \in [Resources -> Int]
      BY <1>7, HeldIsTyped DEF CloseMapped, Resources
    <2>2. QED
      BY <1>7, <2>1 DEF CloseMapped, HandleLabels
  <1>8. CASE CreateHandleMap
    <2>1. [base |-> address, mapped_size |-> size, is_mapped |-> TRUE, stream |-> FALSE] \in Maps
      BY DEF Maps
    <2>2. map' \in Maps
      BY <1>8, <2>1 DEF CreateHandleMap, CreateFromAddress
    <2>3. held' \in [Resources -> Int]
      BY <1>8, HeldIsTyped DEF CreateHandleMap, CreateFromAddress, Resources
    <2>4. QED
      BY <1>8, <2>2, <2>3 DEF CreateHandleMap, HandleLabels
  <1>9. CASE GetHandleStream
    <2>1. handle' \in Handles
      BY <1>9 DEF GetHandleStream, OpenMapStream, Handles
    <2>2. stream' \in HandleStreams
      BY <1>9 DEF GetHandleStream, OpenMapStream, HandleStreams, Maps
    <2>3. map' \in Maps
      BY <1>9 DEF GetHandleStream, OpenMapStream, Maps
    <2>4. held' \in [Resources -> Int]
      BY <1>9, HeldIsTyped DEF GetHandleStream, OpenMapStream, Resources
    <2>5. QED
      BY <1>9, <2>1, <2>2, <2>3, <2>4 DEF GetHandleStream, HandleLabels
  <1>10. CASE UnmapMemory
    <2>1. held' \in [Resources -> Int]
      BY <1>10, HeldIsTyped DEF UnmapMemory, Resources
    <2>2. QED
      BY <1>10, <2>1 DEF UnmapMemory, HandleLabels
  <1>11. CASE GiveUp
    <2>1. held' \in [Resources -> Int]
      BY <1>11, HeldIsTyped DEF GiveUp, Resources
    <2>2. QED
      BY <1>11, <2>1 DEF GiveUp, HandleLabels
  <1>12. CASE ReadHandleChunk
    <2>1. stream' \in HandleStreams
      BY <1>12 DEF ReadHandleChunk, ReadMemory, HandleStreams, MapStage, Mapped, Handles
    <2>2. touched' \in Touches
      BY <1>12 DEF ReadHandleChunk, ReadMemory, Touch, Touches
    <2>3. QED
      BY <1>12, <2>1, <2>2 DEF ReadHandleChunk, HandleLabels
  <1>13. CASE DestroyHandle
    BY <1>13 DEF DestroyHandle, HandleLabels
  <1>14. CASE CloseStream
    <2>1. stream' \in HandleStreams
      BY <1>14 DEF CloseStream, HandleStreams, NoStream
    <2>2. held' \in [Resources -> Int]
      BY <1>14, HeldIsTyped DEF CloseStream, Resources
    <2>3. QED
      BY <1>14, <2>1, <2>2 DEF CloseStream, HandleLabels
  <1>15. CASE DestroyStream /\ UNCHANGED <<handle, threshold, changed>>
    <2>1. stream' \in HandleStreams
      BY <1>15 DEF DestroyStream, HandleStreams, NoStream
    <2>2. map' \in Maps
      BY <1>15 DEF DestroyStream, Maps
    <2>3. held' \in [Resources -> Int]
      BY <1>15, HeldIsTyped DEF DestroyStream, Resources
    <2>4. QED
      BY <1>15, <2>1, <2>2, <2>3 DEF DestroyStream, HandleLabels
  <1>16. CASE DestroyMemory /\ UNCHANGED <<handle, threshold, changed>>
    <2>1. held' \in [Resources -> Int]
      BY <1>16, HeldIsTyped DEF DestroyMemory, Resources
    <2>2. QED
      BY <1>16, <2>1 DEF DestroyMemory, HandleLabels
  <1>17. CASE DestroyMap("free") /\ UNCHANGED <<handle, threshold, changed>>
    <2>1. map' \in Maps
      BY <1>17 DEF DestroyMap, Maps, NoMap
    <2>2. held' \in [Resources -> Int]
      BY <1>17, HeldIsTyped DEF DestroyMap, Resources
    <2>3. QED
      BY <1>17, <2>1, <2>2 DEF DestroyMap, HandleLabels
  <1>18. CASE FreeHandle
    <2>1. handle' \in Handles
      BY <1>18 DEF FreeHandle, Handles
    <2>2. held' \in [Resources -> Int]
      BY <1>18, HeldIsTyped DEF FreeHandle, Resources
    <2>3. QED
      BY <1>18, <2>1, <2>2 DEF FreeHandle, HandleLabels
  <1>19. CASE HandleFileChanges
    BY <1>19 DEF HandleFileChanges, FileChanges, HandleLabels
  <1>20. QED
    BY <1>1, <1>2, <1>3, <1>4, <1>5, <1>6, <1>7, <1>8, <1>9, <1>10,
       <1>11, <1>12, <1>13, <1>14, <1>15, <1>16, <1>17, <1>18, <1>19
    DEF HandleNext, Open, DestroyHandleMap

(* Every step leads to the stage its label says. *)
LEMMA StageNext == ASSUME Inv, HandleNext PROVE Stage'
  <1> USE MmapAssumption, HandleAssumption
         DEF Inv, Types, HandleTypeOK, Handles, Stage, Mapped, Mapping, Destroying,
              Quiet, old, file, request, Acquire, Release
  <1>1. ASSUME NEW call \in {"read", "auto"}, NEW noatime \in BOOLEAN, NEW t \in Nat,
               Begin(call, noatime, t)
        PROVE  Stage'
    BY <1>1 DEF Begin
  <1>2. CASE OpenForRead
    BY <1>2 DEF OpenForRead, Opened
  <1>3. CASE Fstat
    BY <1>3 DEF Fstat
  <1>4. CASE AllocateHandle
    BY <1>4 DEF AllocateHandle
  <1>5. CASE OpenStream
    BY <1>5 DEF OpenStream
  <1>6. CASE MapWhole
    BY <1>6 DEF MapWhole
  <1>7. CASE CloseMapped
    BY <1>7 DEF CloseMapped
  <1>8. CASE CreateHandleMap
    BY <1>8 DEF CreateHandleMap, CreateFromAddress
  <1>9. CASE GetHandleStream
    BY <1>9 DEF GetHandleStream, OpenMapStream
  <1>10. CASE UnmapMemory
    BY <1>10 DEF UnmapMemory
  <1>11. CASE GiveUp
    BY <1>11 DEF GiveUp
  <1>12. CASE ReadHandleChunk
    BY <1>12 DEF ReadHandleChunk, ReadMemory
  <1>13. CASE DestroyHandle
    BY <1>13 DEF DestroyHandle
  <1>14. CASE CloseStream
    BY <1>14 DEF CloseStream, NoStream
  <1>15. CASE DestroyStream /\ UNCHANGED <<handle, threshold, changed>>
    BY <1>15 DEF DestroyStream, NoStream
  <1>16. CASE DestroyMemory /\ UNCHANGED <<handle, threshold, changed>>
    BY <1>16 DEF DestroyMemory, HasMemory
  <1>17. CASE DestroyMap("free") /\ UNCHANGED <<handle, threshold, changed>>
    BY <1>17 DEF DestroyMap, NoMap
  <1>18. CASE FreeHandle
    BY <1>18 DEF FreeHandle
  <1>19. CASE HandleFileChanges
    BY <1>19 DEF HandleFileChanges, FileChanges
  <1>20. QED
    BY <1>1, <1>2, <1>3, <1>4, <1>5, <1>6, <1>7, <1>8, <1>9, <1>10,
       <1>11, <1>12, <1>13, <1>14, <1>15, <1>16, <1>17, <1>18, <1>19
    DEF HandleNext, Open, DestroyHandleMap

(* The map and its stream are those of the file that was measured. *)
LEMMA MapStageNext == ASSUME Inv, HandleNext PROVE MapStage'
  <1> USE MmapAssumption, HandleAssumption
         DEF Inv, Types, HandleTypeOK, Handles, Stage, MapStage, Mapped, Mapping, Destroying,
              Quiet, old, file, request, Acquire, Release
  <1>1. ASSUME NEW call \in {"read", "auto"}, NEW noatime \in BOOLEAN, NEW t \in Nat,
               Begin(call, noatime, t)
        PROVE  MapStage'
    BY <1>1 DEF Begin
  <1>2. CASE OpenForRead
    BY <1>2 DEF OpenForRead, Opened
  <1>3. CASE Fstat
    BY <1>3 DEF Fstat
  <1>4. CASE AllocateHandle
    BY <1>4 DEF AllocateHandle
  <1>5. CASE OpenStream
    BY <1>5 DEF OpenStream
  <1>6. CASE MapWhole
    BY <1>6 DEF MapWhole
  <1>7. CASE CloseMapped
    BY <1>7 DEF CloseMapped
  <1>8. CASE CreateHandleMap
    <2>1. address = TRUE /\ size = handle.file_size /\ ~ map.stream
      BY <1>8 DEF CreateHandleMap
    <2>2. \/ pc' = "unmap" /\ UNCHANGED map
          \/ /\ pc' = "get_stream"
             /\ map' = [base |-> TRUE, mapped_size |-> handle.file_size, is_mapped |-> TRUE,
                        stream |-> FALSE]
      BY <1>8, <2>1 DEF CreateHandleMap, CreateFromAddress
    <2>3. pc = "create" /\ UNCHANGED <<handle, address, size, stream>>
      BY <1>8 DEF CreateHandleMap
    <2>4. QED
      BY <2>1, <2>2, <2>3
  <1>9. CASE GetHandleStream
    <2>1. /\ handle.file_size \in Nat /\ map.base /\ map.is_mapped
          /\ map.mapped_size = handle.file_size /\ stream.data # "memory" /\ ~ map.stream
      BY <1>9 DEF GetHandleStream
    <2>2. CASE UNCHANGED <<handle, map, stream>>
      BY <1>9, <2>1, <2>2 DEF GetHandleStream
    <2>3. CASE OpenMapStream /\ pc' = "ready" /\ handle' = [handle EXCEPT !.kind = "mapped"]
      <3>1. /\ stream' = [data |-> "memory", total_size |-> handle.file_size, position |-> 0]
            /\ map' = [map EXCEPT !.stream = TRUE]
        BY <2>1, <2>3 DEF OpenMapStream
      <3>2. handle'.kind = "mapped" /\ handle'.file_size = handle.file_size
        BY <2>3
      <3>3. /\ map'.base = map.base /\ map'.is_mapped = map.is_mapped /\ map'.stream = TRUE
            /\ map'.mapped_size = map.mapped_size
        BY <3>1 DEF Maps
      <3>4. QED
        BY <2>1, <2>3, <3>1, <3>2, <3>3
    <2>4. QED
      BY <1>9, <2>2, <2>3 DEF GetHandleStream
  <1>10. CASE UnmapMemory
    BY <1>10 DEF UnmapMemory
  <1>11. CASE GiveUp
    BY <1>11 DEF GiveUp
  <1>12. CASE ReadHandleChunk
    <2>1. /\ stream'.data = stream.data /\ stream'.total_size = stream.total_size
          /\ stream'.data = "memory" => stream'.position <= stream'.total_size
      BY <1>12 DEF ReadHandleChunk, ReadMemory, HandleStreams
    <2>2. UNCHANGED <<pc, handle, map, address, size>>
      BY <1>12 DEF ReadHandleChunk
    <2>3. QED
      BY <2>1, <2>2
  <1>13. CASE DestroyHandle
    BY <1>13 DEF DestroyHandle
  <1>14. CASE CloseStream
    BY <1>14 DEF CloseStream, NoStream
  <1>15. CASE DestroyStream /\ UNCHANGED <<handle, threshold, changed>>
    BY <1>15 DEF DestroyStream, NoStream
  <1>16. CASE DestroyMemory /\ UNCHANGED <<handle, threshold, changed>>
    BY <1>16 DEF DestroyMemory, HasMemory
  <1>17. CASE DestroyMap("free") /\ UNCHANGED <<handle, threshold, changed>>
    BY <1>17 DEF DestroyMap, NoMap
  <1>18. CASE FreeHandle
    BY <1>18 DEF FreeHandle
  <1>19. CASE HandleFileChanges
    BY <1>19 DEF HandleFileChanges, FileChanges
  <1>20. QED
    BY <1>1, <1>2, <1>3, <1>4, <1>5, <1>6, <1>7, <1>8, <1>9, <1>10,
       <1>11, <1>12, <1>13, <1>14, <1>15, <1>16, <1>17, <1>18, <1>19
    DEF HandleNext, Open, DestroyHandleMap

(* Every step acquires and releases what Holds says. *)
LEMMA HoldsNext == ASSUME Inv, HandleNext PROVE Holds'
  <1> USE MmapAssumption, HandleAssumption
         DEF Inv, Types, HandleTypeOK, Handles, Stage, MapStage, Holds, One, Mapped,
              Mapping, Destroying, Resources, Quiet, old, file, request, Acquire, Release
  <1>1. ASSUME NEW call \in {"read", "auto"}, NEW noatime \in BOOLEAN, NEW t \in Nat,
               Begin(call, noatime, t)
        PROVE  Holds'
    BY <1>1 DEF Begin
  <1>2. CASE OpenForRead
    BY <1>2 DEF OpenForRead, Opened
  <1>3. CASE Fstat
    BY <1>3 DEF Fstat
  <1>4. CASE AllocateHandle
    BY <1>4 DEF AllocateHandle
  <1>5. CASE OpenStream
    BY <1>5 DEF OpenStream
  <1>6. CASE MapWhole
    BY <1>6 DEF MapWhole
  <1>7. CASE CloseMapped
    BY <1>7 DEF CloseMapped
  <1>8. CASE CreateHandleMap
    <2>1. address = TRUE
      BY <1>8 DEF CreateHandleMap
    <2>2. \/ pc' = "get_stream" /\ Acquire("map")
          \/ pc' = "unmap" /\ UNCHANGED held
      BY <1>8, <2>1 DEF CreateHandleMap, CreateFromAddress
    <2>3. QED
      BY <1>8, <2>2 DEF CreateHandleMap
  <1>9. CASE GetHandleStream
    BY <1>9 DEF GetHandleStream, OpenMapStream
  <1>10. CASE UnmapMemory
    BY <1>10 DEF UnmapMemory
  <1>11. CASE GiveUp
    BY <1>11 DEF GiveUp
  <1>12. CASE ReadHandleChunk
    BY <1>12 DEF ReadHandleChunk, ReadMemory
  <1>13. CASE DestroyHandle
    BY <1>13 DEF DestroyHandle
  <1>14. CASE CloseStream
    BY <1>14 DEF CloseStream, NoStream
  <1>15. CASE DestroyStream /\ UNCHANGED <<handle, threshold, changed>>
    BY <1>15 DEF DestroyStream, NoStream
  <1>16. CASE DestroyMemory /\ UNCHANGED <<handle, threshold, changed>>
    BY <1>16 DEF DestroyMemory, HasMemory
  <1>17. CASE DestroyMap("free") /\ UNCHANGED <<handle, threshold, changed>>
    BY <1>17 DEF DestroyMap, NoMap
  <1>18. CASE FreeHandle
    BY <1>18 DEF FreeHandle
  <1>19. CASE HandleFileChanges
    BY <1>19 DEF HandleFileChanges, FileChanges
  <1>20. QED
    BY <1>1, <1>2, <1>3, <1>4, <1>5, <1>6, <1>7, <1>8, <1>9, <1>10,
       <1>11, <1>12, <1>13, <1>14, <1>15, <1>16, <1>17, <1>18, <1>19
    DEF HandleNext, Open, DestroyHandleMap

(* Every step of the specification preserves the invariant. *)
LEMMA InvNext == Inv /\ [HandleNext]_handle_vars => Inv'
  <1> SUFFICES ASSUME Inv, [HandleNext]_handle_vars PROVE Inv'
    OBVIOUS
  <1>1. CASE HandleNext
    BY <1>1, TypesNext, StageNext, MapStageNext, HoldsNext DEF Inv
  <1>2. CASE UNCHANGED handle_vars
    <2>1. UNCHANGED <<pc, file_size, options, address, size, map, stream, touched, held,
                      handle, threshold>>
      BY <1>2 DEF handle_vars, vars, file, request
    <2>2. QED
      BY <2>1 DEF Inv, Types, HandleTypeOK, Stage, MapStage, Holds, Mapped
  <1>3. QED
    BY <1>1, <1>2

(* It holds in every state that an open, a read or a destruction reaches. *)
LEMMA InvAlways == HandleSpec => []Inv
  BY InvInit, InvNext, PTL DEF HandleSpec

(***************************************************************************)
(* Wherever an open fails, it leaves nothing behind; a handle that is      *)
(* destroyed, or a stream that is closed, leaves at most the descriptor of *)
(* a buffered stream; and nothing is released twice.                       *)
(***************************************************************************)
THEOREM OnlyDescriptorIsLeft == HandleSpec => []LeavesOnlyDescriptor
  BY InvAlways, InvLeaves, PTL

-----------------------------------------------------------------------------
(***************************************************************************)
(* The size that open_auto measured is that of the file, as long as nobody *)
(* changes it, and within the file, as long as nobody truncates it: so no  *)
(* read of the mapped memory goes behind the file.                         *)
(***************************************************************************)
Measured ==
  /\ ~ shrunk => handle.file_size <= file_size
  /\ handle.call = "auto" /\ ~ changed /\ pc \in {"allocate", "open_stream"} =>
       handle.file_size = file_size
  /\ SizesAgree
  /\ touched[2] = "beyond" => shrunk
  /\ touched[2] # "gone"

(* A chunk of a mapped handle is in memory that is there. *)
LEMMA MeasuredReadMemory ==
  ASSUME Inv, Measured, Mapped, ReadMemory
  PROVE  touched'[2] # "gone" /\ (touched'[2] = "beyond" => shrunk)
  <1> DEFINE left == stream.total_size - stream.position
             count == IF left < ChunkSize THEN left ELSE ChunkSize
  <1>1. /\ stream.position \in Nat /\ stream.total_size \in Nat /\ ChunkSize \in Nat
        /\ stream.position <= stream.total_size /\ stream.total_size = handle.file_size
        /\ held["memory"] = 1 /\ options.offset = 0 /\ file_size \in Nat
    BY MmapAssumption, HandleAssumption
       DEF Inv, Types, HandleTypeOK, HandleStreams, Handles, MapStage, Holds, One, Mapped
  <1>2. count \in Nat /\ stream.position + count <= stream.total_size
    BY <1>1
  <1>3. Touch("stream", stream.position, count)
    BY DEF ReadMemory
  <1> HIDE DEF count
  <1>4. ASSUME ~ shrunk
        PROVE  ~ (Pages(options.offset + stream.position + count) > Pages(file_size))
    <2>1. options.offset + stream.position + count <= file_size
      BY <1>1, <1>2, <1>4 DEF Measured
    <2>2. options.offset + stream.position + count \in Nat
      BY <1>1, <1>2
    <2>3. Pages(options.offset + stream.position + count) <= Pages(file_size)
      BY <1>1, <2>1, <2>2, PagesMonotone
    <2>4. /\ Pages(options.offset + stream.position + count) \in Int
          /\ Pages(file_size) \in Int
      BY <1>1, <2>2, MmapAssumption, HandleAssumption DEF Pages
    <2>5. QED
      BY <2>3, <2>4
  <1>5. QED
    BY <1>1, <1>3, <1>4 DEF Touch

(* Every step keeps the sizes in agreement. *)
LEMMA MeasuredNext == ASSUME Inv, Measured, HandleNext PROVE Measured'
  <1> USE MmapAssumption, HandleAssumption
         DEF Inv, Types, HandleTypeOK, Handles, HandleStreams, Stage, MapStage, Mapped, Measured,
              SizesAgree, Quiet, old, file, request
  <1>1. ASSUME NEW call \in {"read", "auto"}, NEW noatime \in BOOLEAN, NEW t \in Nat,
               Begin(call, noatime, t)
        PROVE  Measured'
    BY <1>1 DEF Begin
  <1>2. CASE OpenForRead
    BY <1>2 DEF OpenForRead, Opened
  <1>3. CASE Fstat
    BY <1>3 DEF Fstat
  <1>4. CASE AllocateHandle
    BY <1>4 DEF AllocateHandle
  <1>5. CASE OpenStream
    BY <1>5 DEF OpenStream
  <1>6. CASE MapWhole
    BY <1>6 DEF MapWhole
  <1>7. CASE CloseMapped
    BY <1>7 DEF CloseMapped
  <1>8. CASE CreateHandleMap
    BY <1>8 DEF CreateHandleMap
  <1>9. CASE GetHandleStream
    BY <1>9 DEF GetHandleStream, OpenMapStream
  <1>10. CASE UnmapMemory
    BY <1>10 DEF UnmapMemory
  <1>11. CASE GiveUp
    BY <1>11 DEF GiveUp
  <1>12. CASE ReadHandleChunk
    <2>1. touched'[2] # "gone" /\ (touched'[2] = "beyond" => shrunk)
      BY <1>12, MeasuredReadMemory DEF ReadHandleChunk
    <2>2. stream'.total_size = stream.total_size
      BY <1>12 DEF ReadHandleChunk, ReadMemory
    <2>3. QED
      BY <1>12, <2>1, <2>2 DEF ReadHandleChunk
  <1>13. CASE DestroyHandle
    BY <1>13 DEF DestroyHandle
  <1>14. CASE CloseStream
    BY <1>14 DEF CloseStream
  <1>15. CASE DestroyStream /\ UNCHANGED <<handle, threshold, changed>>
    BY <1>15 DEF DestroyStream
  <1>16. CASE DestroyMemory /\ UNCHANGED <<handle, threshold, changed>>
    BY <1>16 DEF DestroyMemory
  <1>17. CASE DestroyMap("free") /\ UNCHANGED <<handle, threshold, changed>>
    BY <1>17 DEF DestroyMap
  <1>18. CASE FreeHandle
    BY <1>18 DEF FreeHandle
  <1>19. CASE HandleFileChanges
    <2>1. /\ ~ shrunk' => ~ shrunk /\ ~ (file_size' < file_size)
          /\ ~ changed' => ~ changed /\ file_size' = file_size
          /\ shrunk => shrunk'
          /\ changed => changed'
      BY <1>19, Zenon DEF HandleFileChanges, FileChanges
    <2>2. file_size \in Nat /\ file_size' \in Nat /\ handle.file_size \in Nat
      BY <1>19 DEF HandleFileChanges, FileChanges
    <2>3. UNCHANGED <<pc, handle, stream, touched>>
      BY <1>19 DEF HandleFileChanges, FileChanges
    <2>4. QED
      BY <2>1, <2>2, <2>3
  <1>20. QED
    BY <1>1, <1>2, <1>3, <1>4, <1>5, <1>6, <1>7, <1>8, <1>9, <1>10,
       <1>11, <1>12, <1>13, <1>14, <1>15, <1>16, <1>17, <1>18, <1>19
    DEF HandleNext, Open, DestroyHandleMap

(* The sizes agree in every state. *)
LEMMA MeasuredAlways == HandleSpec => []Measured
  <1>1. HandleInit => Measured
    BY DEF HandleInit, Init, Measured, SizesAgree, NoHandle
  <1>2. Inv /\ Measured /\ [HandleNext]_handle_vars => Measured'
    <2> SUFFICES ASSUME Inv, Measured, [HandleNext]_handle_vars PROVE Measured'
      OBVIOUS
    <2>1. CASE UNCHANGED handle_vars
      BY <2>1 DEF Measured, SizesAgree, handle_vars, vars, file
    <2>2. QED
      BY <2>1, MeasuredNext
  <1>3. QED
    BY <1>1, <1>2, InvAlways, PTL DEF HandleSpec

(***************************************************************************)
(* get_size and the stream agree on the size of the file, except for a     *)
(* buffered handle on a file that somebody changes.                        *)
(***************************************************************************)
THEOREM SizesAreRight == HandleSpec => []SizesAgree
  <1>1. Measured => SizesAgree
    BY DEF Measured
  <1>2. QED
    BY <1>1, MeasuredAlways, PTL

(***************************************************************************)
(* The memory of a mapped handle is there as long as its stream is, and    *)
(* the stream stays within a file that nobody truncates.                   *)
(***************************************************************************)
THEOREM MemoryIsThere == HandleSpec => []MemoryOutlivesStream
  <1>1. Inv /\ Measured => MemoryOutlivesStream
    BY DEF Inv, Measured, MemoryOutlivesStream, MapStage, Mapped, Holds, One
  <1>2. QED
    BY <1>1, InvAlways, MeasuredAlways, PTL
=============================================================================
