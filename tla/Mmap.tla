-------------------------------- MODULE Mmap --------------------------------
(***************************************************************************)
(* bc_io_mmap: a file mapped into memory, and the stream over that memory  *)
(* which the map opens when it is first asked for and keeps.               *)
(*                                                                         *)
(* bc_io_mmap_file and bc_io_mmap_destroy acquire and release one resource *)
(* a step, so that every place where they may give up is a state.  `held`  *)
(* is the balance of acquisitions and releases of each resource.           *)
(***************************************************************************)
EXTENDS Integers

CONSTANTS
  PageSize,    \* of the system
  ChunkSize,   \* the most that a memory stream delivers at once
  MaxFile,     \* the largest size of the file, which others may change
  MaxLength,   \* the largest offset and length asked for
  SizeLimit    \* SIZE_MAX + 1: size_t subtraction is modulo this

ASSUME MmapAssumption ==
  /\ PageSize \in Nat \ {0} /\ ChunkSize \in Nat \ {0}
  /\ MaxFile \in Nat /\ MaxLength \in Nat
  /\ SizeLimit \in Nat /\ SizeLimit > MaxFile /\ SizeLimit > MaxLength

VARIABLES
  pc,         \* the step of the call under way, or the life of the map
  file_size,  \* what fstat says now
  shrunk,     \* history: the file has become shorter
  options,    \* of bc_io_mmap_file
  address,    \* base_address, while the map is made: it is not NULL
  size,       \* mapped_size, while the map is made
  map,        \* the bc_io_mmap_t
  stream,     \* the stream over the memory
  outdated,   \* history: the memory was unmapped after the stream was opened
  touched,    \* what the last access went through, and to what
  held        \* resources acquired, minus resources released

file == <<file_size, shrunk>>
request == <<options, address, size>>
vars == <<pc, file, request, map, stream, outdated, touched, held>>

Resources == {"descriptor", "memory", "map", "stream", "handle"}

Acquire(r) == held' = [held EXCEPT ![r] = @ + 1]
Release(r) == held' = [held EXCEPT ![r] = @ - 1]

NoMap == [base |-> FALSE, mapped_size |-> 0, is_mapped |-> FALSE, stream |-> FALSE]
NoStream == [data |-> "none", total_size |-> 0, position |-> 0]

Init ==
  /\ pc = "new" /\ file_size \in 0 .. MaxFile /\ shrunk = FALSE
  /\ options = [offset |-> 0, length |-> 0, hugepages |-> FALSE]
  /\ address = FALSE /\ size = 0
  /\ map = NoMap /\ stream = NoStream
  /\ outdated = FALSE /\ touched = <<"none", "live">>
  /\ held = [r \in Resources |-> 0]

(* Somebody else truncates the file or appends to it. *)
FileChanges ==
  /\ file_size' \in 0 .. MaxFile
  /\ shrunk' = (shrunk \/ file_size' < file_size)
  /\ UNCHANGED <<pc, request, map, stream, outdated, touched, held>>

-----------------------------------------------------------------------------
(* bc_io_mmap_file. *)

MapFile(offset, length, hugepages) ==
  /\ pc = "new"
  /\ options' = [offset |-> offset, length |-> length, hugepages |-> hugepages]
  /\ pc' = IF offset % PageSize = 0 THEN "open" ELSE "failed"
  /\ UNCHANGED <<file, address, size, map, stream, outdated, touched, held>>

OpenDescriptor ==
  /\ pc = "open"
  /\ \/ pc' = "stat" /\ Acquire("descriptor")
     \/ pc' = "failed" /\ UNCHANGED held
  /\ UNCHANGED <<file, request, map, stream, outdated, touched>>

(* Variant: an offset behind the end of the file is let through. *)
StatUnchecked ==
  /\ pc = "stat"
  /\ size' = IF options.length = 0 THEN (file_size - options.offset) % SizeLimit
                                   ELSE options.length
  /\ pc' = IF size' > 0 THEN "mmap" ELSE "close"
  /\ UNCHANGED <<file, options, address, map, stream, outdated, touched, held>>

(* Without a length the map reaches to the end of the file. *)
Stat ==
  /\ pc = "stat"
  /\ \/ pc' = "abandon" /\ UNCHANGED size
     \/ /\ options.length = 0 /\ options.offset > file_size
        /\ pc' = "abandon" /\ UNCHANGED size
     \/ /\ options.length # 0 \/ options.offset <= file_size
        /\ size' = IF options.length = 0 THEN (file_size - options.offset) % SizeLimit
                                         ELSE options.length
        /\ pc' = IF size' > 0 THEN "mmap" ELSE "close"
  /\ UNCHANGED <<file, options, address, map, stream, outdated, touched, held>>

(* Huge pages are given up before the map is. *)
MapMemory ==
  /\ pc = "mmap"
  /\ \/ /\ address' = TRUE /\ Acquire("memory") /\ pc' = "close"
        /\ UNCHANGED options
     \/ /\ options.hugepages /\ options' = [options EXCEPT !.hugepages = FALSE]
        /\ UNCHANGED <<pc, address, held>>
     \/ ~ options.hugepages /\ pc' = "abandon" /\ UNCHANGED <<options, address, held>>
  /\ UNCHANGED <<file, size, map, stream, outdated, touched>>

(* Variant: the descriptor stays open when the call gives up. *)
CloseDescriptorOnce ==
  /\ \/ pc = "close" /\ pc' = "create" /\ Release("descriptor")
     \/ pc = "abandon" /\ pc' = "failed" /\ UNCHANGED held
  /\ UNCHANGED <<file, request, map, stream, outdated, touched>>

CloseDescriptor ==
  /\ \/ pc = "close" /\ pc' = "create"
     \/ pc = "abandon" /\ pc' = "failed"
  /\ Release("descriptor")
  /\ UNCHANGED <<file, request, map, stream, outdated, touched>>

(* bc_io_mmap_create_from_address, if there is memory for it. *)
CreateFromAddress ==
  /\ Acquire("map")
  /\ map' = [base |-> address, mapped_size |-> size, is_mapped |-> TRUE, stream |-> FALSE]

CreateMap ==
  /\ pc = "create"
  /\ \/ CreateFromAddress /\ pc' = "ready"
     \/ pc' = (IF address THEN "unmap" ELSE "failed") /\ UNCHANGED <<held, map>>
  /\ UNCHANGED <<file, request, stream, outdated, touched>>

UnmapAbandoned ==
  /\ pc = "unmap" /\ pc' = "failed" /\ Release("memory")
  /\ UNCHANGED <<file, request, map, stream, outdated, touched>>

-----------------------------------------------------------------------------
(* The map and its stream in the hands of the caller. *)

(* bc_io_stream_open_memory on what the map holds, kept for later calls. *)
OpenMapStream ==
  /\ Acquire("stream")
  /\ stream' = [data |-> IF map.base THEN "memory" ELSE "none",
                total_size |-> map.mapped_size, position |-> 0]
  /\ map' = [map EXCEPT !.stream = TRUE]

(* Variant: every call opens a stream. *)
GetStreamAnew ==
  /\ pc = "ready" /\ OpenMapStream
  /\ UNCHANGED <<pc, file, request, outdated, touched>>

GetStream ==
  /\ pc = "ready" /\ ~ map.stream /\ OpenMapStream
  /\ UNCHANGED <<pc, file, request, outdated, touched>>

(* An access to bytes first .. first + count - 1 of the memory.  A page    *)
(* that holds none of the file's bytes cannot be touched.                  *)
Pages(bytes) == (bytes + PageSize - 1) \div PageSize

Touch(by, first, count) ==
  touched' = <<by, IF count = 0 THEN "live"
                   ELSE IF held["memory"] = 0 THEN "gone"
                   ELSE IF Pages(options.offset + first + count) > Pages(file_size)
                     THEN "beyond" ELSE "live">>

(* read_chunk hands out the next window on the memory; the caller reads it. *)
ReadMemory ==
  LET left == stream.total_size - stream.position
      count == IF left < ChunkSize THEN left ELSE ChunkSize
  IN  /\ Touch("stream", stream.position, count)
      /\ stream' = [stream EXCEPT !.position = @ + count]

ReadChunk ==
  /\ pc = "ready" /\ map.stream /\ ReadMemory
  /\ UNCHANGED <<pc, file, request, map, outdated, held>>

(* get_data, and the caller reads what it was given. *)
GetData ==
  /\ pc = "ready" /\ Touch("data", 0, IF map.base THEN map.mapped_size ELSE 0)
  /\ UNCHANGED <<pc, file, request, map, stream, outdated, held>>

(***************************************************************************)
(* madvise on a part of the map.  Offset and length are the caller's, and  *)
(* the kernel's to refuse: nothing here compares them with the map.  What  *)
(* is recorded is whether the map is still there; the result changes       *)
(* nothing.                                                                *)
(***************************************************************************)
Advise ==
  /\ pc = "ready" /\ map.is_mapped /\ map.base
  /\ touched' = <<"advise", IF held["memory"] = 0 THEN "gone" ELSE "live">>
  /\ UNCHANGED <<pc, file, request, map, stream, outdated, held>>

HasMemory == map.base /\ map.mapped_size > 0

(* Variant: the map forgets that it is mapped, and not where. *)
UnmapKeepingAddress ==
  /\ pc = "ready" /\ map.is_mapped
  /\ IF HasMemory THEN Release("memory") ELSE UNCHANGED held
  /\ map' = [map EXCEPT !.is_mapped = FALSE]
  /\ outdated' = map.stream
  /\ UNCHANGED <<pc, file, request, stream, touched>>

Unmap ==
  /\ pc = "ready" /\ map.is_mapped
  /\ IF HasMemory THEN Release("memory") ELSE UNCHANGED held
  /\ map' = [map EXCEPT !.base = FALSE, !.mapped_size = 0, !.is_mapped = FALSE]
  /\ outdated' = map.stream
  /\ UNCHANGED <<pc, file, request, stream, touched>>

-----------------------------------------------------------------------------
(* bc_io_mmap_destroy: the stream, the memory and the map, in this order. *)

Destroy ==
  /\ pc = "ready" /\ pc' = "destroy_stream"
  /\ UNCHANGED <<file, request, map, stream, outdated, touched, held>>

DestroyStream ==
  /\ pc = "destroy_stream" /\ pc' = "destroy_memory"
  /\ IF map.stream THEN Release("stream") ELSE UNCHANGED held
  /\ stream' = NoStream /\ map' = [map EXCEPT !.stream = FALSE]
  /\ UNCHANGED <<file, request, outdated, touched>>

DestroyMemory ==
  /\ pc = "destroy_memory" /\ pc' = "destroy_map"
  /\ IF map.is_mapped /\ HasMemory THEN Release("memory") ELSE UNCHANGED held
  /\ UNCHANGED <<file, request, map, stream, outdated, touched>>

DestroyMap(after) ==
  /\ pc = "destroy_map" /\ pc' = after
  /\ Release("map") /\ map' = NoMap
  /\ UNCHANGED <<file, request, stream, outdated, touched>>

Create ==
  \/ \E offset, length \in 0 .. MaxLength, hugepages \in BOOLEAN :
       MapFile(offset, length, hugepages)
  \/ OpenDescriptor \/ Stat \/ MapMemory \/ CloseDescriptor \/ CreateMap \/ UnmapAbandoned

Use == GetStream \/ ReadChunk \/ GetData \/ Advise \/ Unmap

Discard == Destroy \/ DestroyStream \/ DestroyMemory \/ DestroyMap("destroyed")

Next == Create \/ Use \/ Discard \/ FileChanges

Spec == Init /\ [][Next]_vars

-----------------------------------------------------------------------------
Ended == {"failed", "destroyed"}

Labels == Ended \cup {"new", "open", "stat", "mmap", "close", "abandon", "create", "unmap",
                      "ready", "destroy_stream", "destroy_memory", "destroy_map"}
Requests == [offset : 0 .. MaxLength, length : 0 .. MaxLength, hugepages : BOOLEAN]
Maps == [base : BOOLEAN, mapped_size : Nat, is_mapped : BOOLEAN, stream : BOOLEAN]
Streams == [data : {"none", "memory"}, total_size : Nat, position : Nat]
Touches == {"none", "stream", "data", "advise"} \X {"live", "gone", "beyond"}

TypeOK ==
  /\ pc \in Labels /\ file_size \in 0 .. MaxFile /\ shrunk \in BOOLEAN
  /\ options \in Requests /\ address \in BOOLEAN /\ size \in Nat
  /\ map \in Maps
  /\ stream \in Streams /\ stream.position <= stream.total_size
  /\ outdated \in BOOLEAN /\ touched \in Touches /\ held \in [Resources -> Int]

(***************************************************************************)
(* Nothing is released twice, or acquired again while it is held, in any   *)
(* order of get_stream, unmap (twice too) and destroy; and neither a call  *)
(* of bc_io_mmap_file that fails, wherever it fails, nor a destroyed map   *)
(* leaves a descriptor, a mapping or a block behind.                       *)
(***************************************************************************)
Accounted ==
  /\ TypeOK
  /\ \A r \in Resources : held[r] \in 0 .. 1
  /\ pc \in Ended => \A r \in Resources : held[r] = 0

(***************************************************************************)
(* Memory that is gone is only reached through a stream opened before the  *)
(* unmap: get_data, advise and a stream opened later are safe.  A map      *)
(* whose length was left to the library ends where the file did: as long   *)
(* as nobody truncates the file no access falls on a page behind it.       *)
(***************************************************************************)
TouchesLiveMemory ==
  /\ touched[2] = "gone" => touched[1] = "stream" /\ outdated
  /\ touched[2] = "beyond" => shrunk \/ options.length > 0
=============================================================================
