----------------------------- MODULE ReadHandle -----------------------------
(***************************************************************************)
(* bc_io_file_open_read and bc_io_file_open_auto: a file opened for        *)
(* reading as a buffered stream, or, if it is large, through a memory map. *)
(* A read handle owns whichever it is; open_read gives out the stream      *)
(* alone.  The map and its destruction are those of Mmap; streams appear   *)
(* as what they hold and how far they have read.                           *)
(***************************************************************************)
EXTENDS Mmap

CONSTANTS
  Thresholds,        \* the mmap_threshold a caller may give
  DefaultThreshold   \* BC_IO_OPEN_DEFAULT_THRESHOLD

ASSUME HandleAssumption == Thresholds \subseteq Nat /\ DefaultThreshold \in Nat \ {0}

VARIABLES
  handle,      \* the bc_io_file_read_handle_t, or what open_read was asked for
  threshold,   \* effective_threshold
  changed      \* history: the size of the file has changed

old == <<options, outdated>>
handle_vars == <<vars, handle, threshold, changed>>

(* allocated: the handle's block is there.  kind: "none" until the open    *)
(* has succeeded.                                                          *)
NoHandle == [call |-> "none", allocated |-> FALSE, kind |-> "none", file_size |-> 0]

HandleInit == Init /\ handle = NoHandle /\ threshold = DefaultThreshold /\ changed = FALSE

(* Somebody else truncates the file or appends to it. *)
HandleFileChanges ==
  /\ FileChanges
  /\ changed' = (changed \/ file_size' # file_size)
  /\ UNCHANGED <<handle, threshold>>

-----------------------------------------------------------------------------
(* Opening. *)

Quiet == UNCHANGED <<file_size, shrunk, old, touched, threshold, changed>>

(* Variant: a threshold of zero is taken as it is. *)
BeginWithZero(call, noatime, t) ==
  /\ pc = "new" /\ pc' = IF noatime THEN "open_noatime" ELSE "open_plain"
  /\ handle' = [handle EXCEPT !.call = call]
  /\ threshold' = t
  /\ UNCHANGED <<file_size, shrunk, old, touched, changed, address, size, map, stream, held>>

Begin(call, noatime, t) ==
  /\ pc = "new" /\ pc' = IF noatime THEN "open_noatime" ELSE "open_plain"
  /\ handle' = [handle EXCEPT !.call = call]
  /\ threshold' = IF t = 0 THEN DefaultThreshold ELSE t
  /\ UNCHANGED <<file_size, shrunk, old, touched, changed, address, size, map, stream, held>>

Opened == pc' = (IF handle.call = "auto" THEN "fstat" ELSE "open_stream") /\ Acquire("descriptor")

(* O_NOATIME is refused (EPERM) to those who do not own the file. *)
OpenForRead ==
  /\ \/ pc \in {"open_noatime", "open_plain"} /\ Opened
     \/ pc = "open_noatime" /\ pc' \in {"open_plain", "failed"} /\ UNCHANGED held
     \/ pc = "open_plain" /\ pc' = "failed" /\ UNCHANGED held
  /\ Quiet /\ UNCHANGED <<handle, address, size, map, stream>>

Fstat ==
  /\ pc = "fstat"
  /\ \/ pc' = "allocate" /\ handle' = [handle EXCEPT !.file_size = file_size]
     \/ pc' = "give_up" /\ UNCHANGED handle
  /\ Quiet /\ UNCHANGED <<address, size, map, stream, held>>

AllocateHandle ==
  /\ pc = "allocate"
  /\ \/ /\ Acquire("handle") /\ handle' = [handle EXCEPT !.allocated = TRUE]
        /\ pc' = IF handle.file_size < threshold THEN "open_stream"
                 ELSE IF handle.file_size > 0 THEN "mmap" ELSE "close"
     \/ pc' = "give_up" /\ UNCHANGED <<handle, held>>
  /\ Quiet /\ UNCHANGED <<address, size, map, stream>>

(* bc_io_stream_open_file_descriptor asks for the size a second time, and  *)
(* does not make the descriptor the stream's own.                          *)
OpenStream ==
  /\ pc = "open_stream"
  /\ \/ /\ Acquire("stream") /\ pc' = "ready"
        /\ \E total \in {-1, file_size} :
             stream' = [data |-> "descriptor", total_size |-> total, position |-> 0]
        /\ handle' = [handle EXCEPT !.kind = "buffered"]
     \/ pc' = "give_up" /\ UNCHANGED <<handle, stream, held>>
  /\ Quiet /\ UNCHANGED <<address, size, map>>

(* Variant: the file is measured again to map it. *)
MapWholeMeasured ==
  /\ pc = "mmap"
  /\ \/ Acquire("memory") /\ address' = TRUE /\ size' = file_size /\ pc' = "close"
     \/ pc' = "give_up" /\ UNCHANGED <<address, size, held>>
  /\ Quiet /\ UNCHANGED <<handle, map, stream>>

MapWhole ==
  /\ pc = "mmap"
  /\ \/ Acquire("memory") /\ address' = TRUE /\ size' = handle.file_size /\ pc' = "close"
     \/ pc' = "give_up" /\ UNCHANGED <<address, size, held>>
  /\ Quiet /\ UNCHANGED <<handle, map, stream>>

(* The memory stays mapped without the descriptor. *)
CloseMapped ==
  /\ pc = "close" /\ pc' = "create" /\ Release("descriptor")
  /\ Quiet /\ UNCHANGED <<handle, address, size, map, stream>>

CreateHandleMap ==
  /\ pc = "create"
  /\ \/ CreateFromAddress /\ pc' = "get_stream"
     \/ pc' = (IF address THEN "unmap" ELSE "free") /\ UNCHANGED <<map, held>>
  /\ Quiet /\ UNCHANGED <<handle, address, size, stream>>

(* Variant: a map that cannot have a stream is left alone. *)
GetStreamLeaking ==
  /\ pc = "get_stream"
  /\ \/ /\ OpenMapStream /\ pc' = "ready"
        /\ handle' = [handle EXCEPT !.kind = "mapped"]
     \/ pc' = "free" /\ UNCHANGED <<handle, map, stream, held>>
  /\ Quiet /\ UNCHANGED <<address, size>>

GetHandleStream ==
  /\ pc = "get_stream"
  /\ \/ /\ OpenMapStream /\ pc' = "ready"
        /\ handle' = [handle EXCEPT !.kind = "mapped"]
     \/ pc' = "destroy_stream" /\ UNCHANGED <<handle, map, stream, held>>
  /\ Quiet /\ UNCHANGED <<address, size>>

(* What a failed open has acquired goes back: memory, descriptor, handle. *)
UnmapMemory ==
  /\ pc = "unmap" /\ pc' = "free" /\ Release("memory")
  /\ Quiet /\ UNCHANGED <<handle, address, size, map, stream>>

GiveUp ==
  /\ pc = "give_up" /\ pc' = IF handle.allocated THEN "free" ELSE "failed"
  /\ Release("descriptor")
  /\ Quiet /\ UNCHANGED <<handle, address, size, map, stream>>

-----------------------------------------------------------------------------
(* Reading, and the end. *)

ReadHandleChunk ==
  /\ pc = "ready"
  /\ \/ handle.kind = "mapped" /\ ReadMemory
     \/ /\ handle.kind = "buffered"
        /\ \E count \in 1 .. ChunkSize :
             /\ count <= file_size - stream.position
             /\ stream' = [stream EXCEPT !.position = @ + count]
        /\ UNCHANGED touched
  /\ UNCHANGED <<pc, file_size, shrunk, old, threshold, changed, handle, address, size, map, held>>

(* bc_io_file_read_handle_destroy, or the caller closes open_read's stream. *)
DestroyHandle ==
  /\ pc = "ready" /\ pc' = IF handle.kind = "mapped" THEN "destroy_stream" ELSE "close_stream"
  /\ Quiet /\ UNCHANGED <<handle, address, size, map, stream, held>>

(* bc_io_stream_close on a descriptor that the stream does not own. *)
CloseStream ==
  /\ pc = "close_stream" /\ pc' = IF handle.allocated THEN "free" ELSE "destroyed"
  /\ Release("stream") /\ stream' = NoStream
  /\ Quiet /\ UNCHANGED <<handle, address, size, map>>

DestroyHandleMap ==
  /\ DestroyStream \/ DestroyMemory \/ DestroyMap("free")
  /\ UNCHANGED <<handle, threshold, changed>>

FreeHandle ==
  /\ pc = "free" /\ pc' = IF handle.kind = "none" THEN "failed" ELSE "destroyed"
  /\ Release("handle") /\ handle' = [handle EXCEPT !.allocated = FALSE]
  /\ Quiet /\ UNCHANGED <<address, size, map, stream>>

Open ==
  \/ \E noatime \in BOOLEAN : \/ Begin("read", noatime, 0)
                              \/ \E t \in Thresholds : Begin("auto", noatime, t)
  \/ OpenForRead \/ Fstat \/ AllocateHandle \/ OpenStream \/ MapWhole \/ CloseMapped
  \/ CreateHandleMap \/ GetHandleStream \/ UnmapMemory \/ GiveUp

HandleNext ==
  \/ Open \/ ReadHandleChunk \/ DestroyHandle \/ CloseStream \/ DestroyHandleMap \/ FreeHandle
  \/ HandleFileChanges

HandleSpec == HandleInit /\ [][HandleNext]_handle_vars

-----------------------------------------------------------------------------
HandleLabels == {"new", "open_noatime", "open_plain", "fstat", "allocate", "open_stream", "mmap",
  "close", "create", "get_stream", "unmap", "give_up", "ready", "close_stream",
  "destroy_stream", "destroy_memory", "destroy_map", "free", "failed", "destroyed"}

Handles == [call : {"none", "read", "auto"}, allocated : BOOLEAN,
            kind : {"none", "buffered", "mapped"}, file_size : Nat]
HandleStreams ==
  [data : {"none", "memory", "descriptor"}, total_size : Nat \cup {-1}, position : Nat]

HandleTypeOK ==
  /\ pc \in HandleLabels /\ file_size \in 0 .. MaxFile
  /\ handle \in Handles /\ threshold \in Nat \ {0}
  /\ size \in Nat /\ stream \in HandleStreams /\ held \in [Resources -> Int]

(***************************************************************************)
(* Nothing is released twice or acquired twice.  An open that fails leaves *)
(* nothing behind, wherever it fails; what was destroyed or closed leaves  *)
(* at most the descriptor of a buffered stream.                            *)
(***************************************************************************)
LeavesOnlyDescriptor ==
  /\ HandleTypeOK
  /\ \A r \in Resources : held[r] \in 0 .. 1
  /\ pc = "failed" => \A r \in Resources : held[r] = 0
  /\ pc = "destroyed" => \A r \in Resources \ {"descriptor"} : held[r] = 0
  /\ pc = "destroyed" /\ handle.kind = "mapped" => held["descriptor"] = 0

(***************************************************************************)
(* A mapped handle is a map of memory that is there: its stream never      *)
(* outlives the memory, and never touches a page behind the end of a file  *)
(* that nobody has truncated.                                              *)
(***************************************************************************)
MemoryOutlivesStream ==
  /\ handle.kind = "mapped" /\ pc = "ready" => stream.data = "memory"
  /\ stream.data = "memory" => held["memory"] = 1 /\ held["stream"] = 1
  /\ touched[2] = "beyond" => shrunk
  /\ touched[2] # "gone"

(***************************************************************************)
(* What get_size says is the size of the stream: always for a mapped       *)
(* handle, and for a buffered one, whose stream measures the file again,   *)
(* unless somebody changes the file.                                       *)
(***************************************************************************)
SizesAgree ==
  pc = "ready" /\ handle.call = "auto" /\ stream.total_size # -1 =>
    \/ stream.total_size = handle.file_size
    \/ handle.kind = "buffered" /\ changed

(***************************************************************************)
(* test_read_handle_destroy_releases_resources: a read handle that was     *)
(* destroyed has released everything it held.                              *)
(***************************************************************************)
DestroyReleasesResources ==
  pc = "destroyed" /\ handle.call = "auto" => \A r \in Resources : held[r] = 0
=============================================================================
