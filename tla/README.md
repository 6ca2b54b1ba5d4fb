# TLA+ specifications of bc-io

bc-io is a C library for file input and output: buffered streams, memory maps,
read handles, directory walks (one thread, or many), a set of inodes, and
helpers for paths, permissions and random bytes. These modules specify the
parts whose correctness depends on the order of events: workers that share a
queue, system calls that do part of what they were asked, tables that grow in
the middle of an insert.

Paths below are relative to the repository (`src/walk/...`, `include/public/...`).

## Inventory

| Component | State it keeps | Operations | What makes it hard | What makes it correct |
|---|---|---|---|---|
| Parallel walk, `src/walk/bc_io_walk_parallel.c` | bounded queue of directories, atomic count of outstanding directories, atomic failure flag, four atomic counters, one entry reader per worker | `bc_io_walk_parallel`, callbacks `filter`, `should_descend`, `visit`, `on_error`, `should_stop_check` | termination is decided from a counter that several threads update while directories are on their way into the queue; a full queue turns a push into a recursive walk; a failed visit must reach everyone | nobody leaves while work is left; everybody leaves in the end; nothing is visited twice; a `true` result accounts for every entry |
| Entry classification, in both walks | none | `d_type` / `stat` / link following / hidden names | `DT_UNKNOWN`, links to special files | both walks decide the same way |
| Buffered stream, `src/stream/` | buffer, fill, logical position, end flag, statistics, descriptor and whether it is owned | open (file, descriptor, memory), `read_chunk`, `write_chunk`, `flush`, `close`, position and remaining bytes | short writes, `EAGAIN`, errors half way, a flush forced by a chunk, a file that grows or is truncated | no acknowledged byte is lost, repeated or reordered; the end is the end; descriptors are closed once |
| Inode set, `src/file/bc_io_file_inode.c` | buckets, flags, size, capacity | create, insert (grows), contains, clear, destroy | collisions that wrap around, a grow that fails, a table that must never be full, power-of-two rounding at the limit | it is a set; every probe ends |
| Sequential walk, `src/walk/bc_io_walk_sequential.c` | recursion, four counters, stop and failure flags | `bc_io_walk_sequential` | errors at any depth | same promise as the parallel walk |
| Entry reader, `src/file/bc_io_dirent_reader.c` | buffer of `getdents64` records, cursor, last error | create, reset, next, last_errno, destroy | refills that hold nothing to deliver, a reader used for one directory after another, also after it was left half way or failed | what the walk sees is a listing of the directory; nothing of one directory shows in the next |
| Read handles, `src/file/bc_io_file_open.c` | stream or map, size, kind | `open_read`, `open_auto`, destroy, getters | who closes what, each resource acquired in a step that may fail | nothing leaks, nothing is released twice |
| Memory map, `src/mmap/bc_io_mmap.c` | address, size, whether it is mapped, cached stream | map, get_stream, get_data, advise, unmap, destroy | the order of unmap, get_stream and destroy; a file that others truncate | memory that is gone is not touched |
| Paths, `src/file/bc_io_file_path.c`, `src/path/` | none | `bc_io_file_path_join`, entry types, `open_for_read` | lengths at the limit of a buffer | the path that is opened is the path that callbacks see |
| Stat, `src/file/bc_io_file_stat.c` | none | stat, lstat | the type is told in four ways | they agree |
| Permissions, `src/perm/bc_io_perm.c` | none | format and parse modes; users and groups by number and name | special bits, buffers that are exactly full | round trip |
| Random bytes, `src/random/bc_io_random.c` | one descriptor per thread | fill, with a fallback to `/dev/urandom` | giving up half way; threads that fall back together, exit and start | every byte is written once; every thread keeps its own descriptor |
| bc-core, bc-allocators, bc-concurrency | other repositories | queue, pool, arena, task submission | - | modelled from their use here |

How they interact: the walks call the entry reader and the callbacks of the
caller; workers interact through the queue, the count, the flag and the
counters only; read handles and maps own streams; streams own descriptors or
borrow them. Nothing calls back into a stream, and a stream has no lock: it is
used by one thread at a time. So concurrency is in the parallel walk, and in
a small way in the random bytes, whose descriptor belongs to a thread; in
the streams, the set and the handles the difficulty is failure in the middle of
an operation and long sequences of legal calls.

`PROJECT.json` lists the hazards one by one with the line where each bites and
the properties that watch it.

## Modules

| Module | What it is |
|---|---|
| `WalkEntry` | the tree, the caller's options, and what both walks decide about one entry |
| `Walk` | abstract: what a walk promises, whatever the number of threads |
| `WalkParallel` | `bc_io_walk_parallel` and its worker task, step by step |
| `WalkParallelProofs` | theorems about `WalkParallel` |
| `WalkSequential` | `bc_io_walk_sequential` and its recursion |
| `WalkSequentialProofs` | theorems about `WalkSequential` |
| `MCTrees`, `MCWalkParallel`, `MCWalkSequential` | the trees TLC walks |
| `Stream` | the buffered stream |
| `StreamProofs` | theorems about `Stream` |
| `MCStream` | the stream for TLC |
| `InodeSetSpec` | abstract: a set whose insert may fail |
| `InodeSet` | the hash table |
| `InodeSetProofs` | theorems about `InodeSet` |
| `MCInodeSet` | keys that collide |
| `Listing` | abstract: what the walks rely on when they read a directory |
| `DirentReader` | the entry reader, and the readers of a worker whose inline walks nest |
| `DirentReaderProofs` | theorems about `DirentReader` |
| `Mmap` | the memory map, its stream and its memory |
| `ReadHandle` | `open_read` and `open_auto`; extends `Mmap` |
| `ReadHandleProofs` | theorems about `Mmap` and `ReadHandle` |
| `PathJoin` | `bc_io_file_path_join` on memory |
| `WalkPath` | the paths of both walks, made with `PathJoin` |
| `WalkPathProofs` | theorems about `PathJoin` and `WalkPath` |
| `FileStat` | what is made of `st_mode` and `d_type` |
| `Perm` | modes and names as text |
| `Random` | random bytes, for threads that come and go |
| `UtilityProofs` | theorems about `Perm` and `Random` |
| `MCDirentReader`, `MCMmap`, `MCReadHandle`, `MCWalkPath`, `MCPerm`, `MCRandom` | the instances TLC checks |

Operators whose comment starts with *Variant* are the same step with a
plausible mistake in it. Nothing uses them; each shows, put in the place of the
step that follows it, that some property notices the mistake.

### The parallel walk

An entry is a path. Following a symbolic link makes new paths, so `Parent` is a
tree even if the file system is a graph. `Mode` and `Target` are what `lstat`
and `stat` say; `UnknownType`, `Hidden`, `TooLong`, `Accepted` and `Descended`
are the answers to the questions the code asks about an entry. All are
constants: the file system does not change under the walk, and the callbacks
are functions of the entry, except `visit` and `should_stop_check`, which may
answer anything at any time. A change of the file system during the walk shows
as a call that fails.

| TLA+ | Code |
|---|---|
| `queue` | `shared.directory_queue`, without its order: no property and no caller depends on it |
| `outstanding`, `visit_failed`, `stats` | the atomics of `bc_io_walk_shared_t` |
| `pc`, `base`, `cur`, `item` | where a worker is, the directory it popped, the one it reads now, the entry at hand |
| `seen` | what the entry readers have returned; one reader per directory being read |
| `opened`, `visited`, `reported`, `stopped`, `late` | history: what the caller sees through callbacks and statistics |
| `Reject`, `Seed`, `Submit`, `Return` | `bc_io_walk_parallel` |
| `StartWorker`, `Poll`, `Pop`, `CheckOutstanding` | `bc_io_walk_worker_task` |
| `Enter`, `Iterate` (with `ClassifyEntry`), `Visit`, `FailVisit`, `CountSubdirectory`, `PushSubdirectory`, `WalkInline`, `Leave` | `bc_io_walk_process_directory` |

The recursion of an inline walk needs no stack in the model: a directory walked
inline is a child of the one before it on the call stack, so going back is
`cur' = Parent[cur]`, until `cur = base`.

*Atomicity.* A step makes at most one access to the queue, the count or the
flag. The counters of the statistics are only added to while workers run and
read when all have ended, so they ride along with a neighbouring step.

*Memory order.* The model interleaves. The count is added to before the push
(relaxed, but the push of a queue entry publishes it to whoever pops it) and
subtracted with release after the directory is done; a worker that reads zero
with acquire has therefore seen every addition: the last subtraction is by a
thread that had made or popped every addition that precedes it. The flag is
relaxed, and a worker can see it late; in the model that is the case where it
is set just after the load. The wording of `BoundedOvershoot` is about the
order of the flag's own modifications, not about time on a clock.

*Faults.* The constant `Faults` says which calls of the environment may fail.
`"pop"` is a pop that fails though the queue is not empty, which a lock-free
queue may do while a push is under way.

### The sequential walk

`WalkSequential` is the recursion of `bc_io_walk_sequential_recurse` on the same
`WalkEntry`; its call stack is the path from the root to `cur`. `descriptors` are
the directories whose descriptor is open. `Start` and the last `Leave` are
`bc_io_walk_sequential`, `Stop` is `should_stop_check` at either place where it
is asked, the other actions are the body of the recursion. It differs from the
parallel walk in three ways, all modelled: a reader is allocated for each
directory after it was opened and counted; the stop check is asked for every
entry, and again by each caller on the way up; and the failure of a visit is
seen at once.

### The stream

Bytes are numbered: the caller writes 1, 2, 3, ..., and a call offers the bytes
after those the earlier calls acknowledged. A file or a memory block holds 1, 2,
3, .... A lost, repeated or misplaced byte is then a wrong number.

| TLA+ | Code |
|---|---|
| `OpenFile`, `OpenFileDescriptor`, `OpenMemory` | `src/stream/bc_io_stream.c`, with every failing allocation |
| `WriteChunk`, `PreflushEnds`, `DirectEnds`, `Flush`, `FlushEnds` | `src/stream/bc_io_stream_write.c` |
| `WriteSome`, `WriteRefused`, `ReadSome`, `ReadStops` | the loops of `src/stream/bc_io_stream_io.c`, one system call a step |
| `ReadChunk`, `ReadMemory`, `ReadEnds` | `src/stream/bc_io_stream_read.c` |
| `Close`, `CloseEnds` | `bc_io_stream_close` |
| `FileGrows`, `FileShrinks` | somebody else appends to the file or pipe, or truncates the file |
| `dropped`, `grown`, `shrunk`, `accepted`, `device` | history, for the properties |

`bc_io_stream_open_file_descriptor` takes the kind of source from its caller,
memory too; such a stream has a descriptor and no bytes, and its reads end at
once. A descriptor may stand anywhere when it is passed in, behind the end of
the file too.

`EINTR`, and a `write` of zero bytes, change no state and are no step (the code
retries for ever: a descriptor that takes nothing for ever makes the call spin).

### The inode set

Every turn of the rounding, probing and rehashing loops is a step, so the
invariants hold between any two of them. The 64-bit mix is a constant function
`Mix`, and masking is a remainder because capacities are powers of two.
Shifting and the size multiplication are modulo or bounded by `SizeLimit`.

### The entry reader

`DirentReader` is one worker: `stack` holds the directories it is reading, the
innermost last, and `reader[k]` serves the `k`-th. `Enter` is the open and the
reset, `Call`, `Refill`, `TakeRecord`, `NoEntry` and `NextFails` are
`bc_io_dirent_reader_next`, `Leave` is the end of the loop over the directory.
Sizes are counted in records. The buffer keeps what was in it when a reader is
reset, as in the code. `Listing` is what the two walk modules assume of a reader
(their `seen`), and `ImplementsListing` shows that they may.

### Memory maps and read handles

Both modules acquire and release one resource a step; `held` is the balance of
each. `Mmap` lets the caller ask for the stream and the data, advise, unmap and
destroy in any order and any number of times, and read through a stream that it
got earlier, while others change the size of the file. `touched` records what an
access meets: memory, memory that was unmapped (`"gone"`), or a page behind the
end of the file (`"beyond"`, where the process gets `SIGBUS`). `ReadHandle` adds
the opening around it: the two opens of `bc_io_file_open_for_read`, the measuring
of the file, the choice by threshold, and the release of each thing acquired
when a later step fails; the destruction of a map, and the reading of its stream,
are `Mmap`'s. It extends `Mmap`, so its own actions and specification have names
of their own (`HandleSpec`).

### Paths

A buffer is a function from offsets to bytes that goes on behind its capacity, so
that a write too far is visible. `PathJoin` is the function on such memory, with
`size_t` arithmetic modulo `SizeLimit`. `WalkPath` walks from the root down: the
root as the caller gives it (with or without a zero at `root_length`), the join
into a buffer full of stale bytes, the copy into a cleared queue entry
(parallel) or the buffer itself (sequential).

### Modes, names and random bytes

`Perm` is a program that takes the mode of a file, or something that somebody
typed, and formats and parses it any number of times, and that looks names up.
The account database is external: a lookup answers or fails. `Random` is
`bc_io_random_bytes` with its two loops, a system call a step; `filled` counts
how often each byte was written, in the buffer and behind it. A thread may exit
and another start in its place, without a descriptor; nobody closes the one that
is left behind, which the code accepts. `bc_io_random_unsigned_integer_64` is a
call with a length of eight.

## Runs

| Run | Instance | What it shows |
|---|---|---|
| `walk_safety` | 3 workers (symmetric), a queue of 1, a chain of directories and a side branch | the count is exact at every step (`OutstandingExact`); a worker that leaves on a zero count is right (`NoEarlyTermination`); after a failed visit each worker makes at most one more (`BoundedOvershoot`); the statistics count distinct paths (`StatsExact`); refused tasks cost nothing while one is accepted (`OneTaskSuffices`) |
| `walk_refines` | 2 workers, a queue of 1, a tree with a followed link, a link and a file of unknown type, a hidden and an overlong entry | `WalkParallel` implements `Walk` (`ImplementsWalk`): a `true` result without a stop accounts for every entry asked for, and the statistics are exact; after one worker has drained the walk, nothing is opened or visited (`QuietAfterDrain`); the walk returns (`EventuallyReturns`) |
| `walk_sequential` | a nested tree with every awkward entry and every failure | it implements the same `Walk`, and returns (`ImplementsWalk`); a directory that was left is finished (`LeftMeansFinished`); descriptors are open for the calls under way only (`DescriptorsNested`); nothing happens after a failed visit (`FailureIsFinal`) |
| `stream` | buffer of 2, chunks up to 3, files up to 4, 4 calls | no acknowledged byte lost, repeated or reordered (`NoByteLost`), positions and statistics (`PositionsAgree`), what close may lose (`CloseLosesOnlyRefused`), reading in order (`InOrder`); the end is that of the file, all of it delivered unless it was truncated meanwhile (`EndMeansAll`), and final (`EndIsFinal`); remaining bytes wrap only once more was delivered of a grown file than it held at the open, and are otherwise never too few (`RemainingSuffices`); descriptors (`DescriptorOwnership`) |
| `inode_set` | 4 keys, buckets from 2 to 8 | probes find everything (`Reachable`), there is always an empty bucket (`LoadBound`), the table implements a set (`ImplementsSet`), calls return (`CallsReturn`) |
| `dirent_reader` | 3 directories of up to 4 records, 2 in a batch, inline walks 2 deep | what the walks see is a listing (`ImplementsListing`); the record answered last and the error are those of the directory being read, until the next call for it, across inline walks (`AnswersStay`); next returns (`NextReturns`) |
| `mmap` | files up to 5, pages of 2, offsets and lengths up to 7 | every resource is acquired and released once, on every path (`Accounted`); memory that is gone is only reached through a stream opened before the unmap, and a page behind the file only after a truncation or for a length that the caller chose (`TouchesLiveMemory`) |
| `read_handle` | files up to 4, around a default threshold of 2 | failed opens leave nothing behind, and destroyed handles at most the descriptor of a buffered stream (`LeavesOnlyDescriptor`); a mapped stream has its memory (`MemoryOutlivesStream`); the two sizes agree unless the file changes (`SizesAgree`) |
| `read_handle_release` | the same | violated: a destroyed handle has released everything (`DestroyReleasesResources`), see below |
| `walk_path` | buffers of 10, names up to 3, roots up to 11 | the path that is opened is the one that callbacks see and children begin with, and nothing is written behind a buffer (`OpensItsPath`); the join is right for any base and capacity (`JoinsAnyBuffer`) |
| `perm` | every mode of a regular file, every triple of nine letters in each place | what is formatted is parsed back, and names lead back to their accounts (`RoundTrips`); a typed text is accepted exactly if a formatter writes it, type character included, and then as the mode it is written for; octal digits with or without the leading zeros (`AcceptsPrintable`); the four ways to tell a type agree (`TypesAgree`) |
| `random` | 2 threads, 3 descriptors, buffers of up to 3 bytes | every byte is written once and none behind the buffer (`FilledOnce`); every thread keeps its own descriptor (`DescriptorsKept`) |

`TypeOK` is checked by itself in `WalkParallel`, and elsewhere as the first
conjunct of one of the invariants above, or, in `Random`, proved.

### A disagreement

`read_handle_release` finds that destroying a *buffered* read handle leaves its
descriptor open. `bc_io_file_open_auto` hands the descriptor to
`bc_io_stream_open_file_descriptor` (`src/file/bc_io_file_open.c:124`), which does
not take ownership, and the handle has no field for it, so nobody can close it.
`tests/test_bc_io_file_open.c:214` is named
`test_read_handle_destroy_releases_resources`, and makes the call for a large
file only, whose handle is mapped; that one does release everything. The stream
of `bc_io_file_open_read` has the same fault. Two more places are stated as they
are, inside properties that pass: a stream taken from a map before an unmap is
handed out again after it (`TouchesLiveMemory`), and a root without a zero at
`root_length` is opened by a longer path than it is listed under by the
sequential walk (`OpensItsPath`).

### Bounds

- *Walk.* A queue of one is full as soon as one directory waits, so inline
  walks happen, and nest, in the chain `r`, `a`, `aa`. Three workers are enough
  for one to be idle at the count while a second counts a subdirectory and a
  third takes the last one. The full tree has one entry for each branch of the
  classification; the filter rejects an entry of the deep one. `"submit"` is
  left out of `walk_refines`: the code does not look at what
  `bc_concurrency_submit` returns, so a walk with no accepted task returns
  `true` having visited nothing. `OneTaskSuffices`, in `walk_safety`, says that
  this is the only case.
- *Sequential walk.* The nested tree has three levels and, in one directory, a
  subdirectory, an overlong path, a filtered file and a link of unknown type, so
  that whatever goes wrong with one of them there are siblings left to lose.
- *Stream.* With a buffer of 2 a chunk may fit, fit only after a flush, equal
  the buffer or exceed it; four calls make a partial flush, another chunk behind
  the rest, a second flush and a close. A file of 4 takes two full buffers and
  leaves room to grow; it may be truncated to any size, before the descriptor or
  behind it.
- *Set.* `z` (the all-zero key) and `a` collide in the last bucket of every
  table, so probes wrap; `b` and `c` collide until the table grows. With
  `SizeLimit` 32 and 3 bytes a bucket, a table of 16 cannot be allocated: a
  creation meets the limit, and the rounding loop runs up to it. Four keys never
  ask for a grow to 16; a grow fails there by an allocation that fails.
- *Entry reader.* A batch of 2 may hold two dots, one, or none; one directory
  has its dots first, one apart with the last record among them, one has nothing
  else. With a depth of 2 an inline walk happens in the middle of a batch, and
  three directories make a reader be used again after an inline walk.
- *Maps and handles.* With pages of 2 and sizes up to 5 a file may end in the
  middle of a page, at its end, or before the map begins; lengths up to 7 reach a
  page further. Thresholds are 0 (the default, 2), 1 and 4, below, at and above
  the size of the file.
- *Paths.* With a buffer of 10 and names of up to 3, paths of every length from 1
  to the limit occur, some after several joins, and a root of 10 or 11 must be
  refused.
- *Modes.* All 4096 permission modes; texts vary one triple at a time, since the
  triples are parsed independently. Names of 1 to 6 letters meet a buffer of 5.
- *Random bytes.* Two threads can be between the check and the open at the same
  time; three descriptors are used up by one that exits twice.

### Fairness

`walk_refines` assumes weak fairness of the calling thread and of each worker
separately: accepted tasks run on threads of their own, and the operating
system schedules every thread. It also assumes what the code relies on: the
callbacks return and the tree is finite. Spurious failures of `pop` are excluded
there, since a queue that refuses for ever though it holds something would keep
any worker spinning; `walk_safety` has them. `walk_sequential`, `inode_set` and
`dirent_reader` assume that the code of a call runs on until the call returns, and
nothing about the caller. `CallsReturn` says where the rounding loop of the inode
set ends: for requests up to half the range. Above that the shift leaves zero and
the loop does not end.

## Proofs

Every theorem below holds for every value of the constants that satisfies the
named assumptions. All invariants that the proofs use, the strengthened ones
too, were checked with TLC on the instances above before they were proved.

### The parallel walk (`WalkParallelProofs`)

For every tree, every finite set of workers, every positive capacity and every
set of faults:

- `TypeCorrect`: `Spec => []TypeOK`; in particular the count is never negative,
  though some paths subtract from it in two places.
- `CountIsExact`: `Spec => []OutstandingExact`.
- `TerminationIsSound`: `Spec => []NoEarlyTermination`.
- `DrainIsQuiet`: `Spec => QuietAfterDrain`.
- `OvershootIsBounded`: `Spec => []BoundedOvershoot`.
- `StatsAreExact`: `Spec => []StatsExact`.
- `OneTaskIsEnough`: `Spec => []OneTaskSuffices`.
- `ParallelIsWalk`: `Spec => ImplementsWalk`, where there is a worker and
  `"submit"` is not among the faults. The hypothesis is needed: the code does not
  look at what `bc_concurrency_submit` returns, and a walk none of whose tasks was
  accepted returns `true` having visited nothing. `OneTaskIsEnough`, which needs
  no such hypothesis, says that one accepted task is enough.

Assumptions: `EntryAssumption` (the types of the tree's constants) and
`WalkAssumption` (finitely many entries and workers, a positive capacity). They
do not say that the paths form a tree, and the proofs do not need it.

The first inductive invariant is `TypeOK /\ Phases /\ Handover /\
OutstandingExact`. `OutstandingExact` alone is not inductive: the queue is a set,
so a push adds one to its size only if the directory is not in it. `Handover`
gives that: an entry between the reader and the queue is in the hands of one
worker, has been returned by a reader, and is not in the queue, because a reader
returns an entry once. `Phases` says that no worker runs before the tasks are
submitted. The lemma `AtLabels` says how the number of workers at given labels
changes when one of them moves; with it each action is a small sum.
`NoEarlyTermination` then follows step by step: when a worker reads zero, all
three terms are zero; and from then on nobody can pop, so nobody can count or
push. `BoundedOvershoot` rests on a stronger invariant of its own: a worker that
has made its late visit is past the point where it could make another without
loading the flag.

The statistics and the refinement need to know which entries are where:

- `Fresh`: what waits in the queue or is in the hands of a worker is in one place
  only, and has not been opened or visited. With it each count is of a path that
  was not counted before.
- `Rooted`: whatever a worker reads is *below* the directory it popped, and there
  is a reason to enter it. `Below(d, b)` is defined with sets closed under `Parent`
  instead of by recursion; that it is transitive, that going back to `Parent`
  stays below, and that nothing below the root is below itself by a detour
  (`BelowOnce`) is proved from that. The last of these is where it is shown that
  the return from an inline walk goes to a directory that is still open.
- `Work`: as long as nothing has stopped the walk, every entry that was read is
  accounted for or is being visited; every directory with a reason to be entered
  is accounted for, queued or in hand; every opened directory has been read whole,
  or reported, or some worker is at work at or below it.
- `Ending`: a worker that left before the count was zero did so because of a
  failed visit or the stop.

When the last worker has ended, `NoEarlyTermination` says that the queue is
empty and nobody holds anything, so what is left of `Work` is `Complete`.

### The sequential walk (`WalkSequentialProofs`)

For every tree, option and set of faults, from `EntryAssumption` and
`FaultAssumption` (finitely many entries):

- `FailureEndsWalk`: `Spec => FailureIsFinal`.
- `DescriptorsAreNested`: `Spec => []DescriptorsNested`.
- `LeftIsFinished`: `Spec => []LeftMeansFinished`.
- `SequentialIsWalk`: `Spec => Promise!Spec`, the refinement of `Walk` without the
  fact that the walk returns, which `ImplementsWalk` adds and TLC checks.

`OnPath` is a recursive function, and nothing in the assumptions makes `Parent`
well founded. That the equation it is defined by has a solution is proved by
exhibiting one: the least set closed under `Parent` (`Ancestors`,
`AncestorsEquation`). `Nesting` says that the descriptors are those of the path,
and `Simple` that no directory is below itself on it, because an entry is read
once: without that a `Leave` could close the descriptor of an outer call. `Once`
and `Work` are as for the parallel walk, with one call where there were many
workers.

### The stream (`StreamProofs`)

For every buffer size, every size of a chunk and every outcome of the system
calls, from `StreamAssumption` (a positive buffer size, and a size that fits
`size_t`):

- `BytesAreKept`: `Spec => []NoByteLost`. The inductive invariant adds `Counts`
  (ranges) and `Protocol`: a flush works on the whole buffer and a direct write
  finds it empty. Without `Protocol` a step of a direct write could be taken
  with bytes still in the buffer, which it would overtake. The argument is in
  three lemmas: appending what `write(2)` took (`InvWriteSome`), moving the rest
  to the front (`RestCompacted`), and putting a chunk behind it
  (`ChunkBuffered`).
- `CloseKeepsBytes`: `Spec => []CloseLosesOnlyRefused`; with `Running`, which says
  that a loop of writes belongs to an open stream and ends early only if it was
  refused something: any other close ends with an empty buffer.
- `PositionsAreRight`: `Spec => []PositionsAgree`; each step moves position,
  acknowledged bytes and counter by the same amount, or none of them.
- `ReadsAreInOrder`: `Spec => []InOrder`; inductive with `Filling`, which says
  that the loop under way has filled the front of the buffer in order.
- `EndStays`: `Spec => EndIsFinal`; the end is only reached on a stream opened
  for reading when no loop runs (`EndIsQuiet`), and no call starts one then.
- `EndIsTheEnd`: `Spec => []EndMeansAll`, and `RemainingIsEnough`:
  `Spec => []RemainingSuffices`. `AtEnd` says that the end was met at or behind the
  end of a file that did not grow, `Sized` that the size asked for at the open is
  right while the file does not change and not too small while it does not grow,
  `Behind` that what was delivered, dropped or is being read (`Taken`) is no more
  than the descriptor has passed, nor, unless the file grew, than the size at the
  open. So the subtraction of `remaining_bytes` wraps only on a file that grew and
  of which more was delivered than it held at the open; there it does wrap, in the
  code as in the model.
- `DescriptorIsOwned`: `Spec => []DescriptorOwnership`, which includes the types of
  all variables.

### The inode set (`InodeSetProofs`)

For every set of keys, every hash, every capacity and every limit of `size_t`,
from `SetAssumption`:

- `EntriesAreFound`: `Spec => []Reachable`.
- `LoadIsBounded`: `Spec => []LoadBound`.
- `TableImplementsSet`: `Spec => ImplementsSet`.

The lemmas are about any table of n buckets, since a grow works on two. The
crucial ones are about the order in which a probe passes buckets around the end
of the table: filling the bucket at which a probe has stopped keeps every other
entry in reach (`PutReaches`). `Probing` says that what a probe has passed is
taken by other keys, so that an insert that reaches an empty bucket inserts a new
key, and a lookup that does may say no. `Growing` says that the new table holds
exactly the keys of the old buckets dealt with so far; when a grow fails, the old
table has not been touched. `Loads` leaves a quarter of the buckets empty: an
insert probes only with room for its element.

### The entry reader (`DirentReaderProofs`)

For every set of directories, every order of dots among the records, every size
of the buffer and of the batches, and every depth of inline walks, from
`ReaderAssumption`:

- `AnswersAreStable`: `Spec => []AnswersStay`.
- `ReaderImplementsListing`: `Spec => ImplementsListing`.

The inductive invariant says for each directory on the stack that its reader's
buffer holds the last records read of that very directory, in order (`Serves`);
what was delivered is then the entries among the records before the cursor, so
the next record has not been delivered, and at the end all have. `Stacked`, which
says that the directories on the stack differ and all but the last are being
listed, is what makes a step on one of them leave the readers of the others
alone.

### The map and the read handle (`ReadHandleProofs`)

For every page size, file size, request and threshold, from `MmapAssumption`
and `HandleAssumption` (sizes are numbers, a page and a chunk are not empty,
sizes fit `size_t`, and the default threshold is not zero):

- `ResourcesAreAccounted`: `Spec => []Accounted`, and `OnlyDescriptorIsLeft`:
  `HandleSpec => []LeavesOnlyDescriptor`. The properties count; to be inductive
  they must say at each step what is held, resource by resource (`MapHolds`,
  `Holds`), and that takes what is known there of the map and the handle
  (`MapShape`, `Stage`, `MapStage`).
- `MemoryIsLive`: `Spec => []TouchesLiveMemory`; `Covered` says how far the memory
  and the stream reach into the file, and that a stream outlives its memory only
  by an unmap that the caller asked for.
- `MemoryIsThere`: `HandleSpec => []MemoryOutlivesStream`, and `SizesAreRight`:
  `HandleSpec => []SizesAgree`.

### Paths (`WalkPathProofs`)

For every length of a buffer, of a root and of a name, from `PathAssumption` and
`LengthAssumption` (lengths are numbers, and those of a path, a name, a slash and
a zero fit `size_t`):

- `JoinIsCorrect`: what `bc_io_file_path_join` does for *every* buffer, capacity,
  base and name whose lengths can be added: it writes the base, a slash (always:
  a base that ends in one gets a second), the name and a zero, or for an empty
  base the name and a zero only, if that fits the capacity; else it writes
  nothing. `StoreAppends` says what one copy does to a buffer that begins
  with known bytes; the join is three copies.
- `WalksJoinAnyBuffer`: `Spec => []JoinsAnyBuffer`, from it.
- `DirectoriesOpenTheirPaths`: `Spec => []OpensItsPath`. It is inductive with the
  length of the name at hand: the path of a directory is the base of the next
  join, and the copy into a queue entry or the buffer that is passed on keeps
  path and zero.

### Modes and names (`UtilityProofs`)

For every set of files with modes of 16 bits, every text of characters or digits,
every set of accounts without common names and every capacity, from
`PermAssumption`:

- `TextsKeepPermissions`: for every mode, what either formatter writes is parsed
  back to all twelve permission bits. `BitsAddUp` says that the bits of a mode add
  up to it, so the human form is three triples that are parsed one by one; the
  octal form has at most four digits, so its loop is unfolded and needs no
  induction (`OctalValueOf`).
- `PermissionsRoundTrip`: `Spec => []RoundTrips`.
- `ParserAcceptsPrintable`: `Spec => []AcceptsPrintable`.
- `FileTypesAgree`: `Spec => []TypesAgree`.

The properties speak of the moment after a parse. To be inductive, the invariant
has to say at each step where the text at hand came from (`Traced`): from an
account, from a mode with the permissions of the file, or from a text that was
typed and, once parsed, from the mode that the formatter writes as that very text,
for one of the file types or without its character (`Written`), or as those digits
behind leading zeros (`Numbered`). A typed text that was refused is one that no
mode of any type is written as: a character of it is none that the formatter
writes there, or it has a wrong length.

### Random bytes (`UtilityProofs`)

For every set of threads, every length and every supply of descriptors, from
`RandomAssumption` (numbers where numbers are needed, and no descriptor is
negative):

- `RandomTypeCorrect`: `RandomSpec => []RandomTypeOK`: the output offset and the
  remaining count never go below zero.
- `BytesAreFilled`: `RandomSpec => []FilledOnce`. The inductive invariant is
  `FilledSoFar`: offset and remaining count add up to the length, the bytes
  before the offset have been written once and the others not at all. It holds
  across the change from `getrandom` to `read`, which is the point.
- `DescriptorsAreKept`: `RandomSpec => []DescriptorsKept`, inductive with `SlotPhase`: a
  thread about to open has no descriptor, and one that has exited has given its
  descriptor up. Without it the open could overwrite a descriptor, or a start
  forget one.

### Only model-checked

Every invariant of a passing run is stated by a theorem. What remains with TLC is
liveness, which the proof system does not do: `EventuallyReturns`, `CallsReturn`,
`NextReturns`, and in the sequential walk that it returns. The arguments of
*Memory order* above, and that the bounds and the fairness are those of the code,
are not formal at all.

## Not modelled

- `posix_fadvise`, `madvise` and `bc_io_file_advise` hints, default buffer sizes
  and alignment: no effect on state. The offset and length of `bc_io_mmap_advise`,
  which the code passes on as they come, are left to the kernel.
- `bc_io_path_current_directory`: one call of `getcwd`.
- The attributes copied into a walk entry (size, times, device, permissions,
  depth) and by `bc_io_file_stat`: data that no decision depends on, except the
  mode.
- Getters that return a field. `retry_count` of a stream's statistics is never
  updated by the code.
- What the account database answers: libc.
- Tests, benchmarks and fuzzing drivers: they use the library.
- The libraries underneath appear only as the outcomes their callers see.

## Plan

Nothing of the first plan is left. When the code changes, the definition that
`PROJECT.json` maps to the changed lines is the one to look at first; then its
run, then the theorems of its module. If the read
handle gets a field for its descriptor and closes it, `DestroyReleasesResources`
takes the place of `LeavesOnlyDescriptor`, in the run and in the theorem.
