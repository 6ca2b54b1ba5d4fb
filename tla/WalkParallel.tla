---------------------------- MODULE WalkParallel ----------------------------
(***************************************************************************)
(* bc_io_walk_parallel: worker tasks share a bounded queue of directories, *)
(* a count of outstanding directories that tells an idle worker when the   *)
(* walk is over, and a flag that tells all of them that a visit failed.    *)
(* A worker whose push finds the queue full walks the subdirectory itself, *)
(* recursively, before it goes on with the directory it was reading.       *)
(*                                                                         *)
(* A step makes at most one access to the queue, the count or the flag;    *)
(* the code between two such accesses is local to the worker, except for   *)
(* the statistics, which are only added to until all workers have ended.   *)
(***************************************************************************)
EXTENDS WalkEntry, Integers, FiniteSets

CONSTANTS
  Workers,     \* one task per effective worker of the concurrency context
  Capacity,    \* how many directories the queue holds
  Faults       \* which calls of the environment may fail

FaultKinds ==
  {"setup", "push", "pop", "submit", "dispatch", "alloc", "open", "getdents64",
   "stat", "visit", "stop"}

ASSUME WalkAssumption ==
  /\ IsFiniteSet(Entries)
  /\ IsFiniteSet(Workers)
  /\ Capacity \in Nat \ {0}
  /\ Faults \subseteq FaultKinds

VARIABLES
  queue,          \* shared: directories waiting for a worker
  outstanding,    \* shared: outstanding_directory_count
  visit_failed,   \* shared: the flag that ends the walk early
  stats,          \* shared: the four counters
  pc,             \* where each worker is
  base,           \* the directory the worker popped
  cur,            \* the directory it reads: base, or one below it inline
  item,           \* the entry it handles
  seen,           \* entries a directory reader has returned
  main,           \* where the calling thread is
  result,         \* what bc_io_walk_parallel returned
  opened, visited, reported, stopped,  \* history: what the caller observes
  late            \* history: visits a worker made once the flag was set

shared == <<queue, outstanding, visit_failed>>
history == <<opened, visited, reported, stopped, late>>
local == <<base, cur, item, seen>>
vars == <<shared, stats, pc, local, main, result, history>>

Stages == {"open", "getdents64", "path-too-long", "stat", "dirent-reader-alloc"}

Counters == {"files", "directories", "skipped", "errors"}

Ended == {"idle", "drained", "exited"}
Searching == {"start", "loop", "pop", "check"}
Pushing == {"push", "uncount"}
Processing == {"enter", "iterate", "visit", "fail", "count", "leave"} \cup Pushing

Init ==
  /\ queue = {} /\ outstanding = 0 /\ visit_failed = FALSE
  /\ stats = [c \in Counters |-> 0]
  /\ pc = [w \in Workers |-> "idle"]
  /\ base = [w \in Workers |-> Root]
  /\ cur = [w \in Workers |-> Root]
  /\ item = [w \in Workers |-> Root]
  /\ seen = {}
  /\ main = "setup" /\ result = "none"
  /\ opened = {} /\ visited = {} /\ reported = {} /\ stopped = FALSE
  /\ late = [w \in Workers |-> 0]

Goto(w, label) == pc' = [pc EXCEPT ![w] = label]

Count(counter) == stats' = [stats EXCEPT ![counter] = @ + 1]

ReportError(path, stage) ==
  /\ Count("errors")
  /\ reported' = reported \cup {<<path, stage>>}

NoError == UNCHANGED <<stats, reported>>

-----------------------------------------------------------------------------
(* The calling thread. *)

(* A rejected configuration, or no memory for the queue. *)
Reject ==
  /\ main = "setup" /\ "setup" \in Faults
  /\ main' = "done" /\ result' = "false"
  /\ UNCHANGED <<shared, stats, pc, local, history>>

(* The root is counted and pushed before any worker exists. *)
Seed ==
  /\ main = "setup"
  /\ outstanding' = 1
  /\ \/ queue' = {Root} /\ main' = "submit" /\ UNCHANGED result
     \/ "push" \in Faults /\ main' = "done" /\ result' = "false" /\ UNCHANGED queue
  /\ UNCHANGED <<visit_failed, stats, pc, local, history>>

(* What bc_concurrency_submit returns is not looked at: where a submission *)
(* fails, the walk runs on the tasks that were accepted, be it none.       *)
Submit ==
  /\ main = "submit"
  /\ \E accepted \in SUBSET Workers :
       /\ accepted = Workers \/ "submit" \in Faults
       /\ pc' = [w \in Workers |-> IF w \in accepted THEN "start" ELSE "idle"]
  /\ main' = "wait"
  /\ UNCHANGED <<shared, stats, local, result, history>>

(* bc_concurrency_dispatch_and_wait returns once every task has ended. *)
Return ==
  /\ main = "wait" /\ \A w \in Workers : pc[w] \in Ended
  /\ main' = "done"
  /\ queue' = {}
  /\ \/ result' = IF visit_failed THEN "false" ELSE "true"
     \/ "dispatch" \in Faults /\ result' = "false"
  /\ UNCHANGED <<outstanding, visit_failed, stats, pc, local, history>>

-----------------------------------------------------------------------------
(* bc_io_walk_worker_task. *)

StartWorker(w) ==
  /\ pc[w] = "start"
  /\ \/ Goto(w, "loop") /\ NoError /\ UNCHANGED visit_failed
     \/ /\ "alloc" \in Faults
        /\ Goto(w, "exited") /\ visit_failed' = TRUE
        /\ ReportError(Root, "dirent-reader-alloc")
  /\ UNCHANGED <<queue, outstanding, local, main, result, opened, visited, stopped, late>>

Poll(w) ==
  /\ pc[w] = "loop"
  /\ \/ "stop" \in Faults /\ stopped' = TRUE /\ Goto(w, "exited")
     \/ Goto(w, IF visit_failed THEN "exited" ELSE "pop") /\ UNCHANGED stopped
  /\ UNCHANGED <<shared, stats, local, main, result, opened, visited, reported, late>>

(* The queue promises no order; an empty one makes the pop fail. *)
Pop(w) ==
  /\ pc[w] = "pop"
  /\ \/ \E d \in queue :
          /\ queue' = queue \ {d}
          /\ base' = [base EXCEPT ![w] = d]
          /\ cur' = [cur EXCEPT ![w] = d]
          /\ Goto(w, "enter")
     \/ /\ queue = {} \/ "pop" \in Faults
        /\ Goto(w, "check") /\ UNCHANGED <<queue, base, cur>>
  /\ UNCHANGED <<outstanding, visit_failed, stats, item, seen, main, result, history>>

CheckOutstanding(w) ==
  /\ pc[w] = "check"
  /\ Goto(w, IF outstanding = 0 THEN "drained" ELSE "loop")
  /\ UNCHANGED <<shared, stats, local, main, result, history>>

-----------------------------------------------------------------------------
(* bc_io_walk_process_directory on cur[w]. *)

(* Variant: the directory is counted before the flag and the open are checked. *)
EnterCountingFirst(w) ==
  /\ pc[w] = "enter"
  /\ Count("directories")
  /\ \/ visit_failed /\ Goto(w, "leave") /\ UNCHANGED opened
     \/ ~ visit_failed /\ opened' = opened \cup {cur[w]} /\ Goto(w, "iterate")
  /\ UNCHANGED <<shared, local, main, result, visited, reported, stopped, late>>

Enter(w) ==
  /\ pc[w] = "enter"
  /\ \/ visit_failed /\ Goto(w, "leave") /\ NoError /\ UNCHANGED opened
     \/ /\ ~ visit_failed /\ "open" \in Faults
        /\ ReportError(cur[w], "open") /\ Goto(w, "leave") /\ UNCHANGED opened
     \/ /\ ~ visit_failed
        /\ Count("directories") /\ opened' = opened \cup {cur[w]}
        /\ Goto(w, "iterate") /\ UNCHANGED reported
  /\ UNCHANGED <<shared, local, main, result, visited, stopped, late>>

(* What becomes of the entry the reader returned, up to the callback. *)
ClassifyEntry(w, e) ==
  \/ Skipped(e) /\ Goto(w, "iterate") /\ NoError
  \/ /\ ~ Skipped(e) /\ e \in TooLong
     /\ ReportError(cur[w], "path-too-long") /\ Goto(w, "iterate")
  \/ /\ ~ Skipped(e) /\ e \notin TooLong /\ NeedsStat(e) /\ "stat" \in Faults
     /\ ReportError(e, "stat") /\ Goto(w, "iterate")
  \/ /\ ~ Skipped(e) /\ e \notin TooLong /\ e \notin Accepted
     /\ Count("skipped") /\ Goto(w, "iterate") /\ UNCHANGED reported
  \/ /\ ~ Skipped(e) /\ e \notin TooLong /\ e \in Accepted
     /\ Goto(w, IF Visitable(e) THEN "visit" ELSE "iterate") /\ NoError

(* Variant: the flag is not loaded between two entries. *)
IterateIgnoringFailure(w) ==
  /\ pc[w] = "iterate"
  /\ \/ /\ Children(cur[w]) \subseteq seen
        /\ Goto(w, "leave") /\ NoError /\ UNCHANGED <<seen, item>>
     \/ \E e \in Children(cur[w]) \ seen :
          /\ seen' = seen \cup {e} /\ item' = [item EXCEPT ![w] = e]
          /\ ClassifyEntry(w, e)
  /\ UNCHANGED <<shared, base, cur, main, result, opened, visited, stopped, late>>

Iterate(w) ==
  /\ pc[w] = "iterate"
  /\ \/ visit_failed /\ Goto(w, "leave") /\ NoError /\ UNCHANGED <<seen, item>>
     \/ /\ ~ visit_failed /\ "getdents64" \in Faults
        /\ ReportError(cur[w], "getdents64") /\ Goto(w, "leave")
        /\ UNCHANGED <<seen, item>>
     \/ /\ ~ visit_failed /\ Children(cur[w]) \subseteq seen
        /\ Goto(w, "leave") /\ NoError /\ UNCHANGED <<seen, item>>
     \/ \E e \in Children(cur[w]) \ seen :
          /\ ~ visit_failed
          /\ seen' = seen \cup {e} /\ item' = [item EXCEPT ![w] = e]
          /\ ClassifyEntry(w, e)
  /\ UNCHANGED <<shared, base, cur, main, result, opened, visited, stopped, late>>

Visit(w) ==
  /\ pc[w] = "visit"
  /\ IF EntryKind(item[w]) = "file" THEN Count("files") ELSE UNCHANGED stats
  /\ visited' = visited \cup {item[w]}
  /\ late' = IF visit_failed THEN [late EXCEPT ![w] = @ + 1] ELSE late
  /\ \/ Goto(w, IF Descends(item[w]) THEN "count" ELSE "iterate")
     \/ "visit" \in Faults /\ Goto(w, "fail")
  /\ UNCHANGED <<shared, local, main, result, opened, reported, stopped>>

FailVisit(w) ==
  /\ pc[w] = "fail"
  /\ visit_failed' = TRUE
  /\ Goto(w, "leave")
  /\ UNCHANGED <<queue, outstanding, stats, local, main, result, history>>

(* Variant: the subdirectory is pushed without having been counted. *)
PushUncounted(w) ==
  /\ pc[w] = "count"
  /\ Goto(w, "push")
  /\ UNCHANGED <<shared, stats, local, main, result, history>>

CountSubdirectory(w) ==
  /\ pc[w] = "count"
  /\ outstanding' = outstanding + 1
  /\ Goto(w, "push")
  /\ UNCHANGED <<queue, visit_failed, stats, local, main, result, history>>

PushSubdirectory(w) ==
  /\ pc[w] = "push"
  /\ \/ /\ Cardinality(queue) < Capacity
        /\ queue' = queue \cup {item[w]} /\ Goto(w, "iterate")
     \/ /\ Cardinality(queue) >= Capacity \/ "push" \in Faults
        /\ Goto(w, "uncount") /\ UNCHANGED queue
  /\ UNCHANGED <<outstanding, visit_failed, stats, local, main, result, history>>

(* Variant: the count is not taken back when the push has failed. *)
WalkInlineCounted(w) ==
  /\ pc[w] = "uncount"
  /\ cur' = [cur EXCEPT ![w] = item[w]]
  /\ Goto(w, "enter")
  /\ UNCHANGED <<shared, stats, base, item, seen, main, result, history>>

(* Variant: without a reader the subdirectory is dropped without a report. *)
WalkInlineSilently(w) ==
  /\ pc[w] = "uncount"
  /\ outstanding' = outstanding - 1
  /\ \/ cur' = [cur EXCEPT ![w] = item[w]] /\ Goto(w, "enter")
     \/ "alloc" \in Faults /\ Goto(w, "iterate") /\ UNCHANGED cur
  /\ UNCHANGED <<queue, visit_failed, stats, base, item, seen, main, result, history>>

(* The fallback: a reader of its own and a recursive call, or a report. *)
WalkInline(w) ==
  /\ pc[w] = "uncount"
  /\ outstanding' = outstanding - 1
  /\ \/ /\ cur' = [cur EXCEPT ![w] = item[w]]
        /\ Goto(w, "enter") /\ NoError
     \/ /\ "alloc" \in Faults
        /\ ReportError(item[w], "dirent-reader-alloc")
        /\ Goto(w, "iterate") /\ UNCHANGED cur
  /\ UNCHANGED <<queue, visit_failed, base, item, seen, main, result,
                 opened, visited, stopped, late>>

(* Variant: the claim is given up on the way back from an inline walk too. *)
LeaveReleasing(w) ==
  /\ pc[w] = "leave"
  /\ outstanding' = outstanding - 1
  /\ \/ cur[w] = base[w] /\ Goto(w, "loop") /\ UNCHANGED cur
     \/ /\ cur[w] # base[w]
        /\ cur' = [cur EXCEPT ![w] = Parent[cur[w]]] /\ Goto(w, "iterate")
  /\ UNCHANGED <<queue, visit_failed, stats, base, item, seen, main, result, history>>

(* Back to the task loop, which gives up its claim on the directory, or to *)
(* the directory whose entry was walked inline.                            *)
Leave(w) ==
  /\ pc[w] = "leave"
  /\ \/ /\ cur[w] = base[w]
        /\ outstanding' = outstanding - 1
        /\ Goto(w, "loop") /\ UNCHANGED cur
     \/ /\ cur[w] # base[w]
        /\ cur' = [cur EXCEPT ![w] = Parent[cur[w]]]
        /\ Goto(w, "iterate") /\ UNCHANGED outstanding
  /\ UNCHANGED <<queue, visit_failed, stats, base, item, seen, main, result, history>>

-----------------------------------------------------------------------------
Main == Reject \/ Seed \/ Submit \/ Return

Worker(w) ==
  \/ StartWorker(w) \/ Poll(w) \/ Pop(w) \/ CheckOutstanding(w)
  \/ Enter(w) \/ Iterate(w) \/ Visit(w) \/ FailVisit(w)
  \/ CountSubdirectory(w) \/ PushSubdirectory(w) \/ WalkInline(w) \/ Leave(w)

Returned == main = "done" /\ UNCHANGED vars

Next == Main \/ (\E w \in Workers : Worker(w)) \/ Returned

Spec == Init /\ [][Next]_vars

(* Every accepted task runs on a thread of its own, and the caller waits. *)
FairSpec == Spec /\ WF_vars(Main) /\ \A w \in Workers : WF_vars(Worker(w))

-----------------------------------------------------------------------------
TypeOK ==
  /\ queue \subseteq Entries
  /\ outstanding \in Nat
  /\ visit_failed \in BOOLEAN
  /\ stats \in [Counters -> Nat]
  /\ pc \in [Workers -> Ended \cup Searching \cup Processing]
  /\ base \in [Workers -> Entries]
  /\ cur \in [Workers -> Entries]
  /\ item \in [Workers -> Entries]
  /\ seen \subseteq Entries
  /\ main \in {"setup", "submit", "wait", "done"}
  /\ result \in {"none", "true", "false"}
  /\ opened \subseteq Entries
  /\ visited \subseteq Entries
  /\ reported \subseteq Entries \X Stages
  /\ stopped \in BOOLEAN
  /\ late \in [Workers -> Nat]

Claimed == {w \in Workers : pc[w] \in Processing}
Announcing == {w \in Workers : pc[w] \in Pushing}

(***************************************************************************)
(* The count that ends the walk is exact at every step: one for each       *)
(* directory in the queue, one for each popped directory not yet finished, *)
(* and one for each subdirectory counted whose push has not succeeded or   *)
(* been taken back.  A directory walked inline has none of its own: it is  *)
(* covered by the popped directory it lies under.                          *)
(***************************************************************************)
OutstandingExact ==
  main \in {"submit", "wait"} =>
    outstanding = Cardinality(queue) + Cardinality(Claimed) + Cardinality(Announcing)

(***************************************************************************)
(* A worker that leaves because outstanding_directory_count was zero is    *)
(* right: no directory waits, and no other worker is in one or is about to *)
(* add one.                                                                *)
(***************************************************************************)
NoEarlyTermination ==
  (\E w \in Workers : pc[w] = "drained") => queue = {} /\ Claimed = {}

(***************************************************************************)
(* After one worker has left that way, no directory is opened and no entry *)
(* visited any more.                                                       *)
(***************************************************************************)
QuietAfterDrain ==
  [][(\E w \in Workers : pc[w] = "drained") => UNCHANGED <<opened, visited>>]_vars

(***************************************************************************)
(* Once visit_failed is set, each worker calls visit at most once more:    *)
(* the flag is loaded before every entry, also when an inline walk goes    *)
(* back to the directory it started from.                                  *)
(***************************************************************************)
BoundedOvershoot == \A w \in Workers : late[w] <= 1

Abstract == INSTANCE Walk WITH failed <- visit_failed

(***************************************************************************)
(* The statistics are exact at every step: files_visited and               *)
(* directories_visited count distinct paths, so no file is visited and no  *)
(* directory opened twice, by whichever worker; and errors_encountered is  *)
(* zero exactly if on_error was never called.                              *)
(***************************************************************************)
StatsExact == Abstract!StatsExact

(***************************************************************************)
(* The walk does what Walk says of every walk: see Walk!Complete for what  *)
(* a true result means.                                                    *)
(***************************************************************************)
ImplementsWalk == Abstract!Spec

(***************************************************************************)
(* Tasks that bc_concurrency_submit refuses, which nobody notices, cost    *)
(* nothing as long as one is accepted: a walk that returns true is         *)
(* complete, or was stopped, or had no worker at all.                      *)
(***************************************************************************)
OneTaskSuffices ==
  result = "true" /\ ~ stopped => Abstract!Complete \/ \A w \in Workers : pc[w] = "idle"

(***************************************************************************)
(* As long as the callbacks return, the walk returns: no worker waits for  *)
(* a count that nobody will bring to zero.                                 *)
(***************************************************************************)
EventuallyReturns == <>(result # "none")
==============================================================================
