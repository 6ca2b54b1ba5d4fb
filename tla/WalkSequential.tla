--------------------------- MODULE WalkSequential ---------------------------
(***************************************************************************)
(* bc_io_walk_sequential: one thread walks the tree depth first, by        *)
(* recursion.  The call stack is the path from the root to cur, so a       *)
(* return goes to Parent[cur].  Callbacks and system calls are separate    *)
(* steps, so that what the caller can observe between them is a state.     *)
(***************************************************************************)
EXTENDS WalkEntry, FiniteSets

CONSTANT Faults     \* which calls of the environment may fail

FaultKinds == {"setup", "alloc", "open", "getdents64", "stat", "visit", "stop"}

ASSUME FaultAssumption == IsFiniteSet(Entries) /\ Faults \subseteq FaultKinds

VARIABLES
  pc,             \* where the innermost call is
  cur,            \* its directory
  item,           \* the entry it handles
  seen,           \* entries a directory reader has returned
  descriptors,    \* directories whose descriptor is open
  visit_failed, stats, result,
  opened, visited, reported, stopped   \* history: what the caller observes

history == <<opened, visited, reported, stopped>>
vars == <<pc, cur, item, seen, descriptors, visit_failed, stats, result, history>>

Stages == {"open", "getdents64", "path-too-long", "stat", "dirent-reader-alloc"}

Counters == {"files", "directories", "skipped", "errors"}

Labels == {"start", "enter", "reader", "iterate", "visit", "fail", "leave", "done"}

Init ==
  /\ pc = "start" /\ cur = Root /\ item = Root /\ seen = {} /\ descriptors = {}
  /\ visit_failed = FALSE /\ stats = [c \in Counters |-> 0] /\ result = "none"
  /\ opened = {} /\ visited = {} /\ reported = {} /\ stopped = FALSE

Count(counter) == stats' = [stats EXCEPT ![counter] = @ + 1]

ReportError(path, stage) ==
  /\ Count("errors")
  /\ reported' = reported \cup {<<path, stage>>}

NoError == UNCHANGED <<stats, reported>>

Start ==
  /\ pc = "start"
  /\ \/ pc' = "enter" /\ UNCHANGED result
     \/ "setup" \in Faults /\ pc' = "done" /\ result' = "false"
  /\ UNCHANGED <<cur, item, seen, descriptors, visit_failed, stats, history>>

(* should_stop_check answers true: this call returns, and only this one.   *)
(* The code asks when a directory is entered and before every entry.       *)
Stop ==
  /\ pc \in {"enter", "iterate"} /\ ~ visit_failed /\ "stop" \in Faults
  /\ stopped' = TRUE /\ pc' = "leave"
  /\ UNCHANGED <<cur, item, seen, descriptors, visit_failed, stats, result,
                 opened, visited, reported>>

(* No directory is entered once a visit has failed, so the code's first    *)
(* early return is never taken.                                            *)
Enter ==
  /\ pc = "enter" /\ ~ visit_failed
  /\ \/ /\ "open" \in Faults
        /\ ReportError(cur, "open") /\ pc' = "leave"
        /\ UNCHANGED <<opened, descriptors>>
     \/ /\ Count("directories") /\ opened' = opened \cup {cur}
        /\ descriptors' = descriptors \cup {cur}
        /\ pc' = "reader" /\ UNCHANGED reported
  /\ UNCHANGED <<cur, item, seen, visit_failed, result, visited, stopped>>

(* Variant: without a reader the call returns and leaves the directory open. *)
AllocateReaderLeaking ==
  /\ pc = "reader"
  /\ \/ pc' = "iterate" /\ NoError /\ UNCHANGED cur
     \/ /\ "alloc" \in Faults /\ cur # Root
        /\ ReportError(cur, "dirent-reader-alloc")
        /\ cur' = Parent[cur] /\ pc' = "iterate"
  /\ UNCHANGED <<item, seen, descriptors, visit_failed, result, opened, visited, stopped>>

AllocateReader ==
  /\ pc = "reader"
  /\ \/ pc' = "iterate" /\ NoError
     \/ "alloc" \in Faults /\ ReportError(cur, "dirent-reader-alloc") /\ pc' = "leave"
  /\ UNCHANGED <<cur, item, seen, descriptors, visit_failed, result, opened, visited, stopped>>

(* What becomes of the entry the reader returned, up to the callback. *)
ClassifyEntry(e) ==
  \/ Skipped(e) /\ pc' = "iterate" /\ NoError
  \/ /\ ~ Skipped(e) /\ e \in TooLong
     /\ ReportError(cur, "path-too-long") /\ pc' = "iterate"
  \/ /\ ~ Skipped(e) /\ e \notin TooLong /\ NeedsStat(e) /\ "stat" \in Faults
     /\ ReportError(e, "stat") /\ pc' = "iterate"
  \/ /\ ~ Skipped(e) /\ e \notin TooLong /\ e \notin Accepted
     /\ Count("skipped") /\ pc' = "iterate" /\ UNCHANGED reported
  \/ /\ ~ Skipped(e) /\ e \notin TooLong /\ e \in Accepted
     /\ pc' = (IF Visitable(e) THEN "visit" ELSE "iterate") /\ NoError

(* Variant: the failure is not looked for on the way back from a subdirectory. *)
IterateIgnoringFailure ==
  /\ pc = "iterate"
  /\ \/ Children(cur) \subseteq seen /\ pc' = "leave" /\ NoError /\ UNCHANGED <<seen, item>>
     \/ \E e \in Children(cur) \ seen :
          seen' = seen \cup {e} /\ item' = e /\ ClassifyEntry(e)
  /\ UNCHANGED <<cur, descriptors, visit_failed, result, opened, visited, stopped>>

(* Variant: a path that is too long ends the directory instead of the entry. *)
IterateUntilTooLong ==
  /\ pc = "iterate" /\ ~ visit_failed
  /\ \/ Children(cur) \subseteq seen /\ pc' = "leave" /\ NoError /\ UNCHANGED <<seen, item>>
     \/ \E e \in Children(cur) \ seen :
          /\ seen' = seen \cup {e} /\ item' = e
          /\ \/ e \notin TooLong /\ ClassifyEntry(e)
             \/ e \in TooLong /\ ReportError(cur, "path-too-long") /\ pc' = "leave"
  /\ UNCHANGED <<cur, descriptors, visit_failed, result, opened, visited, stopped>>

Iterate ==
  /\ pc = "iterate"
  /\ \/ visit_failed /\ pc' = "leave" /\ NoError /\ UNCHANGED <<seen, item>>
     \/ /\ ~ visit_failed /\ "getdents64" \in Faults
        /\ ReportError(cur, "getdents64") /\ pc' = "leave" /\ UNCHANGED <<seen, item>>
     \/ /\ ~ visit_failed /\ Children(cur) \subseteq seen
        /\ pc' = "leave" /\ NoError /\ UNCHANGED <<seen, item>>
     \/ \E e \in Children(cur) \ seen :
          /\ ~ visit_failed
          /\ seen' = seen \cup {e} /\ item' = e /\ ClassifyEntry(e)
  /\ UNCHANGED <<cur, descriptors, visit_failed, result, opened, visited, stopped>>

(* The callback, and the recursive call for a directory it did not refuse. *)
Visit ==
  /\ pc = "visit"
  /\ IF EntryKind(item) = "file" THEN Count("files") ELSE UNCHANGED stats
  /\ visited' = visited \cup {item}
  /\ \/ Descends(item) /\ cur' = item /\ pc' = "enter"
     \/ ~ Descends(item) /\ pc' = "iterate" /\ UNCHANGED cur
     \/ "visit" \in Faults /\ pc' = "fail" /\ UNCHANGED cur
  /\ UNCHANGED <<item, seen, descriptors, visit_failed, result, opened, reported, stopped>>

FailVisit ==
  /\ pc = "fail"
  /\ visit_failed' = TRUE /\ pc' = "leave"
  /\ UNCHANGED <<cur, item, seen, descriptors, stats, result, history>>

(* Variant: the walk returns true although a visit has failed. *)
LeaveForgetting ==
  /\ pc = "leave"
  /\ descriptors' = descriptors \ {cur}
  /\ \/ cur = Root /\ pc' = "done" /\ result' = "true" /\ UNCHANGED cur
     \/ cur # Root /\ cur' = Parent[cur] /\ pc' = "iterate" /\ UNCHANGED result
  /\ UNCHANGED <<item, seen, visit_failed, stats, history>>

(* The descriptor, if there is one, is closed; back to the call before. *)
Leave ==
  /\ pc = "leave"
  /\ descriptors' = descriptors \ {cur}
  /\ \/ /\ cur = Root
        /\ pc' = "done" /\ result' = (IF visit_failed THEN "false" ELSE "true")
        /\ UNCHANGED cur
     \/ /\ cur # Root
        /\ cur' = Parent[cur] /\ pc' = "iterate" /\ UNCHANGED result
  /\ UNCHANGED <<item, seen, visit_failed, stats, history>>

Step ==
  \/ Start \/ Stop \/ Enter \/ AllocateReader \/ Iterate \/ Visit \/ FailVisit \/ Leave

Returned == pc = "done" /\ UNCHANGED vars

Next == Step \/ Returned

Spec == Init /\ [][Next]_vars

(* The calling thread runs on. *)
FairSpec == Spec /\ WF_vars(Step)

-----------------------------------------------------------------------------
TypeOK ==
  /\ pc \in Labels
  /\ cur \in Entries /\ item \in Entries
  /\ seen \subseteq Entries /\ descriptors \subseteq Entries
  /\ visit_failed \in BOOLEAN
  /\ stats \in [Counters -> Nat]
  /\ result \in {"none", "true", "false"}
  /\ opened \subseteq Entries /\ visited \subseteq Entries
  /\ reported \subseteq Entries \X Stages
  /\ stopped \in BOOLEAN

(* The directories of the calls that have not returned. *)
OnPath[d \in Entries] == IF d = Root THEN {Root} ELSE {d} \cup OnPath[Parent[d]]

(***************************************************************************)
(* Descriptors are open for the directories of the calls under way and no  *)
(* others, on every error path: none is left when the walk returns, and    *)
(* the walk never holds more than the tree is deep.                        *)
(***************************************************************************)
DescriptorsNested ==
  /\ TypeOK
  /\ descriptors \subseteq OnPath[cur]
  /\ OnPath[cur] \ {cur} \subseteq descriptors
  /\ pc \in {"reader", "iterate", "visit", "fail"} => cur \in descriptors
  /\ result # "none" => descriptors = {}

Promise == INSTANCE Walk WITH failed <- visit_failed

(***************************************************************************)
(* Depth first: a directory that has been left is finished, with all that  *)
(* is below it, unless the caller stopped the walk or a visit failed.  No  *)
(* error inside a subdirectory makes its parent lose the rest of itself.   *)
(***************************************************************************)
LeftMeansFinished ==
  ~ stopped /\ ~ visit_failed /\ pc # "fail" =>
    \A d \in opened \ descriptors : \A e \in Children(d) :
      /\ Wanted(e) => Promise!EntryAccounted(e)
      /\ e \in visited /\ Descends(e) => Promise!DirectoryAccounted(e)

(***************************************************************************)
(* After a visit has failed, however deep, the callbacks are not called    *)
(* and nothing is opened any more.                                         *)
(***************************************************************************)
FailureIsFinal ==
  [][visit_failed => visit_failed' /\ UNCHANGED <<history, stats>>]_vars

(***************************************************************************)
(* The walk does what Walk says of every walk: a true result accounts for  *)
(* every entry, the statistics that go with any result are exact; and it   *)
(* returns, as long as the callbacks do.                                   *)
(***************************************************************************)
ImplementsWalk == Promise!LiveSpec
==============================================================================
