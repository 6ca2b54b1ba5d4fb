-------------------------------- MODULE Walk --------------------------------
(***************************************************************************)
(* What a directory walk promises its caller, whatever the number of       *)
(* threads: an entry is visited once, after its directory was opened; an   *)
(* error is reported for a path the walk has reached; and a walk that      *)
(* returns true without having been asked to stop has visited everything   *)
(* it was asked to, except what an error report accounts for.  The         *)
(* statistics, which may be anything meanwhile, are exact when it returns. *)
(***************************************************************************)
EXTENDS WalkEntry, Integers, FiniteSets

VARIABLES
  opened,      \* directories opened
  visited,     \* entries the visit callback was called for
  reported,    \* <<path, stage>> pairs passed to on_error
  failed,      \* a visit refused to go on, or a worker could not start
  stopped,     \* should_stop_check has answered true
  stats,       \* the counters of bc_io_walk_stats_t
  result       \* "none" until the walk returns, then "true" or "false"

vars == <<opened, visited, reported, failed, stopped, result>>

Stages == {"open", "getdents64", "path-too-long", "stat", "dirent-reader-alloc"}

Init ==
  /\ opened = {} /\ visited = {} /\ reported = {}
  /\ failed = FALSE /\ stopped = FALSE
  /\ result = "none"

(* The walk has a reason to look into d. *)
Enterable(d) == d = Root \/ (d \in visited /\ Descends(d))

DirectoryAccounted(d) ==
  d \in opened \/ \E s \in {"open", "dirent-reader-alloc"} : <<d, s>> \in reported

EntryAccounted(e) ==
  \/ e \in visited
  \/ <<e, "stat">> \in reported
  \/ \E s \in {"getdents64", "dirent-reader-alloc"} : <<Parent[e], s>> \in reported
  \/ e \in TooLong /\ <<Parent[e], "path-too-long">> \in reported

Complete ==
  /\ \A d \in Entries : Enterable(d) => DirectoryAccounted(d)
  /\ \A d \in opened : \A e \in Children(d) : Wanted(e) => EntryAccounted(e)

(* The counters count distinct paths, and every error was reported. *)
StatsExact ==
  /\ stats["files"] = Cardinality({e \in visited : EntryKind(e) = "file"})
  /\ stats["directories"] = Cardinality(opened)
  /\ stats["errors"] >= Cardinality(reported)
  /\ stats["errors"] = 0 <=> reported = {}

Open(d) ==
  /\ result = "none" /\ Enterable(d) /\ d \notin opened
  /\ opened' = opened \cup {d}
  /\ UNCHANGED <<visited, reported, failed, stopped, result>>

Visit(e) ==
  /\ result = "none" /\ Wanted(e) /\ e \notin visited
  /\ e # Root /\ Parent[e] \in opened
  /\ visited' = visited \cup {e}
  /\ UNCHANGED <<opened, reported, failed, stopped, result>>

Report(p, s) ==
  /\ result = "none"
  /\ Enterable(p) \/ Parent[p] \in opened
  /\ reported' = reported \cup {<<p, s>>}
  /\ UNCHANGED <<opened, visited, failed, stopped, result>>

Fail ==
  /\ result = "none"
  /\ failed' = TRUE
  /\ reported' \in {reported, reported \cup {<<Root, "dirent-reader-alloc">>}}
  /\ UNCHANGED <<opened, visited, stopped, result>>

Stop ==
  /\ result = "none"
  /\ stopped' = TRUE
  /\ UNCHANGED <<opened, visited, reported, failed, result>>

Return ==
  /\ result = "none" /\ StatsExact
  /\ \/ result' = "false"
     \/ result' = "true" /\ ~ failed /\ (stopped \/ Complete)
  /\ UNCHANGED <<opened, visited, reported, failed, stopped>>

Next ==
  \/ \E e \in Entries : Open(e) \/ Visit(e)
  \/ \E e \in Entries, s \in Stages : Report(e, s)
  \/ Fail \/ Stop \/ Return

Spec == Init /\ [][Next]_vars

(* A walk whose callbacks return does so too. *)
LiveSpec == Spec /\ <>(result # "none")
==============================================================================
