------------------------------ MODULE WalkEntry ------------------------------
(***************************************************************************)
(* What both directory walks decide about one directory entry, from its    *)
(* name, its d_type, its mode, the mode behind a symbolic link, and the    *)
(* caller's options and callbacks.  An entry is a path: following a        *)
(* symbolic link makes new paths, so the paths under the root are a tree   *)
(* even where the file system is not one, and it is finite because a path  *)
(* that does not fit BC_IO_MAX_PATH_LENGTH is never entered.               *)
(***************************************************************************)
EXTENDS Naturals

CONSTANTS
  Entries,          \* the paths that can occur, the root included
  Root,             \* config->root
  Parent,           \* the directory an entry was read from
  Mode,             \* what lstat says of an entry
  Target,           \* what stat, which follows links, says of it
  UnknownType,      \* entries whose d_type is DT_UNKNOWN
  Hidden,           \* entries whose name starts with '.'
  TooLong,          \* entries whose path does not fit the path buffer
  Accepted,         \* entries the filter callback accepts
  Descended,        \* entries should_descend answers true for
  FollowSymlinks,   \* config->follow_symlinks
  IncludeHidden     \* config->include_hidden

Kinds == {"file", "directory", "symlink", "other"}

ASSUME EntryAssumption ==
  /\ Root \in Entries
  /\ Parent \in [Entries -> Entries]
  /\ Mode \in [Entries -> Kinds]
  /\ Target \in [Entries -> Kinds]
  /\ \A e \in Entries : Mode[e] # "symlink" => Target[e] = Mode[e]
  /\ FollowSymlinks \in BOOLEAN
  /\ IncludeHidden \in BOOLEAN

Children(d) == {e \in Entries \ {Root} : Parent[e] = d}

(* The entry is passed over without a word: a dot name, not asked for. *)
Skipped(e) == e \in Hidden /\ ~ IncludeHidden

(***************************************************************************)
(* DT_UNKNOWN is resolved by stat_if_unknown, which never follows a link   *)
(* and leaves stat_populated set, so that such a link is not resolved      *)
(* again below.  Otherwise files and directories are stat'ed for their     *)
(* attributes, and links only when the caller wants them followed.         *)
(***************************************************************************)
FollowsLink(e) == Mode[e] = "symlink" /\ e \notin UnknownType /\ FollowSymlinks

NeedsStat(e) ==
  e \in UnknownType \/ Mode[e] \in {"file", "directory"} \/ FollowsLink(e)

(* A followed link counts as its target, unless that is a special file. *)
EntryKind(e) ==
  IF FollowsLink(e) /\ Target[e] \in {"file", "directory"}
    THEN Target[e] ELSE Mode[e]

(* The visit callback is called for accepted files and directories only. *)
Visitable(e) == EntryKind(e) \in {"file", "directory"}

Wanted(e) == ~ Skipped(e) /\ e \in Accepted /\ Visitable(e)

Descends(e) == EntryKind(e) = "directory" /\ e \in Descended
==============================================================================
