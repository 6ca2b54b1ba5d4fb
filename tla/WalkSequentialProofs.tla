----------------------- MODULE WalkSequentialProofs -----------------------
(***************************************************************************)
(* Proofs about WalkSequential, for every tree, every set of options and   *)
(* every set of faults.  Inv says where the calls under way are: their     *)
(* descriptors are those of the path to cur, the path meets no directory   *)
(* twice because every entry is read once, and what is about to be opened  *)
(* or visited has not been yet.  Work says what is done: as long as        *)
(* nothing stopped the walk, every entry that was read and every directory *)
(* with a reason to be entered is accounted for, but the one at hand.      *)
(***************************************************************************)
EXTENDS WalkSequential, FiniteSetTheorems, TLAPS

-----------------------------------------------------------------------------
(* The path from the root. *)

(* Sets of entries that have the directory of each of their elements. *)
Closed(S) == \A x \in S : x # Root => Parent[x] \in S

(* The least of these sets that has d solves the equation of OnPath. *)
Ancestors == [d \in Entries |->
  {x \in Entries : \A S \in SUBSET Entries : d \in S /\ Closed(S) => x \in S}]

(* It is such a set, *)
LEMMA AncestorsClosed ==
  ASSUME NEW d \in Entries
  PROVE  d \in Ancestors[d] /\ Ancestors[d] \subseteq Entries /\ Closed(Ancestors[d])
  BY EntryAssumption DEF Ancestors, Closed

(* the least of them, *)
LEMMA AncestorsLeast ==
  ASSUME NEW d \in Entries, NEW S \in SUBSET Entries, d \in S, Closed(S)
  PROVE  Ancestors[d] \subseteq S
  BY DEF Ancestors

(* and so the equation holds. *)
LEMMA AncestorsEquation ==
  Ancestors = [d \in Entries |-> IF d = Root THEN {Root} ELSE {d} \cup Ancestors[Parent[d]]]
  <1>1. ASSUME NEW d \in Entries, d = Root PROVE Ancestors[d] = {Root}
    <2>1. {Root} \in SUBSET Entries /\ Closed({Root}) /\ d \in {Root}
      BY <1>1 DEF Closed
    <2>2. QED
      BY <1>1, <2>1, AncestorsClosed, AncestorsLeast
  <1>2. ASSUME NEW d \in Entries, d # Root
        PROVE  Ancestors[d] = {d} \cup Ancestors[Parent[d]]
    <2>1. Parent[d] \in Entries
      BY EntryAssumption
    <2>2. Parent[d] \in Ancestors[d]
      BY <1>2, AncestorsClosed DEF Closed
    <2>3. Ancestors[Parent[d]] \subseteq Ancestors[d]
      BY <2>1, <2>2, AncestorsClosed, AncestorsLeast
    <2>4. Closed({d} \cup Ancestors[Parent[d]])
      BY <2>1, AncestorsClosed DEF Closed
    <2>5. Ancestors[d] \subseteq {d} \cup Ancestors[Parent[d]]
      BY <2>1, <2>4, AncestorsClosed, AncestorsLeast
    <2>6. QED
      BY <2>3, <2>5, AncestorsClosed
  <1>3. Ancestors = [d \in Entries |-> Ancestors[d]]
    BY DEF Ancestors
  <1>4. QED
    BY <1>1, <1>2, <1>3

(* OnPath is a solution too, whichever one. *)
LEMMA OnPathEquation ==
  OnPath = [d \in Entries |-> IF d = Root THEN {Root} ELSE {d} \cup OnPath[Parent[d]]]
  <1>1. \E f : f = [d \in Entries |-> IF d = Root THEN {Root} ELSE {d} \cup f[Parent[d]]]
    BY AncestorsEquation
  <1>2. QED
    BY <1>1 DEF OnPath

(* The path of the root is the root; below it it grows by one directory. *)
LEMMA OnPathStep ==
  ASSUME NEW d \in Entries
  PROVE  /\ d \in OnPath[d]
         /\ d = Root => OnPath[d] = {Root}
         /\ d # Root => OnPath[d] = {d} \cup OnPath[Parent[d]]
  BY OnPathEquation

-----------------------------------------------------------------------------
(* Types, and what becomes of an entry. *)

(* A counter goes up by one. *)
LEMMA CountType ==
  ASSUME stats \in [Counters -> Nat], NEW c \in Counters, Count(c)
  PROVE  stats' \in [Counters -> Nat]
  BY DEF Count

(* An error is counted, and one more path and stage is reported. *)
LEMMA ReportType ==
  ASSUME TypeOK, NEW path \in Entries, NEW stage \in Stages, ReportError(path, stage)
  PROVE  stats' \in [Counters -> Nat] /\ reported' \in SUBSET (Entries \X Stages)
  <1>1. "errors" \in Counters
    BY DEF Counters
  <1>2. QED
    BY <1>1, CountType DEF TypeOK, ReportError

(* An entry is passed over, reported, or goes to the callback. *)
LEMMA ClassifyOutcomes ==
  ASSUME NEW e \in Entries, ClassifyEntry(e)
  PROVE  \/ pc' = "iterate" /\ NoError /\ ~ Wanted(e)
         \/ pc' = "iterate" /\ ReportError(cur, "path-too-long") /\ e \in TooLong
         \/ pc' = "iterate" /\ ReportError(e, "stat")
         \/ pc' = "iterate" /\ Count("skipped") /\ UNCHANGED reported /\ ~ Wanted(e)
         \/ pc' = "visit" /\ NoError /\ Wanted(e)
  BY DEF ClassifyEntry, Wanted

(* What Iterate does to the entry it has read, or to the directory. *)
LEMMA IterateOutcomes ==
  ASSUME Iterate
  PROVE  \/ pc' = "leave" /\ visit_failed /\ NoError /\ UNCHANGED <<seen, item>>
         \/ pc' = "leave" /\ ReportError(cur, "getdents64") /\ UNCHANGED <<seen, item>>
         \/ pc' = "leave" /\ Children(cur) \subseteq seen /\ NoError /\ UNCHANGED <<seen, item>>
         \/ \E e \in Children(cur) \ seen :
              ~ visit_failed /\ seen' = seen \cup {e} /\ item' = e /\ ClassifyEntry(e)
  BY DEF Iterate

(* The types before the walk. *)
LEMMA TypeInit == Init => TypeOK
  <1> SUFFICES ASSUME Init PROVE TypeOK
    OBVIOUS
  <1>1. stats \in [Counters -> Nat]
    BY DEF Init
  <1>2. QED
    BY <1>1, EntryAssumption DEF Init, TypeOK, Labels

(* Every step keeps the types. *)
LEMMA TypeNext ==
  ASSUME TypeOK, [Next]_vars
  PROVE  TypeOK'
  <1> USE DEF history
  <1>0. {"errors", "files", "directories", "skipped"} \subseteq Counters
        /\ {"open", "getdents64", "path-too-long", "stat", "dirent-reader-alloc"} \subseteq Stages
    BY DEF Counters, Stages
  <1>1. CASE Start
    BY <1>1 DEF Start, TypeOK, Labels
  <1>2. CASE Stop
    BY <1>2 DEF Stop, TypeOK, Labels
  <1>3. CASE Enter
    <2>1. stats' \in [Counters -> Nat] /\ reported' \in SUBSET (Entries \X Stages)
      <3>1. CASE ReportError(cur, "open")
        BY <1>0, <3>1, ReportType DEF TypeOK
      <3>2. CASE Count("directories") /\ UNCHANGED reported
        BY <1>0, <3>2, CountType DEF TypeOK
      <3>3. QED
        BY <1>3, <3>1, <3>2 DEF Enter
    <2>2. QED
      BY <1>3, <2>1 DEF Enter, TypeOK, Labels
  <1>4. CASE AllocateReader
    <2>1. stats' \in [Counters -> Nat] /\ reported' \in SUBSET (Entries \X Stages)
      <3>1. CASE ReportError(cur, "dirent-reader-alloc")
        BY <1>0, <3>1, ReportType DEF TypeOK
      <3>2. CASE NoError
        BY <3>2 DEF TypeOK, NoError
      <3>3. QED
        BY <1>4, <3>1, <3>2 DEF AllocateReader
    <2>2. QED
      BY <1>4, <2>1 DEF AllocateReader, TypeOK, Labels
  <1>5. CASE Iterate
    <2>1. ASSUME NEW e \in Children(cur), ClassifyEntry(e)
          PROVE  /\ stats' \in [Counters -> Nat] /\ reported' \in SUBSET (Entries \X Stages)
                 /\ pc' \in Labels
      <3>1. e \in Entries /\ cur \in Entries
        BY DEF Children, TypeOK
      <3>2. pc' \in Labels
        BY <2>1, <3>1, ClassifyOutcomes DEF Labels
      <3>3. CASE NoError
        BY <3>2, <3>3 DEF TypeOK, NoError
      <3>4. CASE ReportError(cur, "path-too-long") \/ ReportError(e, "stat")
        BY <1>0, <3>1, <3>2, <3>4, ReportType
      <3>5. CASE Count("skipped") /\ UNCHANGED reported
        BY <1>0, <3>2, <3>5, CountType DEF TypeOK
      <3>6. QED
        BY <2>1, <3>1, <3>3, <3>4, <3>5, ClassifyOutcomes
    <2>2. /\ stats' \in [Counters -> Nat] /\ reported' \in SUBSET (Entries \X Stages)
          /\ pc' \in Labels /\ seen' \subseteq Entries /\ item' \in Entries
      <3>1. CASE pc' = "leave" /\ NoError /\ UNCHANGED <<seen, item>>
        BY <3>1 DEF NoError, TypeOK, Labels
      <3>2. CASE pc' = "leave" /\ ReportError(cur, "getdents64") /\ UNCHANGED <<seen, item>>
        BY <1>0, <3>2, ReportType DEF TypeOK, Labels
      <3>3. ASSUME NEW e \in Children(cur) \ seen,
                   seen' = seen \cup {e} /\ item' = e /\ ClassifyEntry(e)
            PROVE  <2>2!:
        BY <2>1, <3>3 DEF Children, TypeOK
      <3>4. QED
        BY <1>5, <3>1, <3>2, <3>3, IterateOutcomes
    <2>3. QED
      BY <1>5, <2>2 DEF Iterate, TypeOK
  <1>6. CASE Visit
    <2>1. stats' \in [Counters -> Nat]
      BY <1>0, <1>6, CountType DEF Visit, TypeOK
    <2>2. QED
      BY <1>6, <2>1 DEF Visit, TypeOK, Labels
  <1>7. CASE FailVisit
    BY <1>7 DEF FailVisit, TypeOK, Labels
  <1>8. CASE Leave
    BY <1>8, EntryAssumption DEF Leave, TypeOK, Labels
  <1>9. CASE UNCHANGED vars
    BY <1>9 DEF vars, TypeOK
  <1>10. QED
    BY <1>1, <1>2, <1>3, <1>4, <1>5, <1>6, <1>7, <1>8, <1>9 DEF Next, Step, Returned

(* They hold in every reachable state. *)
LEMMA TypeAlways == Spec => []TypeOK
  BY TypeInit, TypeNext, PTL DEF Spec

-----------------------------------------------------------------------------
(***************************************************************************)
(* After a visit has failed the calls under way return one after the       *)
(* other, and do nothing else.                                             *)
(***************************************************************************)
Unwinding == visit_failed => pc \in {"leave", "iterate", "done"}

(* A failed visit unwinds. *)
LEMMA UnwindingNext ==
  ASSUME TypeOK, Unwinding, [Next]_vars
  PROVE  Unwinding'
  <1> USE DEF Unwinding
  <1>1. CASE Start \/ Stop \/ Enter \/ AllocateReader \/ Visit \/ FailVisit \/ Leave
    BY <1>1 DEF Start, Stop, Enter, AllocateReader, Visit, FailVisit, Leave
  <1>2. CASE Iterate
    <2>1. visit_failed' = visit_failed
      BY <1>2 DEF Iterate
    <2>2. CASE visit_failed
      BY <1>2, <2>2 DEF Iterate
    <2>3. QED
      BY <2>1, <2>2
  <1>3. CASE UNCHANGED vars
    BY <1>3 DEF vars
  <1>4. QED
    BY <1>1, <1>2, <1>3 DEF Next, Step, Returned

(***************************************************************************)
(* No callback is called and nothing is opened or counted after a visit    *)
(* has failed, at any depth.                                               *)
(***************************************************************************)
THEOREM FailureEndsWalk == Spec => FailureIsFinal
  <1>1. Init => Unwinding
    BY DEF Init, Unwinding
  <1>2. ASSUME TypeOK, Unwinding, Next, visit_failed
        PROVE  visit_failed' /\ UNCHANGED <<history, stats>>
    <2>1. visit_failed = TRUE
      BY <1>2 DEF TypeOK
    <2>2. pc \in {"leave", "iterate", "done"}
      BY <1>2 DEF Unwinding
    <2>3. CASE Iterate
      BY <1>2, <2>3 DEF Iterate, NoError, history
    <2>4. CASE Leave
      BY <2>1, <2>4 DEF Leave
    <2>5. CASE Returned
      BY <2>1, <2>5 DEF Returned, vars
    <2>6. QED
      BY <1>2, <2>2, <2>3, <2>4, <2>5
      DEF Next, Step, Start, Stop, Enter, AllocateReader, Visit, FailVisit
  <1>3. TypeOK /\ Unwinding /\ [Next]_vars
          => [visit_failed => visit_failed' /\ UNCHANGED <<history, stats>>]_vars
    BY <1>2
  <1>4. QED
    BY <1>1, <1>3, TypeAlways, UnwindingNext, PTL DEF Spec, FailureIsFinal

-----------------------------------------------------------------------------
(* The calls under way. *)

(* The labels at which the directory is open. *)
Inside == {"reader", "iterate", "visit", "fail"}

(* The descriptors are those of the path; the innermost call may have none. *)
Nesting ==
  /\ descriptors \subseteq OnPath[cur]
  /\ OnPath[cur] \ {cur} \subseteq descriptors
  /\ pc \in Inside => cur \in descriptors
  /\ pc \in {"start", "done"} => cur = Root /\ descriptors = {}
  /\ result = "none" <=> pc # "done"

(* An entry is read once, so that no directory of the path is below itself. *)
Simple ==
  /\ Root \notin seen
  /\ OnPath[cur] \ {Root} \subseteq seen
  /\ \A x \in OnPath[cur] \ {Root} : x \notin OnPath[Parent[x]]
  /\ pc = "visit" => item \in Children(cur) /\ item \in seen /\ item \notin OnPath[cur]

(* A step within a call leaves the path alone. *)
LEMMA PathStays ==
  ASSUME TypeOK, Nesting, Simple, UNCHANGED <<cur, descriptors, result>>, seen \subseteq seen',
         Root \notin seen', pc' \notin {"visit", "start", "done"}, result = "none",
         pc' \in Inside => cur \in descriptors
  PROVE  Nesting' /\ Simple'
  BY DEF Nesting, Simple

(* Every step keeps the descriptors and the path together. *)
LEMMA PathNext ==
  ASSUME TypeOK, Nesting, Simple, [Next]_vars
  PROVE  Nesting' /\ Simple'
  <1>1. cur \in Entries /\ OnPath[Root] = {Root}
    BY EntryAssumption, OnPathStep DEF TypeOK
  <1>2. CASE Start
    <2>1. cur = Root /\ descriptors = {} /\ UNCHANGED <<cur, descriptors, seen>>
      BY <1>2 DEF Start, Nesting
    <2>2. result = "none"
      BY <1>2 DEF Start, Nesting
    <2>3. CASE pc' = "enter" /\ result' = "none"
      BY <1>1, <2>1, <2>3 DEF Nesting, Simple, Inside
    <2>4. CASE pc' = "done" /\ result' = "false"
      BY <1>1, <2>1, <2>4 DEF Nesting, Simple, Inside
    <2>5. QED
      BY <1>2, <2>2, <2>3, <2>4 DEF Start
  <1>3. CASE Stop
    BY <1>3, PathStays DEF Stop, Nesting, Simple, Inside
  <1>4. CASE Enter
    <2>1. CASE pc' = "leave" /\ UNCHANGED descriptors
      BY <1>4, <2>1, PathStays DEF Enter, Nesting, Simple, Inside
    <2>2. CASE pc' = "reader" /\ descriptors' = descriptors \cup {cur}
      <3>1. UNCHANGED <<cur, seen, result>> /\ pc = "enter" /\ cur \in OnPath[cur]
        BY <1>1, <1>4, OnPathStep DEF Enter
      <3>2. QED
        BY <2>2, <3>1 DEF Nesting, Simple
    <2>3. QED
      BY <1>4, <2>1, <2>2 DEF Enter
  <1>5. CASE AllocateReader
    <2>1. /\ pc = "reader" /\ pc' \in {"iterate", "leave"}
          /\ UNCHANGED <<cur, descriptors, result, seen>>
      BY <1>5 DEF AllocateReader
    <2>2. QED
      BY <2>1, PathStays DEF Nesting, Simple, Inside
  <1>6. CASE Iterate
    <2>1. pc = "iterate" /\ UNCHANGED <<cur, descriptors, result>>
      BY <1>6 DEF Iterate
    <2>2. CASE pc' = "leave" /\ UNCHANGED seen
      BY <2>1, <2>2, PathStays DEF Nesting, Simple, Inside
    <2>3. ASSUME NEW e \in Children(cur) \ seen,
                 seen' = seen \cup {e} /\ item' = e /\ ClassifyEntry(e)
          PROVE  Nesting' /\ Simple'
      <3>1. e \in Entries /\ e # Root /\ Parent[e] = cur /\ e \notin OnPath[cur]
        BY DEF Children, Simple
      <3>2. pc' = "iterate" \/ pc' = "visit"
        BY <2>3, <3>1, ClassifyOutcomes
      <3>3. CASE pc' = "iterate"
        BY <2>1, <2>3, <3>1, <3>3, PathStays DEF Nesting, Simple, Inside
      <3>4. CASE pc' = "visit"
        BY <2>1, <2>3, <3>1, <3>4 DEF Nesting, Simple, Inside
      <3>5. QED
        BY <3>2, <3>3, <3>4
    <2>4. QED
      BY <1>6, <2>2, <2>3, IterateOutcomes
  <1>7. CASE Visit
    <2>1. pc = "visit" /\ UNCHANGED <<descriptors, result, seen>> /\ pc' \notin {"visit", "start", "done"}
      BY <1>7 DEF Visit
    <2>2. CASE cur' = cur
      BY <2>1, <2>2, PathStays DEF Nesting, Simple, Inside
    <2>3. CASE cur' = item /\ pc' = "enter"
      <3>1. item \in Entries /\ item # Root /\ Parent[item] = cur
        BY <2>1 DEF Simple, Children
      <3>2. OnPath[item] = {item} \cup OnPath[cur]
        BY <3>1, OnPathStep
      <3>3. descriptors = OnPath[cur]
        BY <2>1 DEF Nesting, Inside
      <3>4. QED
        BY <2>1, <2>3, <3>1, <3>2, <3>3 DEF Nesting, Simple, Inside
    <2>4. QED
      BY <1>7, <2>2, <2>3 DEF Visit
  <1>8. CASE FailVisit
    BY <1>8, PathStays DEF FailVisit, Nesting, Simple, Inside
  <1>9. CASE Leave
    <2>1. pc = "leave" /\ descriptors' = descriptors \ {cur} /\ UNCHANGED seen
      BY <1>9 DEF Leave
    <2>2. CASE cur = Root
      <3>1. cur' = cur /\ pc' = "done" /\ result' # "none"
        BY <1>9, <2>2 DEF Leave
      <3>2. QED
        BY <1>1, <2>1, <2>2, <3>1 DEF Nesting, Simple, Inside
    <2>3. CASE cur # Root
      <3>1. cur' = Parent[cur] /\ pc' = "iterate" /\ UNCHANGED result
        BY <1>9, <2>3 DEF Leave
      <3>2. Parent[cur] \in Entries
        BY <1>1, EntryAssumption
      <3>3. OnPath[cur] = {cur} \cup OnPath[Parent[cur]] /\ Parent[cur] \in OnPath[Parent[cur]]
        BY <1>1, <2>3, <3>2, OnPathStep
      <3>4. cur \notin OnPath[Parent[cur]]
        BY <2>3, <3>3 DEF Simple
      <3>5. QED
        BY <2>1, <3>1, <3>3, <3>4 DEF Nesting, Simple
    <2>4. QED
      BY <2>2, <2>3
  <1>10. CASE UNCHANGED vars
    BY <1>10 DEF vars, Nesting, Simple
  <1>11. QED
    BY <1>2, <1>3, <1>4, <1>5, <1>6, <1>7, <1>8, <1>9, <1>10 DEF Next, Step, Returned

(* Before the walk there is no descriptor. *)
LEMMA PathInit == Init => Nesting /\ Simple
  BY EntryAssumption, OnPathStep DEF Init, Nesting, Simple, Inside

(* The descriptors are those of the path in every reachable state. *)
LEMMA PathAlways == Spec => [](Nesting /\ Simple)
  BY TypeAlways, PathInit, PathNext, PTL DEF Spec

(***************************************************************************)
(* On every path through the walk, the errors included, the descriptors    *)
(* open are those of the calls under way, and none is left at the end.     *)
(***************************************************************************)
THEOREM DescriptorsAreNested == Spec => []DescriptorsNested
  <1>1. TypeOK /\ Nesting => DescriptorsNested
    BY DEF Nesting, Inside, DescriptorsNested
  <1>2. QED
    BY <1>1, TypeAlways, PathAlways, PTL

-----------------------------------------------------------------------------
(* What has been opened and visited. *)

(***************************************************************************)
(* What is visited or opened was read before, once; what is about to be    *)
(* was not visited or opened yet.  The walk has a reason to look into each *)
(* directory of the path.                                                  *)
(***************************************************************************)
Once ==
  /\ opened \subseteq seen \cup {Root} /\ visited \subseteq seen
  /\ descriptors \subseteq opened
  /\ pc = "start" => opened = {}
  /\ pc = "enter" => cur \notin opened
  /\ pc = "visit" => item \notin visited /\ item \notin opened /\ Wanted(item)
  /\ \A x \in OnPath[cur] : Promise!Enterable(x)

(* The inductive invariant. *)
Inv == TypeOK /\ Nesting /\ Simple /\ Once

(* The promise speaks of entries as the walk does. *)
LEMMA SameEntries ==
  /\ \A e : Promise!Descends(e) <=> Descends(e)
  /\ \A e : Promise!Wanted(e) <=> Wanted(e)
  /\ \A e : Promise!EntryKind(e) = EntryKind(e)
  /\ \A d : Promise!Children(d) = Children(d)
  BY DEF Promise!Descends, Promise!Wanted, Promise!EntryKind, Promise!Children, Promise!Skipped,
         Promise!Visitable, Promise!FollowsLink, Descends, Wanted, EntryKind, Children, Skipped,
         Visitable, FollowsLink

(* A step that opens and visits nothing, and enters nothing. *)
LEMMA OnceStays ==
  ASSUME Once, UNCHANGED <<cur, opened, visited>>, seen \subseteq seen',
         descriptors' \subseteq descriptors, pc' \notin {"start", "enter", "visit"}
  PROVE  Once'
  BY DEF Once, Promise!Enterable

(* Nothing is visited or opened twice. *)
LEMMA OnceNext ==
  ASSUME Inv, [Next]_vars
  PROVE  Once'
  <1> USE DEF Inv, history
  <1>1. CASE Start
    BY <1>1 DEF Start, Once, Promise!Enterable
  <1>2. CASE Stop
    BY <1>2, OnceStays DEF Stop
  <1>3. CASE Enter
    <2>1. CASE pc' = "leave" /\ UNCHANGED <<opened, descriptors>>
      BY <1>3, <2>1, OnceStays DEF Enter
    <2>2. CASE /\ pc' = "reader" /\ opened' = opened \cup {cur}
               /\ descriptors' = descriptors \cup {cur}
      <3>1. cur \in seen \cup {Root}
        BY OnPathStep DEF Simple, TypeOK
      <3>2. UNCHANGED <<cur, visited, seen>>
        BY <1>3 DEF Enter
      <3>3. QED
        BY <2>2, <3>1, <3>2 DEF Once, Promise!Enterable
    <2>3. QED
      BY <1>3, <2>1, <2>2 DEF Enter
  <1>4. CASE AllocateReader
    <2>1. pc' \in {"iterate", "leave"} /\ UNCHANGED <<cur, opened, visited, seen, descriptors>>
      BY <1>4 DEF AllocateReader
    <2>2. QED
      BY <2>1, OnceStays
  <1>5. CASE Iterate
    <2>1. UNCHANGED <<cur, opened, visited, descriptors>>
      BY <1>5 DEF Iterate
    <2>2. CASE pc' = "leave" /\ UNCHANGED seen
      BY <2>1, <2>2, OnceStays
    <2>3. ASSUME NEW e \in Children(cur) \ seen,
                 seen' = seen \cup {e} /\ item' = e /\ ClassifyEntry(e)
          PROVE  Once'
      <3>1. e \in Entries /\ e # Root /\ e \notin opened /\ e \notin visited
        BY DEF Children, Once
      <3>2. pc' = "iterate" \/ (pc' = "visit" /\ Wanted(e))
        BY <2>3, <3>1, ClassifyOutcomes
      <3>3. CASE pc' = "iterate"
        BY <2>1, <2>3, <3>3, OnceStays
      <3>4. CASE pc' = "visit" /\ Wanted(e)
        <4>1. Wanted(e)'
          BY <3>4 DEF Wanted, Skipped, Visitable, EntryKind, FollowsLink
        <4>2. QED
          BY <2>1, <2>3, <3>1, <3>4, <4>1 DEF Once, Promise!Enterable
      <3>5. QED
        BY <3>2, <3>3, <3>4
    <2>4. QED
      BY <1>5, <2>2, <2>3, IterateOutcomes
  <1>6. CASE Visit
    <2>1. /\ pc = "visit" /\ UNCHANGED <<item, opened, seen, descriptors>>
          /\ visited' = visited \cup {item} /\ item \in seen
      BY <1>6 DEF Visit, Simple
    <2>2. \A x \in OnPath[cur] : Promise!Enterable(x)'
      BY <2>1 DEF Once, Promise!Enterable
    <2>3. CASE cur' = cur /\ pc' \in {"iterate", "fail"}
      BY <2>1, <2>2, <2>3 DEF Once
    <2>4. CASE Descends(item) /\ cur' = item /\ pc' = "enter"
      <3>1. OnPath[item] = {item} \cup OnPath[cur]
        BY <2>1, OnPathStep DEF Simple, Children
      <3>2. Promise!Enterable(item)'
        BY <2>1, <2>4, SameEntries DEF Promise!Enterable
      <3>3. \A x \in OnPath[cur'] : Promise!Enterable(x)'
        BY <2>1, <2>2, <2>4, <3>1, <3>2
      <3>4. QED
        BY <2>1, <2>4, <3>3 DEF Once
    <2>5. QED
      BY <1>6, <2>3, <2>4 DEF Visit
  <1>7. CASE FailVisit
    BY <1>7, OnceStays DEF FailVisit
  <1>8. CASE Leave
    <2>1. /\ descriptors' = descriptors \ {cur} /\ UNCHANGED <<seen, opened, visited>>
          /\ pc' \in {"done", "iterate"}
      BY <1>8 DEF Leave
    <2>2. CASE cur' = cur
      BY <2>1, <2>2, OnceStays
    <2>3. CASE cur # Root /\ cur' = Parent[cur]
      <3>1. OnPath[cur'] \subseteq OnPath[cur]
        BY <2>3, OnPathStep DEF TypeOK
      <3>2. QED
        BY <2>1, <3>1 DEF Once, Promise!Enterable
    <2>4. QED
      BY <1>8, <2>2, <2>3 DEF Leave
  <1>9. CASE UNCHANGED vars
    BY <1>9 DEF vars, Once, Promise!Enterable, Wanted, Skipped, Visitable, EntryKind, FollowsLink
  <1>10. QED
    BY <1>1, <1>2, <1>3, <1>4, <1>5, <1>6, <1>7, <1>8, <1>9 DEF Next, Step, Returned

(* Inv holds in every reachable state. *)
LEMMA InvAlways == Spec => []Inv
  <1>1. Init => Once
    BY EntryAssumption, OnPathStep DEF Init, Once, Promise!Enterable
  <1>2. Inv /\ [Next]_vars => Inv'
    BY TypeNext, PathNext, OnceNext DEF Inv
  <1>3. Init => Inv
    BY <1>1, TypeInit, PathInit DEF Inv
  <1>4. QED
    BY <1>2, <1>3, PTL DEF Spec

-----------------------------------------------------------------------------
(* What a directory that has been left amounts to. *)

(* Nobody has stopped the walk, and no visit has failed or is about to. *)
Good == ~ stopped /\ ~ visit_failed /\ pc # "fail"

(* The whole of d was read, or an error report says that it was not. *)
Listed(d) ==
  \/ Children(d) \subseteq seen
  \/ <<d, "getdents64">> \in reported
  \/ <<d, "dirent-reader-alloc">> \in reported

(* Every entry that was read is accounted for, but the one being visited. *)
SeenAccounted == Good =>
  \A e \in seen : Wanted(e) => Promise!EntryAccounted(e) \/ (pc = "visit" /\ e = item)

(* Every directory there is reason to enter, but the one about to be. *)
EnterableAccounted == Good =>
  \A d \in Entries : Promise!Enterable(d) =>
    Promise!DirectoryAccounted(d) \/ (pc \in {"start", "enter", "done"} /\ d = cur)

(* Every opened directory that was left, or is being left, was read whole. *)
LeftListed == Good =>
  \A d \in opened : d \notin descriptors \/ (pc = "leave" /\ d = cur) => Listed(d)

(* All that can be said of the work done so far. *)
Work == SeenAccounted /\ EnterableAccounted /\ LeftListed

(* What the caller has observed is not taken back. *)
LEMMA HistoryGrows ==
  ASSUME TypeOK, [Next]_vars
  PROVE  /\ seen \subseteq seen' /\ opened \subseteq opened' /\ visited \subseteq visited'
         /\ reported \subseteq reported'
         /\ Good' => Good
  <1> USE DEF history, TypeOK
  <1>1. CASE Start
    BY <1>1 DEF Start, Good
  <1>2. CASE Stop
    BY <1>2 DEF Stop, Good
  <1>3. CASE Enter
    BY <1>3 DEF Enter, ReportError, Good
  <1>4. CASE AllocateReader
    BY <1>4 DEF AllocateReader, ReportError, NoError, Good
  <1>5. CASE Iterate
    <2>1. pc = "iterate" /\ UNCHANGED <<opened, visited, stopped, visit_failed>>
      BY <1>5 DEF Iterate
    <2>2. seen \subseteq seen' /\ reported \subseteq reported'
      <3>1. ASSUME NEW e \in Children(cur) \ seen, seen' = seen \cup {e}, ClassifyEntry(e)
            PROVE  seen \subseteq seen' /\ reported \subseteq reported'
        BY <3>1 DEF ClassifyEntry, ReportError, NoError
      <3>2. QED
        BY <1>5, <3>1, IterateOutcomes DEF ReportError, NoError
    <2>3. QED
      BY <2>1, <2>2 DEF Good
  <1>6. CASE Visit
    BY <1>6 DEF Visit, Good
  <1>7. CASE FailVisit
    BY <1>7 DEF FailVisit, Good
  <1>8. CASE Leave
    BY <1>8 DEF Leave, Good
  <1>9. CASE UNCHANGED vars
    BY <1>9 DEF vars, Good
  <1>10. QED
    BY <1>1, <1>2, <1>3, <1>4, <1>5, <1>6, <1>7, <1>8, <1>9 DEF Next, Step, Returned

(* So what is accounted for stays so. *)
LEMMA AccountedStays ==
  ASSUME TypeOK, [Next]_vars, NEW e \in Entries
  PROVE  /\ Promise!EntryAccounted(e) => Promise!EntryAccounted(e)'
         /\ Promise!DirectoryAccounted(e) => Promise!DirectoryAccounted(e)'
         /\ Listed(e) => Listed(e)'
  <1>1. /\ seen \subseteq seen' /\ opened \subseteq opened' /\ visited \subseteq visited'
        /\ reported \subseteq reported'
    BY HistoryGrows
  <1>2. Promise!EntryAccounted(e) => Promise!EntryAccounted(e)'
    BY <1>1 DEF Promise!EntryAccounted
  <1>3. Promise!DirectoryAccounted(e) => Promise!DirectoryAccounted(e)'
    BY <1>1 DEF Promise!DirectoryAccounted
  <1>4. Listed(e) => Listed(e)'
    BY <1>1 DEF Listed, Children
  <1>5. QED
    BY <1>2, <1>3, <1>4

(* Every step keeps the account of the entries, *)
LEMMA SeenNext ==
  ASSUME Inv, SeenAccounted, [Next]_vars
  PROVE  SeenAccounted'
  <1> USE DEF Inv
  <1> SUFFICES ASSUME Good', NEW e \in seen', Wanted(e)
               PROVE  Promise!EntryAccounted(e)' \/ (pc' = "visit" /\ e = item')
    BY DEF SeenAccounted, Wanted, Skipped, Visitable, EntryKind, FollowsLink
  <1>1. Good
    BY HistoryGrows
  <1>2. ASSUME e \in seen, pc # "visit" PROVE Promise!EntryAccounted(e)'
    BY <1>1, <1>2, AccountedStays DEF SeenAccounted, TypeOK
  <1>3. CASE Iterate
    <2>1. CASE e \in seen
      BY <1>2, <1>3, <2>1 DEF Iterate
    <2>2. CASE e \notin seen
      <3>1. e \in Children(cur) /\ item' = e /\ ClassifyEntry(e)
        BY <1>3, <2>2, IterateOutcomes
      <3>2. e \in Entries /\ Parent[e] = cur
        BY <3>1 DEF Children
      <3>3. CASE pc' = "visit"
        BY <3>1, <3>3
      <3>4. CASE ReportError(cur, "path-too-long") /\ e \in TooLong
        BY <3>2, <3>4 DEF ReportError, Promise!EntryAccounted
      <3>5. CASE ReportError(e, "stat")
        BY <3>5 DEF ReportError, Promise!EntryAccounted
      <3>6. QED
        BY <3>1, <3>2, <3>3, <3>4, <3>5, ClassifyOutcomes
    <2>3. QED
      BY <2>1, <2>2
  <1>4. CASE Visit
    <2>1. seen' = seen /\ visited' = visited \cup {item}
      BY <1>4 DEF Visit
    <2>2. CASE e = item
      BY <2>1, <2>2 DEF Promise!EntryAccounted
    <2>3. CASE e # item
      BY <1>1, <2>1, <2>3, AccountedStays DEF SeenAccounted, TypeOK
    <2>4. QED
      BY <2>2, <2>3
  <1>5. CASE Start \/ Stop \/ Enter \/ AllocateReader \/ FailVisit \/ Leave
    <2>1. seen' = seen /\ pc # "visit"
      BY <1>5 DEF Start, Stop, Enter, AllocateReader, FailVisit, Leave
    <2>2. QED
      BY <1>2, <2>1
  <1>6. CASE UNCHANGED vars
    <2>1. UNCHANGED <<seen, pc, item>>
      BY <1>6 DEF vars
    <2>2. QED
      BY <1>1, <2>1, AccountedStays DEF SeenAccounted, TypeOK
  <1>7. QED
    BY <1>3, <1>4, <1>5, <1>6 DEF Next, Step, Returned

(* of the directories to enter, *)
LEMMA EnterableNext ==
  ASSUME Inv, EnterableAccounted, [Next]_vars
  PROVE  EnterableAccounted'
  <1> USE DEF Inv
  <1> SUFFICES ASSUME Good', NEW d \in Entries, Promise!Enterable(d)'
               PROVE  Promise!DirectoryAccounted(d)' \/ (pc' \in {"start", "enter", "done"} /\ d = cur')
    BY DEF EnterableAccounted
  <1>1. Good
    BY HistoryGrows
  <1>2. ASSUME Promise!Enterable(d), pc \notin {"start", "enter", "done"}
        PROVE  Promise!DirectoryAccounted(d)'
    BY <1>1, <1>2, AccountedStays DEF EnterableAccounted
  <1>3. CASE Visit
    <2>1. CASE Promise!Enterable(d)
      BY <1>2, <1>3, <2>1 DEF Visit
    <2>2. CASE ~ Promise!Enterable(d)
      <3>1. d = item /\ Descends(item)
        BY <1>3, <2>2, SameEntries DEF Visit, Promise!Enterable
      <3>2. QED
        BY <1>3, <3>1 DEF Visit, Good
    <2>3. QED
      BY <2>1, <2>2
  <1>4. ASSUME visited' = visited PROVE Promise!Enterable(d)
    BY <1>4 DEF Promise!Enterable
  <1>5. CASE Start
    <2>1. Promise!Enterable(d) /\ cur' = cur /\ pc' \in {"enter", "done"}
      BY <1>4, <1>5 DEF Start, history
    <2>2. QED
      BY <1>1, <2>1, AccountedStays DEF EnterableAccounted
  <1>6. CASE Enter
    <2>1. Promise!Enterable(d) /\ pc = "enter"
      BY <1>4, <1>6 DEF Enter
    <2>2. CASE d = cur
      BY <1>6, <2>2 DEF Enter, ReportError, Promise!DirectoryAccounted
    <2>3. CASE d # cur
      BY <1>1, <2>1, <2>3, AccountedStays DEF EnterableAccounted
    <2>4. QED
      BY <2>2, <2>3
  <1>7. CASE Stop
    BY <1>7 DEF Stop, Good
  <1>8. CASE AllocateReader \/ Iterate \/ FailVisit \/ Leave
    <2>1. visited' = visited /\ pc \notin {"start", "enter", "done"}
      BY <1>8 DEF AllocateReader, Iterate, FailVisit, Leave, history
    <2>2. QED
      BY <1>2, <1>4, <2>1
  <1>9. CASE UNCHANGED vars
    <2>1. UNCHANGED <<visited, pc, cur>>
      BY <1>9 DEF vars, history
    <2>2. QED
      BY <1>1, <1>4, <2>1, AccountedStays DEF EnterableAccounted
  <1>10. QED
    BY <1>3, <1>5, <1>6, <1>7, <1>8, <1>9 DEF Next, Step, Returned

(* and of those that were left. *)
LEMMA LeftNext ==
  ASSUME Inv, LeftListed, [Next]_vars
  PROVE  LeftListed'
  <1> USE DEF Inv
  <1> SUFFICES ASSUME Good', NEW d \in opened', d \notin descriptors' \/ (pc' = "leave" /\ d = cur')
               PROVE  Listed(d)'
    BY DEF LeftListed
  <1>1. Good /\ d \in Entries
    BY HistoryGrows, TypeNext DEF TypeOK
  <1>2. ASSUME d \in opened, d \notin descriptors \/ (pc = "leave" /\ d = cur) PROVE Listed(d)'
    BY <1>1, <1>2, AccountedStays DEF LeftListed
  <1>3. CASE Start \/ Visit
    BY <1>2, <1>3 DEF Start, Visit, history
  <1>4. CASE Stop \/ FailVisit
    BY <1>4 DEF Stop, FailVisit, Good
  <1>5. CASE Enter
    BY <1>2, <1>5 DEF Enter, Once
  <1>6. CASE AllocateReader
    <2>1. CASE ReportError(cur, "dirent-reader-alloc") /\ d = cur
      BY <2>1 DEF ReportError, Listed
    <2>2. CASE d # cur \/ pc' # "leave"
      BY <1>2, <1>6, <2>2 DEF AllocateReader
    <2>3. QED
      BY <1>6, <2>1, <2>2 DEF AllocateReader
  <1>7. CASE Iterate
    <2>1. UNCHANGED <<cur, opened, descriptors>>
      BY <1>7 DEF Iterate
    <2>2. CASE d # cur \/ pc' # "leave"
      BY <1>2, <2>1, <2>2
    <2>3. CASE d = cur /\ pc' = "leave"
      <3>1. CASE ReportError(cur, "getdents64")
        BY <2>3, <3>1 DEF ReportError, Listed
      <3>2. CASE Children(cur) \subseteq seen /\ UNCHANGED seen
        BY <2>3, <3>2 DEF Listed, Children
      <3>3. \A e \in Children(cur) : ClassifyEntry(e) => pc' # "leave"
        BY ClassifyOutcomes DEF Children
      <3>4. QED
        BY <1>1, <1>7, <2>3, <3>1, <3>2, <3>3, IterateOutcomes DEF Good
    <2>4. QED
      BY <2>2, <2>3
  <1>8. CASE Leave
    BY <1>2, <1>8 DEF Leave, history
  <1>9. CASE UNCHANGED vars
    BY <1>2, <1>9 DEF vars, history
  <1>10. QED
    BY <1>3, <1>4, <1>5, <1>6, <1>7, <1>8, <1>9 DEF Next, Step, Returned

(* The accounts are right in every reachable state. *)
LEMMA WorkAlways == Spec => []Work
  <1>1. Init => Work
    BY DEF Init, Work, SeenAccounted, EnterableAccounted, LeftListed, Promise!Enterable
  <1>2. Inv /\ Work /\ [Next]_vars => Work'
    BY SeenNext, EnterableNext, LeftNext DEF Work
  <1>3. QED
    BY <1>1, <1>2, InvAlways, PTL DEF Spec

(* An entry of a directory that has been left is not the one at hand. *)
LEMMA AtHandIsOnPath ==
  ASSUME Inv, NEW d \in Entries, d \notin descriptors, NEW e \in Children(d)
  PROVE  /\ pc = "visit" => e # item
         /\ e # cur
  <1>1. e \in Entries /\ e # Root /\ Parent[e] = d
    BY DEF Children
  <1>2. pc = "visit" => e # item
    BY <1>1 DEF Inv, Simple, Nesting, Inside, Children
  <1>3. ASSUME e = cur PROVE FALSE
    <2>1. OnPath[cur] = {cur} \cup OnPath[d] /\ d \in OnPath[d]
      BY <1>1, <1>3, OnPathStep
    <2>2. d # cur
      BY <1>1, <1>3, <2>1 DEF Inv, Simple
    <2>3. QED
      BY <2>1, <2>2 DEF Inv, Nesting
  <1>4. QED
    BY <1>2, <1>3

(***************************************************************************)
(* A directory that was left is finished, with all that is below it, as    *)
(* long as nobody stopped the walk and no visit failed.                    *)
(***************************************************************************)
THEOREM LeftIsFinished == Spec => []LeftMeansFinished
  <1>1. ASSUME Inv, Work PROVE LeftMeansFinished
    <2> SUFFICES ASSUME Good, NEW d \in opened \ descriptors, NEW e \in Children(d)
                 PROVE  /\ Wanted(e) => Promise!EntryAccounted(e)
                        /\ e \in visited /\ Descends(e) => Promise!DirectoryAccounted(e)
      BY DEF LeftMeansFinished, Good
    <2>1. d \in Entries /\ e \in Entries /\ Parent[e] = d
      BY <1>1 DEF Inv, TypeOK, Children
    <2>2. (pc = "visit" => e # item) /\ e # cur
      BY <1>1, <2>1, AtHandIsOnPath
    <2>3. Listed(d)
      BY <1>1 DEF Work, LeftListed
    <2>4. Wanted(e) => Promise!EntryAccounted(e)
      BY <1>1, <2>1, <2>2, <2>3 DEF Listed, Work, SeenAccounted, Promise!EntryAccounted
    <2>5. e \in visited /\ Descends(e) => Promise!DirectoryAccounted(e)
      BY <1>1, <2>1, <2>2, SameEntries DEF Work, EnterableAccounted, Promise!Enterable
    <2>6. QED
      BY <2>4, <2>5
  <1>2. QED
    BY <1>1, InvAlways, WorkAlways, PTL

-----------------------------------------------------------------------------
(* The statistics, and the promise of every walk. *)

(* A finite set gains one element, or one it had already. *)
LEMMA CountOne ==
  ASSUME NEW S, IsFiniteSet(S), NEW x
  PROVE  /\ IsFiniteSet(S \cup {x})
         /\ Cardinality(S) \in Nat
         /\ x \notin S => Cardinality(S \cup {x}) = Cardinality(S) + 1
         /\ Cardinality(S \cup {x}) <= Cardinality(S) + 1
  <1>1. Cardinality(S) \in Nat
    BY FS_CardinalityType
  <1>2. \/ x \in S /\ Cardinality(S \cup {x}) = Cardinality(S)
        \/ x \notin S /\ Cardinality(S \cup {x}) = Cardinality(S) + 1
    BY FS_AddElement, Zenon
  <1>3. IsFiniteSet(S \cup {x})
    BY FS_AddElement
  <1>4. QED
    BY <1>1, <1>2, <1>3

(* Every set of entries is finite, and every set of reports. *)
LEMMA Finite ==
  /\ \A S \in SUBSET Entries : IsFiniteSet(S)
  /\ \A S \in SUBSET (Entries \X Stages) : IsFiniteSet(S)
  <1>1. IsFiniteSet(Stages)
    <2>1. Stages = {"open"} \cup ({"getdents64"} \cup ({"path-too-long"} \cup
                   ({"stat"} \cup {"dirent-reader-alloc"})))
      BY DEF Stages
    <2>2. QED
      BY <2>1, FS_Singleton, FS_Union
  <1>2. IsFiniteSet(Entries \X Stages)
    BY <1>1, FaultAssumption, FS_Product
  <1>3. QED
    BY <1>2, FaultAssumption, FS_Subset

(* The files among what was visited. *)
Files == {e \in visited : EntryKind(e) = "file"}

(* The statistics, in the words of the walk. *)
Exact ==
  /\ stats["files"] = Cardinality(Files)
  /\ stats["directories"] = Cardinality(opened)
  /\ stats["errors"] >= Cardinality(reported)
  /\ stats["errors"] = 0 <=> reported = {}

(* The promise counts as the walk does. *)
LEMMA SameCardinality == ASSUME NEW S PROVE Promise!Cardinality(S) = Cardinality(S)
  BY DEF Promise!Cardinality, Cardinality

(* So the two state the same. *)
LEMMA ExactIsExact == Exact <=> Promise!StatsExact
  <1>1. Files = {e \in visited : Promise!EntryKind(e) = "file"}
    BY SameEntries DEF Files
  <1>2. QED
    BY <1>1, SameCardinality DEF Exact, Promise!StatsExact

(* An error that is counted is reported, perhaps once more. *)
LEMMA ReportExact ==
  ASSUME TypeOK, Exact, NEW path \in Entries, NEW stage \in Stages, ReportError(path, stage),
         UNCHANGED <<opened, visited>>
  PROVE  Exact'
  <1>1. /\ stats'["errors"] = stats["errors"] + 1 /\ stats["errors"] \in Nat
        /\ stats'["files"] = stats["files"] /\ stats'["directories"] = stats["directories"]
    BY DEF ReportError, Count, TypeOK, Counters
  <1>2. /\ Cardinality(reported') <= Cardinality(reported) + 1 /\ Cardinality(reported) \in Nat
        /\ Cardinality(reported') \in Nat /\ reported' # {}
    <2>1. IsFiniteSet(reported)
      BY Finite DEF TypeOK
    <2>2. QED
      BY <2>1, CountOne, FS_CardinalityType DEF ReportError
  <1>3. Files' = Files
    BY DEF Files, EntryKind, FollowsLink
  <1>4. QED
    BY <1>1, <1>2, <1>3 DEF Exact

(* What is neither opened, visited nor reported leaves these counters alone. *)
LEMMA SameExact ==
  ASSUME TypeOK, Exact, UNCHANGED <<opened, visited, reported>>,
         UNCHANGED stats \/ Count("skipped")
  PROVE  Exact'
  <1>1. \A c \in {"files", "directories", "errors"} : stats'[c] = stats[c]
    BY DEF Count, TypeOK, Counters
  <1>2. Files' = Files
    BY DEF Files, EntryKind, FollowsLink
  <1>3. QED
    BY <1>1, <1>2 DEF Exact

(* Nothing is counted twice, because nothing is opened or visited twice. *)
LEMMA ExactNext ==
  ASSUME Inv, Exact, [Next]_vars
  PROVE  Exact'
  <1> USE DEF Inv
  <1>0. {"open", "getdents64", "path-too-long", "stat", "dirent-reader-alloc"} \subseteq Stages
        /\ cur \in Entries
    BY DEF Stages, TypeOK
  <1>1. CASE Start \/ Stop \/ FailVisit \/ Leave \/ UNCHANGED vars
    BY <1>1, SameExact DEF Start, Stop, FailVisit, Leave, history, vars
  <1>2. CASE Enter
    <2>1. CASE ReportError(cur, "open") /\ UNCHANGED <<opened, visited>>
      BY <1>0, <2>1, ReportExact
    <2>2. CASE Count("directories") /\ opened' = opened \cup {cur} /\ UNCHANGED <<visited, reported>>
      <3>1. IsFiniteSet(opened)
        BY Finite DEF TypeOK
      <3>2. cur \notin opened
        BY <1>2 DEF Enter, Once
      <3>3. /\ stats'["directories"] = stats["directories"] + 1
            /\ stats'["files"] = stats["files"] /\ stats'["errors"] = stats["errors"]
        BY <2>2 DEF Count, TypeOK, Counters
      <3>4. Files' = Files
        BY <2>2 DEF Files, EntryKind, FollowsLink
      <3>5. Cardinality(opened') = Cardinality(opened) + 1
        BY <2>2, <3>1, <3>2, CountOne
      <3>6. QED
        BY <2>2, <3>3, <3>4, <3>5 DEF Exact
    <2>3. QED
      BY <1>2, <2>1, <2>2 DEF Enter
  <1>3. CASE AllocateReader
    <2>1. CASE NoError /\ UNCHANGED <<opened, visited>>
      BY <2>1, SameExact DEF NoError
    <2>2. CASE ReportError(cur, "dirent-reader-alloc") /\ UNCHANGED <<opened, visited>>
      BY <1>0, <2>2, ReportExact
    <2>3. QED
      BY <1>3, <2>1, <2>2 DEF AllocateReader
  <1>4. CASE Iterate
    <2>1. UNCHANGED <<opened, visited>>
      BY <1>4 DEF Iterate
    <2>2. CASE NoError \/ (Count("skipped") /\ UNCHANGED reported)
      BY <2>1, <2>2, SameExact DEF NoError
    <2>3. CASE ReportError(cur, "getdents64") \/ ReportError(cur, "path-too-long")
      BY <1>0, <2>1, <2>3, ReportExact
    <2>4. ASSUME NEW e \in Children(cur), ReportError(e, "stat") PROVE Exact'
      BY <1>0, <2>1, <2>4, ReportExact DEF Children
    <2>5. ASSUME NEW e \in Children(cur), ClassifyEntry(e) PROVE Exact'
      BY <2>2, <2>3, <2>4, <2>5, ClassifyOutcomes DEF Children
    <2>6. QED
      BY <1>4, <2>2, <2>3, <2>5, IterateOutcomes
  <1>5. CASE Visit
    <2>1. /\ visited' = visited \cup {item} /\ item \notin visited
          /\ UNCHANGED <<opened, reported>>
      BY <1>5 DEF Visit, Once
    <2>2. CASE EntryKind(item) = "file"
      <3>1. Count("files")
        BY <1>5, <2>2 DEF Visit
      <3>2. /\ stats'["files"] = stats["files"] + 1
            /\ stats'["directories"] = stats["directories"] /\ stats'["errors"] = stats["errors"]
        BY <3>1 DEF Count, TypeOK, Counters
      <3>3. Files' = Files \cup {item} /\ item \notin Files
        BY <2>1, <2>2 DEF Files, EntryKind, FollowsLink
      <3>4. IsFiniteSet(Files)
        BY Finite DEF TypeOK, Files
      <3>5. Cardinality(Files') = Cardinality(Files) + 1
        BY <3>3, <3>4, CountOne
      <3>6. QED
        BY <2>1, <3>2, <3>5 DEF Exact
    <2>3. CASE EntryKind(item) # "file"
      <3>1. stats' = stats
        BY <1>5, <2>3 DEF Visit
      <3>2. Files' = Files
        BY <2>1, <2>3 DEF Files, EntryKind, FollowsLink
      <3>3. QED
        BY <2>1, <3>1, <3>2 DEF Exact
    <2>4. QED
      BY <2>2, <2>3
  <1>6. QED
    BY <1>1, <1>2, <1>3, <1>4, <1>5 DEF Next, Step, Returned

(* The statistics are exact at every step of a walk by one thread. *)
LEMMA ExactAlways == Spec => []Exact
  <1>1. Init => Exact
    BY FS_EmptySet DEF Init, Exact, Files, Counters
  <1>2. QED
    BY <1>1, ExactNext, InvAlways, PTL DEF Spec

-----------------------------------------------------------------------------
(* A call that reports an error may do so. *)
LEMMA ReportAllowed ==
  ASSUME Inv, NEW p \in Entries, NEW s \in Stages, ReportError(p, s),
         p = cur \/ (Parent[p] = cur /\ cur \in descriptors), result = "none",
         UNCHANGED <<opened, visited, visit_failed, stopped, result>>
  PROVE  Promise!Next
  <1>1. Promise!Enterable(p) \/ Parent[p] \in opened
    BY OnPathStep DEF Inv, Once, TypeOK
  <1>2. Promise!Report(p, s)
    BY <1>1 DEF Promise!Report, ReportError
  <1>3. s \in Promise!Stages
    BY DEF Stages, Promise!Stages
  <1>4. QED
    BY <1>2, <1>3 DEF Promise!Next

(* When the outermost call is left, nothing that was promised is missing. *)
LEMMA RootIsLast ==
  ASSUME Inv, Work, pc = "leave", cur = Root, ~ visit_failed, ~ stopped
  PROVE  Promise!Complete
  <1>1. Good
    BY DEF Good
  <1>2. \A d \in Entries : Promise!Enterable(d) => Promise!DirectoryAccounted(d)
    BY <1>1 DEF Work, EnterableAccounted
  <1>3. ASSUME NEW d \in opened, NEW e \in Children(d), Wanted(e)
        PROVE  Promise!EntryAccounted(e)
    <2>1. d \notin descriptors \/ d = cur
      BY OnPathStep, EntryAssumption DEF Inv, Nesting
    <2>2. Listed(d) /\ Parent[e] = d
      BY <1>1, <2>1 DEF Work, LeftListed, Children
    <2>3. QED
      BY <1>1, <1>3, <2>2 DEF Listed, Work, SeenAccounted, Promise!EntryAccounted
  <1>4. QED
    BY <1>2, <1>3, SameEntries DEF Promise!Complete

(* Every step is one the promise allows, or none that the caller observes. *)
LEMMA StepAllowed ==
  ASSUME Inv, Work, Exact, [Next]_vars
  PROVE  [Promise!Next]_(Promise!vars)
  <1> USE DEF Inv
  <1>0. /\ {"open", "getdents64", "path-too-long", "stat", "dirent-reader-alloc"} \subseteq Stages
        /\ cur \in Entries /\ cur \in OnPath[cur]
    BY OnPathStep DEF Stages, TypeOK
  <1>1. ASSUME UNCHANGED <<history, visit_failed, result>> PROVE UNCHANGED Promise!vars
    BY <1>1 DEF history, Promise!vars
  <1>2. CASE Start
    <2>1. result = "none" /\ UNCHANGED <<history, visit_failed>>
      BY <1>2 DEF Start, Nesting
    <2>2. CASE result' = "false"
      BY <2>1, <2>2, ExactIsExact DEF Promise!Next, Promise!Return, history
    <2>3. CASE UNCHANGED result
      BY <1>1, <2>1, <2>3
    <2>4. QED
      BY <1>2, <2>2, <2>3 DEF Start
  <1>3. CASE Stop
    BY <1>3 DEF Stop, Nesting, Promise!Next, Promise!Stop
  <1>4. CASE Enter
    <2>1. result = "none" /\ UNCHANGED <<visit_failed, result, visited, stopped>> /\ cur \notin opened
      BY <1>4 DEF Enter, Nesting, Once
    <2>2. CASE ReportError(cur, "open") /\ UNCHANGED opened
      BY <1>0, <2>1, <2>2, ReportAllowed
    <2>3. CASE opened' = opened \cup {cur} /\ UNCHANGED reported
      BY <1>0, <2>1, <2>3 DEF Promise!Next, Promise!Open, Once
    <2>4. QED
      BY <1>4, <2>2, <2>3 DEF Enter
  <1>5. CASE AllocateReader
    <2>1. result = "none" /\ UNCHANGED <<visit_failed, result, opened, visited, stopped>>
      BY <1>5 DEF AllocateReader, Nesting
    <2>2. CASE ReportError(cur, "dirent-reader-alloc")
      BY <1>0, <2>1, <2>2, ReportAllowed
    <2>3. CASE NoError
      BY <1>1, <2>1, <2>3 DEF NoError, history
    <2>4. QED
      BY <1>5, <2>2, <2>3 DEF AllocateReader
  <1>6. CASE Iterate
    <2>1. /\ result = "none" /\ UNCHANGED <<visit_failed, result, opened, visited, stopped>>
          /\ cur \in descriptors
      BY <1>6 DEF Iterate, Nesting, Inside
    <2>2. CASE UNCHANGED reported
      BY <1>1, <2>1, <2>2 DEF history
    <2>3. CASE ReportError(cur, "getdents64") \/ ReportError(cur, "path-too-long")
      BY <1>0, <2>1, <2>3, ReportAllowed
    <2>4. ASSUME NEW e \in Children(cur), ReportError(e, "stat") PROVE Promise!Next
      BY <1>0, <2>1, <2>4, ReportAllowed DEF Children
    <2>5. ASSUME NEW e \in Children(cur), ClassifyEntry(e) PROVE [Promise!Next]_(Promise!vars)
      BY <2>2, <2>3, <2>4, <2>5, ClassifyOutcomes DEF Children, NoError
    <2>6. QED
      BY <1>6, <2>2, <2>3, <2>5, IterateOutcomes DEF NoError
  <1>7. CASE Visit
    <2>1. /\ result = "none" /\ UNCHANGED <<visit_failed, result, opened, reported, stopped>>
          /\ visited' = visited \cup {item}
      BY <1>7 DEF Visit, Nesting
    <2>2. item \in Entries /\ Wanted(item) /\ item \notin visited /\ item # Root /\ Parent[item] \in opened
      BY <1>7 DEF Visit, Once, Simple, Nesting, Inside, Children
    <2>3. QED
      BY <2>1, <2>2, SameEntries DEF Promise!Next, Promise!Visit
  <1>8. CASE FailVisit
    BY <1>8 DEF FailVisit, history, Nesting, Promise!Next, Promise!Fail
  <1>9. CASE Leave
    <2>1. result = "none" /\ UNCHANGED <<history, visit_failed>> /\ pc = "leave"
      BY <1>9 DEF Leave, Nesting
    <2>2. CASE cur # Root
      BY <1>1, <1>9, <2>1, <2>2 DEF Leave
    <2>3. CASE cur = Root
      <3>1. result' = (IF visit_failed THEN "false" ELSE "true")
        BY <1>9, <2>3 DEF Leave
      <3>2. CASE visit_failed
        BY <2>1, <3>1, <3>2, ExactIsExact DEF Promise!Next, Promise!Return, history
      <3>3. CASE ~ visit_failed
        <4>1. stopped \/ Promise!Complete
          BY <2>1, <2>3, <3>3, RootIsLast
        <4>2. QED
          BY <2>1, <3>1, <3>3, <4>1, ExactIsExact DEF Promise!Next, Promise!Return, history
      <3>4. QED
        BY <3>2, <3>3
    <2>4. QED
      BY <2>2, <2>3
  <1>10. CASE UNCHANGED vars
    BY <1>1, <1>10 DEF vars
  <1>11. QED
    BY <1>2, <1>3, <1>4, <1>5, <1>6, <1>7, <1>8, <1>9, <1>10 DEF Next, Step, Returned

(***************************************************************************)
(* The walk keeps the promise of every walk, but for its last clause, that *)
(* it returns: no entry is visited twice, or before its directory was      *)
(* opened; a true result without a stop accounts for every entry; and the  *)
(* statistics that go with a result are exact.                             *)
(***************************************************************************)
THEOREM SequentialIsWalk == Spec => Promise!Spec
  <1>1. Init => Promise!Init
    BY DEF Init, Promise!Init
  <1>2. QED
    BY <1>1, StepAllowed, InvAlways, WorkAlways, ExactAlways, PTL DEF Spec, Promise!Spec
===========================================================================
