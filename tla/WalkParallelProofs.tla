------------------------- MODULE WalkParallelProofs -------------------------
(***************************************************************************)
(* Proofs about WalkParallel, for every tree, every number of workers,     *)
(* every queue capacity and every set of faults.  OutstandingExact is      *)
(* inductive together with the types and with what holds in the phases of  *)
(* the calling thread.  That nothing is done twice is Fresh: an entry      *)
(* waits in the queue or is in the hands of one worker, never both.  That  *)
(* nothing is left out is Work: what was read, what is to be entered and   *)
(* what was opened is accounted for or some worker's business, on the path *)
(* from the directory it popped to the one it is in, which Rooted keeps.   *)
(***************************************************************************)
EXTENDS WalkParallel, FiniteSetTheorems, TLAPS

(* No worker runs before the tasks are submitted or after they have ended. *)
Phases ==
  /\ main \in {"setup", "submit"} => \A w \in Workers : pc[w] = "idle"
  /\ main = "setup" => outstanding = 0 /\ queue = {}
  /\ main = "done" => queue = {} /\ \A w \in Workers : pc[w] \in Ended

(***************************************************************************)
(* A push adds an element: an entry is returned once by the reader of its  *)
(* directory, so until it is pushed it is in the hands of one worker and   *)
(* nowhere else.                                                           *)
(***************************************************************************)
Holding == {"visit", "count"} \cup Pushing

(* Each entry is in the hands of one worker, or in the queue. *)
Handover ==
  /\ queue \subseteq seen \cup {Root}
  /\ \A w \in Workers : pc[w] \in Holding =>
       item[w] \in seen /\ item[w] # Root /\ item[w] \notin queue
  /\ \A w, v \in Workers :
       w # v /\ pc[w] \in Holding /\ pc[v] \in Holding => item[w] # item[v]

(* The inductive invariant for OutstandingExact. *)
Inv == TypeOK /\ Phases /\ Handover /\ OutstandingExact

-----------------------------------------------------------------------------
(***************************************************************************)
(* How many workers are at one of the labels L, before and after worker w  *)
(* goes to a label: what every step of a worker does to the terms of       *)
(* OutstandingExact.                                                       *)
(***************************************************************************)
LEMMA AtLabels ==
  ASSUME NEW L, pc \in [Workers -> Ended \cup Searching \cup Processing],
         NEW w \in Workers, NEW label, Goto(w, label)
  PROVE  LET before == {v \in Workers : pc[v] \in L}
             after == {v \in Workers : pc'[v] \in L}
         IN  /\ Cardinality(before) \in Nat
             /\ Cardinality(after) \in Nat
             /\ pc[w] \in L => Cardinality(before) >= 1
             /\ label \in L /\ pc[w] \in L => after = before
             /\ label \notin L /\ pc[w] \notin L => after = before
             /\ label \in L /\ pc[w] \notin L => Cardinality(after) = Cardinality(before) + 1
             /\ label \notin L /\ pc[w] \in L => Cardinality(after) = Cardinality(before) - 1
  <1> DEFINE before == {v \in Workers : pc[v] \in L}
             after == {v \in Workers : pc'[v] \in L}
  <1>1. pc' = [pc EXCEPT ![w] = label]
    BY DEF Goto
  <1>2. IsFiniteSet(before) /\ IsFiniteSet(after)
    <2>1. before \subseteq Workers /\ after \subseteq Workers
      OBVIOUS
    <2>2. QED
      BY <2>1, FS_Subset, WalkAssumption
  <1>3. Cardinality(before) \in Nat /\ Cardinality(after) \in Nat
    BY <1>2, FS_CardinalityType
  <1>4. ASSUME pc[w] \in L PROVE Cardinality(before) >= 1
    <2>1. w \in before
      BY <1>4
    <2>2. before # {}
      BY <2>1
    <2>3. Cardinality(before) # 0
      BY <2>2, <1>2, FS_EmptySet
    <2>4. QED
      BY <2>3, <1>3
  <1>5. ASSUME label \in L, pc[w] \in L PROVE after = before
    BY <1>1, <1>5
  <1>6. ASSUME label \notin L, pc[w] \notin L PROVE after = before
    BY <1>1, <1>6
  <1>7. ASSUME label \in L, pc[w] \notin L
        PROVE  Cardinality(after) = Cardinality(before) + 1
    <2>1. after = before \cup {w} /\ w \notin before
      BY <1>1, <1>7
    <2>2. QED
      BY <2>1, <1>2, FS_AddElement
  <1>8. ASSUME label \notin L, pc[w] \in L
        PROVE  Cardinality(after) = Cardinality(before) - 1
    <2>1. after = before \ {w} /\ w \in before
      BY <1>1, <1>8
    <2>2. QED
      BY <2>1, <1>2, FS_RemoveElement
  <1>9. QED
    BY <1>3, <1>4, <1>5, <1>6, <1>7, <1>8

(* The same for the two sets of workers that OutstandingExact counts. *)
LEMMA CountsOfGoto ==
  ASSUME TypeOK, NEW w \in Workers, NEW label, Goto(w, label)
  PROVE  /\ Cardinality(Claimed) \in Nat /\ Cardinality(Announcing) \in Nat
         /\ Cardinality(Claimed') \in Nat /\ Cardinality(Announcing') \in Nat
         /\ pc[w] \in Processing => Cardinality(Claimed) >= 1
         /\ label \in Processing /\ pc[w] \in Processing => Claimed' = Claimed
         /\ label \notin Processing /\ pc[w] \notin Processing => Claimed' = Claimed
         /\ label \in Processing /\ pc[w] \notin Processing
              => Cardinality(Claimed') = Cardinality(Claimed) + 1
         /\ label \notin Processing /\ pc[w] \in Processing
              => Cardinality(Claimed') = Cardinality(Claimed) - 1
         /\ pc[w] \in Pushing => Cardinality(Announcing) >= 1
         /\ label \in Pushing /\ pc[w] \in Pushing => Announcing' = Announcing
         /\ label \notin Pushing /\ pc[w] \notin Pushing => Announcing' = Announcing
         /\ label \in Pushing /\ pc[w] \notin Pushing
              => Cardinality(Announcing') = Cardinality(Announcing) + 1
         /\ label \notin Pushing /\ pc[w] \in Pushing
              => Cardinality(Announcing') = Cardinality(Announcing) - 1
  <1>1. pc \in [Workers -> Ended \cup Searching \cup Processing]
    BY DEF TypeOK
  <1>2. QED
    BY <1>1, AtLabels, Zenon DEF Claimed, Announcing

(* Steps of a worker that change no term of OutstandingExact. *)
LEMMA CountsKept ==
  ASSUME TypeOK, OutstandingExact, NEW w \in Workers, NEW label, Goto(w, label),
         UNCHANGED <<queue, outstanding, main>>,
         label \in Processing <=> pc[w] \in Processing,
         label \in Pushing <=> pc[w] \in Pushing
  PROVE  OutstandingExact'
  <1>1. Claimed' = Claimed
    BY CountsOfGoto, Zenon
  <1>2. Announcing' = Announcing
    BY CountsOfGoto, Zenon
  <1>3. QED
    BY <1>1, <1>2 DEF OutstandingExact

(* A task runs only while the calling thread waits for it. *)
LEMMA WorkersRunInWait ==
  ASSUME TypeOK, Phases, NEW w \in Workers, pc[w] \notin Ended
  PROVE  main = "wait"
  BY DEF TypeOK, Phases, Ended

(* The queue holds finitely many directories, so its size is a number. *)
LEMMA QueueIsFinite ==
  ASSUME TypeOK
  PROVE  IsFiniteSet(queue) /\ Cardinality(queue) \in Nat
  <1>1. queue \subseteq Entries
    BY DEF TypeOK
  <1>2. IsFiniteSet(queue)
    BY <1>1, FS_Subset, WalkAssumption
  <1>3. QED
    BY <1>2, FS_CardinalityType

(* Handover depends on what the workers hold and on the queue only. *)
LEMMA HandoverKept ==
  ASSUME TypeOK, Handover, NEW w \in Workers, NEW label, Goto(w, label),
         label \in Holding => pc[w] \in Holding,
         queue' \subseteq queue, UNCHANGED <<item, seen>>
  PROVE  Handover'
  <1>1. /\ \A v \in Workers : v # w => pc'[v] = pc[v]
        /\ pc'[w] = label
    BY DEF TypeOK, Goto
  <1>2. \A v \in Workers : pc'[v] \in Holding => pc[v] \in Holding
    BY <1>1
  <1>3. QED
    BY <1>2 DEF Handover

-----------------------------------------------------------------------------
(* Before the walk nothing is counted, queued or claimed. *)
LEMMA InvInit == Init => Inv
  <1> SUFFICES ASSUME Init PROVE Inv
    OBVIOUS
  <1>1. TypeOK
    BY EntryAssumption DEF Init, TypeOK, Ended
  <1>2. Phases
    BY DEF Init, Phases
  <1>3. Handover
    BY DEF Init, Handover, Holding, Pushing
  <1>4. OutstandingExact
    BY DEF Init, OutstandingExact
  <1>5. QED
    BY <1>1, <1>2, <1>3, <1>4 DEF Inv

(* The calling thread's steps preserve the invariant. *)
LEMMA InvMain == ASSUME Inv, Main PROVE Inv'
  <1> USE DEF Inv
  <1>1. CASE Reject
    <2>1. TypeOK'
      BY <1>1 DEF Reject, TypeOK, shared, local, history
    <2>2. Phases'
      BY <1>1 DEF Reject, Phases, Ended, shared
    <2>3. OutstandingExact'
      BY <1>1 DEF Reject, OutstandingExact
    <2>4. Handover'
      BY <1>1 DEF Reject, Handover, shared, local
    <2>5. QED
      BY <2>1, <2>2, <2>3, <2>4
  <1>2. CASE Seed
    <2>1. TypeOK'
      BY <1>2, EntryAssumption DEF Seed, TypeOK, local, history
    <2>2. Phases'
      BY <1>2 DEF Seed, Phases, Ended
    <2>3. OutstandingExact'
      <3>1. CASE main' = "submit"
        <4>1. queue' = {Root} /\ outstanding' = 1
          BY <1>2, <3>1 DEF Seed
        <4>2. Claimed' = {} /\ Announcing' = {}
          BY <1>2 DEF Seed, Phases, Claimed, Announcing, Processing, Pushing
        <4>3. Cardinality(queue') = 1 /\ Cardinality({}) = 0
          BY <4>1, FS_Singleton, FS_EmptySet
        <4>4. QED
          BY <4>1, <4>2, <4>3 DEF OutstandingExact
      <3>2. CASE main' = "done"
        BY <3>2 DEF OutstandingExact
      <3>3. QED
        BY <1>2, <3>1, <3>2 DEF Seed
    <2>4. Handover'
      BY <1>2 DEF Seed, Handover, Phases, Holding, Pushing, local
    <2>5. QED
      BY <2>1, <2>2, <2>3, <2>4
  <1>3. CASE Submit
    <2>1. PICK accepted \in SUBSET Workers :
            pc' = [w \in Workers |-> IF w \in accepted THEN "start" ELSE "idle"]
      BY <1>3 DEF Submit
    <2>2. TypeOK'
      BY <1>3, <2>1 DEF Submit, TypeOK, shared, local, history, Ended, Searching
    <2>3. Phases'
      BY <1>3 DEF Submit, Phases
    <2>4. Claimed' = Claimed /\ Announcing' = Announcing
      BY <1>3, <2>1 DEF Submit, Phases, Claimed, Announcing, Processing, Pushing
    <2>5. OutstandingExact'
      BY <1>3, <2>4 DEF Submit, OutstandingExact, shared
    <2>6. Handover'
      BY <1>3, <2>1 DEF Submit, Handover, Holding, Pushing, shared, local
    <2>7. QED
      BY <2>2, <2>3, <2>5, <2>6
  <1>4. CASE Return
    <2>1. TypeOK'
      BY <1>4 DEF Return, TypeOK, local, history
    <2>2. Phases'
      BY <1>4 DEF Return, Phases
    <2>3. OutstandingExact'
      BY <1>4 DEF Return, OutstandingExact
    <2>4. Handover'
      BY <1>4 DEF Return, Handover, local
    <2>5. QED
      BY <2>1, <2>2, <2>3, <2>4
  <1>5. QED
    BY <1>1, <1>2, <1>3, <1>4 DEF Main

(* The steps of a task outside a directory preserve the invariant. *)
LEMMA InvTask ==
  ASSUME Inv, NEW w \in Workers,
         StartWorker(w) \/ Poll(w) \/ Pop(w) \/ CheckOutstanding(w)
  PROVE  Inv'
  <1> USE DEF Inv
  <1>1. main = "wait"
    BY WorkersRunInWait DEF Ended, StartWorker, Poll, Pop, CheckOutstanding
  <1>2. Phases'
    BY <1>1 DEF Phases, StartWorker, Poll, Pop, CheckOutstanding
  <1>3. CASE StartWorker(w)
    <2>1. TypeOK'
      <3>1. reported' \subseteq Entries \X Stages
        BY <1>3, EntryAssumption DEF StartWorker, TypeOK, ReportError, NoError, Stages
      <3>2. stats' \in [Counters -> Nat]
        BY <1>3 DEF StartWorker, TypeOK, ReportError, NoError, Count, Counters
      <3>3. QED
        BY <1>3, <3>1, <3>2 DEF StartWorker, TypeOK, Goto, local, Ended, Searching
    <2>2. PICK label \in {"loop", "exited"} : Goto(w, label)
      BY <1>3 DEF StartWorker
    <2>3. OutstandingExact'
      BY <1>3, <2>2, CountsKept DEF StartWorker, Processing, Pushing
    <2>4. Handover'
      BY <1>3, <2>2, HandoverKept DEF StartWorker, Holding, Pushing, local
    <2>5. QED
      BY <1>2, <2>1, <2>3, <2>4
  <1>4. CASE Poll(w)
    <2>1. TypeOK'
      BY <1>4 DEF Poll, TypeOK, Goto, shared, local, Ended, Searching
    <2>2. PICK label \in {"pop", "exited"} : Goto(w, label)
      BY <1>4 DEF Poll
    <2>3. OutstandingExact'
      BY <1>4, <2>2, CountsKept DEF Poll, Processing, Pushing, shared
    <2>4. Handover'
      BY <1>4, <2>2, HandoverKept DEF Poll, Holding, Pushing, shared, local
    <2>5. QED
      BY <1>2, <2>1, <2>3, <2>4
  <1>5. CASE CheckOutstanding(w)
    <2>1. TypeOK'
      BY <1>5 DEF CheckOutstanding, TypeOK, Goto, shared, local, history, Ended, Searching
    <2>2. PICK label \in {"drained", "loop"} : Goto(w, label)
      BY <1>5 DEF CheckOutstanding
    <2>3. OutstandingExact'
      BY <1>5, <2>2, CountsKept DEF CheckOutstanding, Processing, Pushing, shared
    <2>4. Handover'
      BY <1>5, <2>2, HandoverKept DEF CheckOutstanding, Holding, Pushing, shared, local
    <2>5. QED
      BY <1>2, <2>1, <2>3, <2>4
  <1>6. CASE Pop(w)
    <2>1. TypeOK'
      BY <1>6 DEF Pop, TypeOK, Goto, history, Searching, Processing
    <2>2. OutstandingExact'
      <3>1. CASE Goto(w, "check") /\ UNCHANGED queue
        BY <1>6, <3>1, CountsKept DEF Pop, Processing, Pushing
      <3>2. ASSUME NEW d \in queue, queue' = queue \ {d}, Goto(w, "enter")
            PROVE  OutstandingExact'
        <4>1. Cardinality(queue') = Cardinality(queue) - 1 /\ Cardinality(queue) \in Nat
          BY <3>2, QueueIsFinite, FS_RemoveElement
        <4>2. Cardinality(Claimed') = Cardinality(Claimed) + 1 /\ Announcing' = Announcing
          <5>1. pc[w] \notin Processing /\ pc[w] \notin Pushing
            BY <1>6 DEF Pop, Processing, Pushing
          <5>2. "enter" \in Processing /\ "enter" \notin Pushing
            BY DEF Processing, Pushing
          <5>3. QED
            BY <3>2, <5>1, <5>2, CountsOfGoto, Zenon
        <4>3. Cardinality(Claimed) \in Nat /\ Cardinality(Announcing) \in Nat
          BY <3>2, CountsOfGoto, Zenon
        <4>4. UNCHANGED <<outstanding, main>>
          BY <1>6 DEF Pop
        <4>5. QED
          BY <4>1, <4>2, <4>3, <4>4 DEF OutstandingExact
      <3>3. QED
        BY <1>6, <3>1, <3>2 DEF Pop
    <2>3. Handover'
      <3>1. PICK label \in {"enter", "check"} : Goto(w, label)
        BY <1>6 DEF Pop
      <3>2. queue' \subseteq queue /\ UNCHANGED <<item, seen>>
        BY <1>6 DEF Pop
      <3>3. QED
        BY <3>1, <3>2, HandoverKept DEF Holding, Pushing
    <2>4. QED
      BY <1>2, <2>1, <2>2, <2>3
  <1>7. QED
    BY <1>3, <1>4, <1>5, <1>6

(* So do those inside a directory that neither push nor leave. *)
LEMMA InvDirectory ==
  ASSUME Inv, NEW w \in Workers, Enter(w) \/ Iterate(w) \/ Visit(w) \/ FailVisit(w)
  PROVE  Inv'
  <1> USE DEF Inv
  <1>1. main = "wait"
    BY WorkersRunInWait DEF Ended, Enter, Iterate, Visit, FailVisit
  <1>2. Phases'
    BY <1>1 DEF Phases, Enter, Iterate, Visit, FailVisit
  <1>3. CASE Enter(w)
    <2>1. TypeOK'
      BY <1>3 DEF Enter, TypeOK, Goto, ReportError, Count, NoError, Counters, Stages,
         shared, local, Processing
    <2>2. PICK label \in {"leave", "iterate"} : Goto(w, label)
      BY <1>3 DEF Enter
    <2>3. OutstandingExact'
      BY <1>3, <2>2, CountsKept DEF Enter, Processing, Pushing, shared
    <2>4. Handover'
      BY <1>3, <2>2, HandoverKept DEF Enter, Holding, Pushing, shared, local
    <2>5. QED
      BY <1>2, <2>1, <2>3, <2>4
  <1>4. CASE Iterate(w)
    <2>1. TypeOK'
      <3>1. Children(cur[w]) \subseteq Entries
        BY DEF Children
      <3>2. QED
        BY <1>4, <3>1 DEF Iterate, ClassifyEntry, TypeOK, Goto, ReportError, Count, NoError,
           Counters, Stages, shared, Processing
    <2>2. PICK label \in {"leave", "iterate", "visit"} : Goto(w, label)
      BY <1>4 DEF Iterate, ClassifyEntry
    <2>3. OutstandingExact'
      BY <1>4, <2>2, CountsKept DEF Iterate, Processing, Pushing, shared
    <2>4. Handover'
      <3>1. CASE UNCHANGED <<seen, item>> /\ Goto(w, "leave")
        BY <1>4, <3>1, HandoverKept DEF Iterate, Holding, Pushing, shared
      <3>2. ASSUME NEW e \in Children(cur[w]) \ seen, seen' = seen \cup {e},
                   item' = [item EXCEPT ![w] = e]
            PROVE  Handover'
        <4>1. e # Root /\ e \notin queue
          BY <3>2 DEF Children, Handover
        <4>2. /\ \A v \in Workers : v # w => pc'[v] = pc[v] /\ item'[v] = item[v]
              /\ item'[w] = e
          BY <2>2, <3>2 DEF TypeOK, Goto
        <4>3. \A v \in Workers : v # w /\ pc[v] \in Holding => item[v] # e
          BY <3>2 DEF Handover
        <4>4. queue' = queue
          BY <1>4 DEF Iterate, shared
        <4>5. QED
          BY <3>2, <4>1, <4>2, <4>3, <4>4 DEF Handover
      <3>3. QED
        BY <1>4, <3>1, <3>2 DEF Iterate
    <2>5. QED
      BY <1>2, <2>1, <2>3, <2>4
  <1>5. CASE Visit(w)
    <2>1. TypeOK'
      BY <1>5 DEF Visit, TypeOK, Goto, Count, Counters, shared, local, Processing
    <2>2. PICK label \in {"count", "iterate", "fail"} : Goto(w, label)
      BY <1>5 DEF Visit
    <2>3. OutstandingExact'
      BY <1>5, <2>2, CountsKept DEF Visit, Processing, Pushing, shared
    <2>4. Handover'
      BY <1>5, <2>2, HandoverKept DEF Visit, Holding, Pushing, shared, local
    <2>5. QED
      BY <1>2, <2>1, <2>3, <2>4
  <1>6. CASE FailVisit(w)
    <2>1. TypeOK'
      BY <1>6 DEF FailVisit, TypeOK, Goto, local, history, Processing
    <2>2. OutstandingExact'
      BY <1>6, CountsKept DEF FailVisit, Processing, Pushing
    <2>3. Handover'
      BY <1>6, HandoverKept DEF FailVisit, Holding, Pushing, local
    <2>4. QED
      BY <1>2, <2>1, <2>2, <2>3
  <1>7. QED
    BY <1>3, <1>4, <1>5, <1>6

(* And those that count, push, take back or release a directory. *)
LEMMA InvClaims ==
  ASSUME Inv, NEW w \in Workers,
         CountSubdirectory(w) \/ PushSubdirectory(w) \/ WalkInline(w) \/ Leave(w)
  PROVE  Inv'
  <1> USE DEF Inv
  <1>1. main = "wait"
    BY WorkersRunInWait
       DEF Ended, CountSubdirectory, PushSubdirectory, WalkInline, Leave
  <1>2. Phases'
    BY <1>1 DEF Phases, CountSubdirectory, PushSubdirectory, WalkInline, Leave
  <1>3. Cardinality(queue) \in Nat
    BY QueueIsFinite
  <1>4. CASE CountSubdirectory(w)
    <2>1. TypeOK'
      BY <1>4 DEF CountSubdirectory, TypeOK, Goto, local, history, Processing, Pushing
    <2>2. Goto(w, "push") /\ UNCHANGED <<queue, main>> /\ outstanding' = outstanding + 1
      BY <1>4 DEF CountSubdirectory
    <2>3. /\ pc[w] \in Processing /\ pc[w] \notin Pushing
          /\ "push" \in Processing /\ "push" \in Pushing
      BY <1>4 DEF CountSubdirectory, Processing, Pushing
    <2>4. Claimed' = Claimed /\ Cardinality(Announcing') = Cardinality(Announcing) + 1
      BY <2>2, <2>3, CountsOfGoto, Zenon
    <2>5. Cardinality(Claimed) \in Nat /\ Cardinality(Announcing) \in Nat
      BY <2>2, CountsOfGoto, Zenon
    <2>6. OutstandingExact'
      BY <1>3, <2>2, <2>4, <2>5 DEF OutstandingExact
    <2>7. Handover'
      BY <1>4, <2>2, HandoverKept DEF CountSubdirectory, Holding, local
    <2>8. QED
      BY <1>2, <2>1, <2>6, <2>7
  <1>5. CASE PushSubdirectory(w)
    <2>1. TypeOK'
      BY <1>5 DEF PushSubdirectory, TypeOK, Goto, local, history, Processing, Pushing
    <2>2. OutstandingExact'
      <3>1. CASE Goto(w, "uncount") /\ UNCHANGED queue
        BY <1>5, <3>1, CountsKept DEF PushSubdirectory, Processing, Pushing
      <3>2. CASE queue' = queue \cup {item[w]} /\ Goto(w, "iterate")
        <4>1. /\ pc[w] \in Processing /\ pc[w] \in Pushing
              /\ "iterate" \in Processing /\ "iterate" \notin Pushing
          BY <1>5 DEF PushSubdirectory, Processing, Pushing
        <4>2. Claimed' = Claimed /\ Cardinality(Announcing') = Cardinality(Announcing) - 1
          BY <3>2, <4>1, CountsOfGoto, Zenon
        <4>3. Cardinality(Claimed) \in Nat /\ Cardinality(Announcing) \in Nat
          BY <3>2, CountsOfGoto, Zenon
        <4>4. Cardinality(queue') = Cardinality(queue) + 1
          <5>1. item[w] \notin queue
            BY <4>1 DEF Handover, Holding
          <5>2. QED
            BY <3>2, <5>1, QueueIsFinite, FS_AddElement
        <4>5. QED
          BY <1>3, <1>5, <4>2, <4>3, <4>4 DEF OutstandingExact, PushSubdirectory
      <3>3. QED
        BY <1>5, <3>1, <3>2 DEF PushSubdirectory
    <2>3. Handover'
      <3>1. pc[w] \in Holding /\ UNCHANGED <<item, seen>>
        BY <1>5 DEF PushSubdirectory, Holding, Pushing, local
      <3>2. CASE Goto(w, "uncount") /\ UNCHANGED queue
        BY <3>1, <3>2, HandoverKept
      <3>3. CASE queue' = queue \cup {item[w]} /\ Goto(w, "iterate")
        <4>1. pc'[w] \notin Holding /\ \A v \in Workers : v # w => pc'[v] = pc[v]
          BY <3>3 DEF TypeOK, Goto, Holding, Pushing
        <4>2. QED
          BY <3>1, <3>3, <4>1 DEF Handover
      <3>4. QED
        BY <1>5, <3>2, <3>3 DEF PushSubdirectory
    <2>4. QED
      BY <1>2, <2>1, <2>2, <2>3
  <1>6. CASE WalkInline(w)
    <2>1. PICK label \in {"enter", "iterate"} : Goto(w, label)
      BY <1>6 DEF WalkInline
    <2>2. /\ pc[w] \in Processing /\ pc[w] \in Pushing
          /\ label \in Processing /\ label \notin Pushing
      BY <1>6, <2>1 DEF WalkInline, Processing, Pushing
    <2>3. Claimed' = Claimed /\ Cardinality(Announcing') = Cardinality(Announcing) - 1
      BY <2>1, <2>2, CountsOfGoto, Zenon
    <2>4. /\ Cardinality(Claimed) \in Nat /\ Cardinality(Announcing) \in Nat
          /\ Cardinality(Claimed) >= 1
      BY <2>1, <2>2, CountsOfGoto, Zenon
    <2>5. outstanding' = outstanding - 1 /\ UNCHANGED <<queue, main>>
      BY <1>6 DEF WalkInline
    <2>6. OutstandingExact'
      BY <1>1, <1>3, <2>3, <2>4, <2>5 DEF OutstandingExact
    <2>7. outstanding' \in Nat
      <3>1. Cardinality(Announcing) >= 1
        BY <2>1, <2>2, CountsOfGoto, Zenon
      <3>2. QED
        BY <1>1, <1>3, <2>4, <2>5, <3>1 DEF OutstandingExact
    <2>8. TypeOK'
      BY <1>6, <2>7 DEF WalkInline, TypeOK, Goto, ReportError, Count, NoError, Counters,
         Stages, Processing, Pushing
    <2>9. Handover'
      BY <1>6, <2>1, HandoverKept DEF WalkInline, Holding, Pushing
    <2>10. QED
      BY <1>2, <2>6, <2>8, <2>9
  <1>7. CASE Leave(w)
    <2>1. CASE cur[w] # base[w]
      <3>1. Goto(w, "iterate") /\ UNCHANGED <<queue, outstanding, main>>
        BY <1>7, <2>1 DEF Leave
      <3>2. OutstandingExact'
        BY <1>7, <3>1, CountsKept DEF Leave, Processing, Pushing
      <3>3. TypeOK'
        <4>1. Parent[cur[w]] \in Entries
          BY EntryAssumption DEF TypeOK
        <4>2. QED
          BY <1>7, <2>1, <4>1 DEF Leave, TypeOK, Goto, history, Processing
      <3>4. Handover'
        BY <1>7, <3>1, HandoverKept DEF Leave, Holding, Pushing
      <3>5. QED
        BY <1>2, <3>2, <3>3, <3>4
    <2>2. CASE cur[w] = base[w]
      <3>1. Goto(w, "loop") /\ outstanding' = outstanding - 1 /\ UNCHANGED <<queue, cur, main>>
        BY <1>7, <2>2 DEF Leave
      <3>2. /\ pc[w] \in Processing /\ pc[w] \notin Pushing
            /\ "loop" \notin Processing /\ "loop" \notin Pushing
        BY <1>7 DEF Leave, Processing, Pushing
      <3>3. Cardinality(Claimed') = Cardinality(Claimed) - 1 /\ Announcing' = Announcing
        BY <3>1, <3>2, CountsOfGoto, Zenon
      <3>4. /\ Cardinality(Claimed) \in Nat /\ Cardinality(Announcing) \in Nat
            /\ Cardinality(Claimed) >= 1
        BY <3>1, <3>2, CountsOfGoto, Zenon
      <3>5. OutstandingExact' /\ outstanding' \in Nat
        BY <1>1, <1>3, <3>1, <3>3, <3>4 DEF OutstandingExact
      <3>6. TypeOK'
        BY <1>7, <3>1, <3>5 DEF Leave, TypeOK, Goto, history, Searching
      <3>7. Handover'
        BY <1>7, <3>1, HandoverKept DEF Leave, Holding, Pushing
      <3>8. QED
        BY <1>2, <3>5, <3>6, <3>7
    <2>3. QED
      BY <2>1, <2>2
  <1>8. QED
    BY <1>4, <1>5, <1>6, <1>7

(* A step that changes nothing keeps the invariant. *)
LEMMA InvUnchanged == ASSUME Inv, UNCHANGED vars PROVE Inv'
  BY DEF Inv, TypeOK, Phases, Handover, OutstandingExact, Claimed, Announcing,
         vars, shared, local, history

(* Every step of the walk keeps the invariant. *)
LEMMA InvNext == Inv /\ [Next]_vars => Inv'
  <1> SUFFICES ASSUME Inv, [Next]_vars PROVE Inv'
    OBVIOUS
  <1>1. CASE Main
    BY <1>1, InvMain
  <1>2. ASSUME NEW w \in Workers, Worker(w) PROVE Inv'
    BY <1>2, InvTask, InvDirectory, InvClaims DEF Worker
  <1>3. CASE Returned \/ UNCHANGED vars
    BY <1>3, InvUnchanged DEF Returned
  <1>4. QED
    BY <1>1, <1>2, <1>3 DEF Next

(* So it holds always. *)
LEMMA InvAlways == Spec => []Inv
  BY InvInit, InvNext, PTL DEF Spec

-----------------------------------------------------------------------------
(* Every variable keeps its type; in particular the count, a signed int in *)
(* the code, never goes below zero.                                        *)
THEOREM TypeCorrect == Spec => []TypeOK
  <1>1. Inv => TypeOK
    BY DEF Inv
  <1>2. QED
    BY <1>1, InvAlways, PTL

(* outstanding_directory_count is exact: see OutstandingExact. *)
THEOREM CountIsExact == Spec => []OutstandingExact
  <1>1. Inv => OutstandingExact
    BY DEF Inv
  <1>2. QED
    BY <1>1, InvAlways, PTL

-----------------------------------------------------------------------------
(***************************************************************************)
(* Once a worker has drained out and there is no work left, there will be  *)
(* none: only a worker inside a directory adds any.                        *)
(***************************************************************************)
LEMMA QuietStep ==
  ASSUME Inv, queue = {}, Claimed = {}, NEW u \in Workers, pc[u] = "drained", [Next]_vars
  PROVE  queue' = {} /\ Claimed' = {} /\ UNCHANGED <<opened, visited>>
  <1> USE DEF Inv
  <1>1. \A v \in Workers : pc[v] \notin Processing
    BY DEF Claimed
  <1>2. CASE Main
    <2>1. main \notin {"setup", "submit"}
      BY DEF Phases
    <2>2. Return
      BY <1>2, <2>1 DEF Main, Reject, Seed, Submit
    <2>3. QED
      BY <2>2 DEF Return, Claimed, history
  <1>3. ASSUME NEW w \in Workers, Worker(w)
        PROVE  queue' = {} /\ Claimed' = {} /\ UNCHANGED <<opened, visited>>
    <2>1. StartWorker(w) \/ Poll(w) \/ Pop(w) \/ CheckOutstanding(w)
      BY <1>1, <1>3 DEF Worker, Enter, Iterate, Visit, FailVisit, CountSubdirectory,
         PushSubdirectory, WalkInline, Leave, Processing, Pushing
    <2>2. queue' = {} /\ UNCHANGED <<opened, visited>>
      BY <2>1 DEF StartWorker, Poll, Pop, CheckOutstanding, shared, history
    <2>3. PICK label \in Ended \cup Searching : Goto(w, label)
      BY <2>1 DEF StartWorker, Poll, Pop, CheckOutstanding, Ended, Searching
    <2>4. label \notin Processing
      BY <2>3 DEF Ended, Searching, Processing, Pushing
    <2>5. Claimed' = Claimed
      BY <1>1, <2>3, <2>4, CountsOfGoto, Zenon
    <2>6. QED
      BY <2>2, <2>5
  <1>4. CASE Returned \/ UNCHANGED vars
    BY <1>4 DEF Returned, vars, shared, history, Claimed
  <1>5. QED
    BY <1>2, <1>3, <1>4 DEF Next

(* A count of zero leaves no room for any of the three terms. *)
LEMMA ZeroMeansNoWork ==
  ASSUME Inv, main = "wait", outstanding = 0, NEW w \in Workers, NEW label, Goto(w, label)
  PROVE  queue = {} /\ Claimed = {}
  <1> USE DEF Inv
  <1>1. /\ Cardinality(queue) \in Nat /\ Cardinality(Claimed) \in Nat
        /\ Cardinality(Announcing) \in Nat
    BY QueueIsFinite, CountsOfGoto, Zenon
  <1>2. Cardinality(queue) = 0 /\ Cardinality(Claimed) = 0
    BY <1>1 DEF OutstandingExact
  <1>3. IsFiniteSet(Claimed)
    <2>1. Claimed \subseteq Workers
      BY DEF Claimed
    <2>2. QED
      BY <2>1, FS_Subset, WalkAssumption
  <1>4. QED
    BY <1>2, <1>3, QueueIsFinite, FS_EmptySet

(* A worker stops at a count of zero, and no step after it makes work. *)
LEMMA NoEarlyTerminationNext ==
  ASSUME Inv, NoEarlyTermination, [Next]_vars
  PROVE  NoEarlyTermination'
  <1> USE DEF Inv
  <1>1. CASE \E u \in Workers : pc[u] = "drained"
    BY <1>1, QuietStep DEF NoEarlyTermination
  <1>2. CASE ~ \E u \in Workers : pc[u] = "drained"
    <2>1. SUFFICES ASSUME NEW u \in Workers, pc'[u] = "drained"
                   PROVE  queue' = {} /\ Claimed' = {}
      BY DEF NoEarlyTermination
    <2>2. PICK w \in Workers : Worker(w)
      <3>1. pc' # pc
        BY <1>2, <2>1
      <3>2. ~ Submit
        BY <2>1 DEF Submit
      <3>3. QED
        BY <3>1, <3>2 DEF Next, Main, Reject, Seed, Return, Returned, vars
    <2>3. CheckOutstanding(w)
      BY <1>2, <2>1, <2>2 DEF Worker, StartWorker, Poll, Pop, Enter, Iterate, ClassifyEntry,
         Visit, FailVisit, CountSubdirectory, PushSubdirectory, WalkInline, Leave, Goto, TypeOK
    <2>4. Goto(w, "drained") /\ outstanding = 0 /\ pc[w] = "check"
      BY <1>2, <2>1, <2>3 DEF CheckOutstanding, Goto, TypeOK
    <2>5. queue = {} /\ Claimed = {}
      <3>1. main = "wait"
        BY <2>4, WorkersRunInWait DEF Ended
      <3>2. QED
        BY <2>4, <3>1, ZeroMeansNoWork
    <2>6. Claimed' = Claimed
      <3>1. "drained" \notin Processing /\ pc[w] \notin Processing
        BY <2>4 DEF Processing, Pushing
      <3>2. QED
        BY <2>4, <3>1, CountsOfGoto, Zenon
    <2>7. QED
      BY <2>3, <2>5, <2>6 DEF CheckOutstanding, shared
  <1>3. QED
    BY <1>1, <1>2

(* A worker that saw the count at zero leaves no work behind. *)
THEOREM TerminationIsSound == Spec => []NoEarlyTermination
  <1>1. Init => NoEarlyTermination
    BY DEF Init, NoEarlyTermination
  <1>2. Inv /\ NoEarlyTermination /\ [Next]_vars => NoEarlyTermination'
    BY NoEarlyTerminationNext
  <1>3. QED
    BY <1>1, <1>2, InvAlways, PTL DEF Spec

(* After that no directory is opened and no entry visited by anyone. *)
THEOREM DrainIsQuiet == Spec => QuietAfterDrain
  <1>1. ASSUME Inv, NoEarlyTermination, [Next]_vars
        PROVE  [(\E w \in Workers : pc[w] = "drained") => UNCHANGED <<opened, visited>>]_vars
    <2>1. ASSUME NEW u \in Workers, pc[u] = "drained" PROVE UNCHANGED <<opened, visited>>
      BY <1>1, <2>1, QuietStep DEF NoEarlyTermination
    <2>2. QED
      BY <2>1
  <1>2. QED
    BY <1>1, InvAlways, TerminationIsSound, PTL DEF Spec, QuietAfterDrain

-----------------------------------------------------------------------------
(***************************************************************************)
(* The flag is loaded between two visits of a worker, so that a worker on  *)
(* its way to a visit has made none since the flag was set.                *)
(***************************************************************************)
Overshoot ==
  /\ ~ visit_failed => \A w \in Workers : late[w] = 0
  /\ \A w \in Workers : pc[w] = "visit" => late[w] = 0
  /\ BoundedOvershoot

(* Every step keeps each worker's visits after the failure within one. *)
LEMMA OvershootNext ==
  ASSUME TypeOK, Overshoot, [Next]_vars
  PROVE  Overshoot'
  <1> USE DEF Overshoot, BoundedOvershoot
  <1>1. CASE Main
    BY <1>1 DEF Main, Reject, Seed, Submit, Return, shared, history
  <1>2. ASSUME NEW w \in Workers, Worker(w) PROVE Overshoot'
    <2>1. CASE Visit(w)
      BY <1>2, <2>1 DEF Visit, TypeOK, Goto, shared
    <2>2. CASE Iterate(w)
      BY <1>2, <2>2 DEF Iterate, ClassifyEntry, TypeOK, Goto, shared
    <2>3. CASE ~ Visit(w) /\ ~ Iterate(w)
      <3>1. UNCHANGED late /\ (visit_failed => visit_failed')
        BY <1>2, <2>3 DEF Worker, StartWorker, Poll, Pop, CheckOutstanding, Enter, FailVisit,
           CountSubdirectory, PushSubdirectory, WalkInline, Leave, shared, history
      <3>2. \A v \in Workers : pc'[v] = "visit" => pc[v] = "visit"
        BY <1>2, <2>3 DEF Worker, StartWorker, Poll, Pop, CheckOutstanding, Enter, FailVisit,
           CountSubdirectory, PushSubdirectory, WalkInline, Leave, Goto, TypeOK
      <3>3. QED
        BY <3>1, <3>2
    <2>4. QED
      BY <2>1, <2>2, <2>3
  <1>3. CASE Returned \/ UNCHANGED vars
    BY <1>3 DEF Returned, vars, shared, history
  <1>4. QED
    BY <1>1, <1>2, <1>3 DEF Next

(* After a failed visit each worker visits at most one more entry. *)
THEOREM OvershootIsBounded == Spec => []BoundedOvershoot
  <1>1. Init => Overshoot
    BY DEF Init, Overshoot, BoundedOvershoot
  <1>2. TypeOK /\ Overshoot /\ [Next]_vars => Overshoot'
    BY OvershootNext
  <1>3. Overshoot => BoundedOvershoot
    BY DEF Overshoot
  <1>4. QED
    BY <1>1, <1>2, <1>3, TypeCorrect, PTL DEF Spec

-----------------------------------------------------------------------------
(* Directories below each other. *)

(* A set of entries that has the directory of each of its elements. *)
Closed(S) == \A x \in S : x # Root => Parent[x] \in S

(* b is met on the way from d to the root. *)
Below(d, b) == \A S \in SUBSET Entries : d \in S /\ Closed(S) => b \in S

-----------------------------------------------------------------------------
(* What the workers have in hand. *)

(* The entry a worker is about to visit, push or walk inline, or to open. *)
InHand == Holding \cup {"enter"}

(* Which entry that is. *)
Hand(w) == IF pc[w] = "enter" THEN cur[w] ELSE item[w]

(***************************************************************************)
(* An entry that waits in the queue or is in the hands of a worker is so   *)
(* in one place only, and has not been opened; one about to be visited has *)
(* not been visited.                                                       *)
(***************************************************************************)
Fresh ==
  /\ main = "setup" => opened = {} /\ visited = {}
  /\ opened \subseteq seen \cup {Root} /\ visited \subseteq seen
  /\ queue \cap opened = {}
  /\ \A w \in Workers : pc[w] = "visit" => item[w] \notin visited
  /\ \A w \in Workers : pc[w] \in InHand =>
       Hand(w) \in seen \cup {Root} /\ Hand(w) \notin opened /\ Hand(w) \notin queue
  /\ \A w, v \in Workers :
       w # v /\ pc[w] \in InHand /\ pc[v] \in InHand => Hand(w) # Hand(v)

(* Where a worker holds a subdirectory to push or to walk. *)
Counted == {"count"} \cup Pushing

(* Every directory in use is there for a reason, and below the one it was found in. *)
Rooted ==
  /\ \A d \in opened \cup queue : Abstract!Enterable(d)
  /\ \A e \in visited : e # Root /\ Parent[e] \in opened /\ Below(e, Root)
  /\ \A w \in Workers : pc[w] \in Processing =>
       Abstract!Enterable(cur[w]) /\ Below(cur[w], base[w])
  /\ \A w \in Workers : pc[w] \in Processing \ {"enter", "leave"} => cur[w] \in opened
  /\ \A w \in Workers : pc[w] \in Holding => item[w] # Root /\ Parent[item[w]] = cur[w]
  /\ \A w \in Workers : pc[w] = "visit" => Wanted(item[w])
  /\ \A w \in Workers : pc[w] \in Counted => item[w] \in visited /\ Descends(item[w])

(* Nobody has stopped the walk, and no visit has failed or is about to. *)
Good == ~ stopped /\ ~ visit_failed /\ \A w \in Workers : pc[w] # "fail"

(* The whole of d was read, or an error report says that it was not. *)
Listed(d) == Children(d) \subseteq seen \/ <<d, "getdents64">> \in reported

(* Worker w reads d, or will go on with it when it is back from below. *)
Active(w, d) ==
  /\ pc[w] \in Processing /\ Below(cur[w], d) /\ Below(d, base[w])
  /\ pc[w] \in {"enter", "leave"} => d # cur[w]

(* Every entry that was read is accounted for, or about to be visited. *)
SeenAccounted == Good => \A e \in seen : Wanted(e) =>
  Abstract!EntryAccounted(e) \/ \E w \in Workers : pc[w] = "visit" /\ item[w] = e

(* A directory with a reason to be entered is queued, in hand, or accounted for. *)
EnterableAccounted == Good /\ main \in {"submit", "wait"} =>
  \A d \in Entries : Abstract!Enterable(d) =>
    \/ Abstract!DirectoryAccounted(d)
    \/ d \in queue
    \/ \E w \in Workers : pc[w] \in Counted \cup {"enter"} /\ Hand(w) = d

(* A directory that was opened is listed, or some worker still has it. *)
LeftListed == Good =>
  \A d \in opened : Listed(d) \/ \E w \in Workers : Active(w, d)

(* A task that ends before the count is zero does so for one of two reasons. *)
Exits == (\E w \in Workers : pc[w] = "exited") => stopped \/ visit_failed

(* The result is there when the calling thread is done. *)
Returning == result = "none" <=> main # "done"

(* A step of one worker leaves the others where they are, and takes nothing back. *)
LEMMA WorkerFrame ==
  ASSUME TypeOK, NEW w \in Workers, Worker(w)
  PROVE  /\ \A v \in Workers : v # w =>
              pc'[v] = pc[v] /\ base'[v] = base[v] /\ cur'[v] = cur[v] /\ item'[v] = item[v]
         /\ UNCHANGED <<main, result>>
         /\ seen \subseteq seen' /\ opened \subseteq opened' /\ visited \subseteq visited'
         /\ reported \subseteq reported'
         /\ stopped => stopped'
         /\ visit_failed => visit_failed'
  <1>1. CASE StartWorker(w) \/ Poll(w)
    BY <1>1 DEF StartWorker, Poll, Goto, TypeOK, NoError, ReportError, local, shared, history
  <1>2. CASE Pop(w) \/ CheckOutstanding(w)
    BY <1>2 DEF Pop, CheckOutstanding, Goto, TypeOK, local, shared, history
  <1>3. CASE Enter(w)
    BY <1>3 DEF Enter, Goto, TypeOK, NoError, ReportError, local, shared
  <1>4. CASE Iterate(w)
    BY <1>4 DEF Iterate, ClassifyEntry, Goto, TypeOK, NoError, ReportError, shared
  <1>5. CASE Visit(w)
    BY <1>5 DEF Visit, Goto, TypeOK, shared, local
  <1>6. CASE FailVisit(w) \/ CountSubdirectory(w) \/ PushSubdirectory(w)
    BY <1>6 DEF FailVisit, CountSubdirectory, PushSubdirectory, Goto, TypeOK, local, shared, history
  <1>7. CASE WalkInline(w) \/ Leave(w)
    BY <1>7 DEF WalkInline, Leave, Goto, TypeOK, NoError, ReportError, history
  <1>8. QED
    BY <1>1, <1>2, <1>3, <1>4, <1>5, <1>6, <1>7 DEF Worker

(* Where a step can lead a worker that is not reading. *)
LEMMA ClassifyOutcomes ==
  ASSUME TypeOK, NEW w \in Workers, NEW e \in Entries, ClassifyEntry(w, e)
  PROVE  \/ pc'[w] = "iterate" /\ NoError /\ ~ Wanted(e)
         \/ pc'[w] = "iterate" /\ ReportError(cur[w], "path-too-long") /\ e \in TooLong
         \/ pc'[w] = "iterate" /\ ReportError(e, "stat")
         \/ pc'[w] = "iterate" /\ Count("skipped") /\ UNCHANGED reported /\ ~ Wanted(e)
         \/ pc'[w] = "visit" /\ NoError /\ Wanted(e)
  BY DEF ClassifyEntry, Wanted, Goto, TypeOK

(* What Iterate does to the entry it has read, or to the directory. *)
LEMMA IterateOutcomes ==
  ASSUME TypeOK, NEW w \in Workers, Iterate(w)
  PROVE  \/ pc'[w] = "leave" /\ visit_failed /\ NoError /\ UNCHANGED <<seen, item>>
         \/ pc'[w] = "leave" /\ ReportError(cur[w], "getdents64") /\ UNCHANGED <<seen, item>>
         \/ pc'[w] = "leave" /\ Children(cur[w]) \subseteq seen /\ NoError /\ UNCHANGED <<seen, item>>
         \/ \E e \in Children(cur[w]) \ seen :
              seen' = seen \cup {e} /\ item'[w] = e /\ ClassifyEntry(w, e)
  BY DEF Iterate, TypeOK, Goto

-----------------------------------------------------------------------------
(* A step that hands nothing new to its worker. *)
LEMMA FreshKept ==
  ASSUME TypeOK, Fresh, NEW w \in Workers, Worker(w), main # "setup",
         queue' \subseteq queue, UNCHANGED <<opened, visited>>, pc'[w] # "visit",
         pc'[w] \in InHand => pc[w] \in InHand /\ Hand(w)' = Hand(w)
  PROVE  Fresh'
  <1>1. \A v \in Workers : v # w => pc'[v] = pc[v] /\ item'[v] = item[v] /\ Hand(v)' = Hand(v)
    BY WorkerFrame DEF Hand
  <1>2. main' = main /\ seen \subseteq seen'
    BY WorkerFrame
  <1>3. \A v \in Workers : pc'[v] \in InHand => pc[v] \in InHand /\ Hand(v)' = Hand(v)
    BY <1>1
  <1>4. \A v \in Workers : pc'[v] = "visit" => pc[v] = "visit" /\ item'[v] = item[v]
    BY <1>1
  <1>5. QED
    BY <1>2, <1>3, <1>4 DEF Fresh

(* Every step keeps what is in hand fresh. *)
LEMMA FreshWorker ==
  ASSUME Inv, Fresh, NEW w \in Workers, Worker(w)
  PROVE  Fresh'
  <1> USE DEF Inv
  <1>1. main = "wait" /\ main' = main
    <2>1. pc[w] \notin Ended
      BY DEF Worker, StartWorker, Poll, Pop, CheckOutstanding, Enter, Iterate, Visit, FailVisit,
             CountSubdirectory, PushSubdirectory, WalkInline, Leave, Ended
    <2>2. QED
      BY <2>1, WorkersRunInWait, WorkerFrame
  <1>2. \A v \in Workers : v # w => pc'[v] = pc[v] /\ item'[v] = item[v] /\ Hand(v)' = Hand(v)
    BY WorkerFrame DEF Hand
  <1>3. CASE StartWorker(w) \/ Poll(w) \/ CheckOutstanding(w) \/ FailVisit(w) \/ Leave(w)
    <2>1. UNCHANGED <<queue, opened, visited>>
      BY <1>3 DEF StartWorker, Poll, CheckOutstanding, FailVisit, Leave, shared, history
    <2>2. pc'[w] \notin InHand
      BY <1>3 DEF StartWorker, Poll, CheckOutstanding, FailVisit, Leave, Goto, TypeOK, InHand,
         Holding, Pushing
    <2>3. QED
      BY <1>1, <2>1, <2>2, FreshKept DEF InHand, Holding
  <1>4. CASE CountSubdirectory(w) \/ WalkInline(w)
    <2>1. UNCHANGED <<queue, opened, visited>> /\ pc'[w] # "visit"
      BY <1>4 DEF CountSubdirectory, WalkInline, history, Goto, TypeOK
    <2>2. pc[w] \in InHand
      BY <1>4 DEF CountSubdirectory, WalkInline, InHand, Holding, Pushing
    <2>3. pc'[w] \in InHand => Hand(w)' = Hand(w)
      BY <1>4 DEF CountSubdirectory, WalkInline, Goto, TypeOK, Hand, local, InHand, Holding, Pushing
    <2>4. QED
      BY <1>1, <2>1, <2>2, <2>3, FreshKept
  <1>5. CASE Pop(w)
    <2>1. UNCHANGED <<opened, visited, seen>>
      BY <1>5 DEF Pop, history
    <2>2. CASE Goto(w, "check") /\ UNCHANGED queue
      <3>1. pc'[w] = "check"
        BY <2>2 DEF Goto, TypeOK
      <3>2. QED
        BY <1>1, <2>1, <2>2, <3>1, FreshKept DEF InHand, Holding, Pushing
    <2>3. ASSUME NEW d \in queue, queue' = queue \ {d}, cur' = [cur EXCEPT ![w] = d], Goto(w, "enter")
          PROVE  Fresh'
      <3>1. pc'[w] = "enter" /\ Hand(w)' = d
        BY <2>3 DEF Goto, TypeOK, Hand
      <3>2. d \in seen \cup {Root} /\ d \notin opened /\ d \notin queue'
        BY <2>3 DEF Fresh, Handover
      <3>3. \A v \in Workers : v # w /\ pc[v] \in InHand => Hand(v) # d
        BY DEF Fresh
      <3>4. QED
        BY <1>1, <1>2, <2>1, <2>3, <3>1, <3>2, <3>3 DEF Fresh
    <2>4. QED
      BY <1>5, <2>2, <2>3 DEF Pop
  <1>6. CASE Enter(w)
    <2>1. UNCHANGED <<visited, seen, queue>> /\ pc'[w] \in {"leave", "iterate"} /\ pc[w] = "enter"
      BY <1>6 DEF Enter, shared, local, Goto, TypeOK
    <2>2. pc'[w] \notin InHand /\ pc[w] \in InHand /\ Hand(w) = cur[w]
      BY <2>1 DEF InHand, Holding, Pushing, Hand
    <2>3. CASE UNCHANGED opened
      BY <1>1, <2>1, <2>2, <2>3, FreshKept
    <2>4. CASE opened' = opened \cup {cur[w]}
      <3>1. \A v \in Workers : v # w /\ pc[v] \in InHand => Hand(v) # cur[w]
        BY <2>2 DEF Fresh
      <3>2. \A v \in Workers : pc'[v] \in InHand =>
              v # w /\ pc[v] \in InHand /\ Hand(v)' = Hand(v) /\ item'[v] = item[v] /\ pc'[v] = pc[v]
        BY <1>2, <2>2
      <3>3. \A v \in Workers : pc'[v] = "visit" => pc[v] = "visit" /\ item'[v] = item[v]
        BY <1>2, <2>1
      <3>4. opened' \subseteq seen' \cup {Root} /\ queue' \cap opened' = {}
        BY <2>1, <2>2, <2>4 DEF Fresh
      <3>5. QED
        BY <1>1, <2>1, <2>4, <3>1, <3>2, <3>3, <3>4 DEF Fresh
    <2>5. QED
      BY <1>6, <2>3, <2>4 DEF Enter
  <1>7. CASE Iterate(w)
    <2>1. UNCHANGED <<opened, visited, queue>>
      BY <1>7 DEF Iterate, shared
    <2>2. CASE pc'[w] \in {"leave", "iterate"}
      <3>1. pc'[w] \notin InHand /\ pc'[w] # "visit"
        BY <2>2 DEF InHand, Holding, Pushing
      <3>2. QED
        BY <1>1, <2>1, <3>1, FreshKept
    <2>3. ASSUME NEW e \in Children(cur[w]) \ seen, seen' = seen \cup {e}, item'[w] = e, pc'[w] = "visit"
          PROVE  Fresh'
      <3>1. e # Root /\ e \notin seen
        BY DEF Children
      <3>2. Hand(w)' = e
        BY <2>3 DEF Hand
      <3>3. e \notin visited /\ e \notin opened /\ e \notin queue
        BY <3>1 DEF Fresh, Handover
      <3>4. \A v \in Workers : v # w /\ pc[v] \in InHand => Hand(v) # e
        BY <3>1 DEF Fresh
      <3>5. QED
        BY <1>1, <1>2, <2>1, <2>3, <3>2, <3>3, <3>4 DEF Fresh
    <2>4. ASSUME NEW e \in Children(cur[w]), ClassifyEntry(w, e) PROVE pc'[w] \in {"iterate", "visit"}
      BY <2>4, ClassifyOutcomes DEF Children
    <2>5. QED
      BY <1>7, <2>2, <2>3, <2>4, IterateOutcomes
  <1>8. CASE Visit(w)
    <2>1. /\ UNCHANGED <<opened, queue, seen>> /\ visited' = visited \cup {item[w]} /\ pc[w] = "visit"
          /\ pc'[w] \in {"count", "iterate", "fail"} /\ item'[w] = item[w]
      BY <1>8 DEF Visit, shared, local, Goto, TypeOK
    <2>2. /\ pc[w] \in InHand /\ Hand(w) = item[w] /\ item[w] \in seen
          /\ pc'[w] \in InHand => Hand(w)' = item[w]
      BY <2>1 DEF InHand, Holding, Pushing, Hand, Handover
    <2>3. \A v \in Workers : pc'[v] = "visit" =>
            pc[v] = "visit" /\ v # w /\ item'[v] = item[v] /\ item[v] # item[w]
      BY <1>2, <2>1, <2>2 DEF Handover, Holding
    <2>4. \A v \in Workers : pc'[v] \in InHand => pc[v] \in InHand /\ Hand(v)' = Hand(v)
      BY <1>2, <2>1, <2>2
    <2>5. QED
      BY <1>1, <2>1, <2>2, <2>3, <2>4 DEF Fresh
  <1>9. CASE PushSubdirectory(w)
    <2>1. /\ UNCHANGED <<opened, visited, seen>> /\ pc[w] = "push" /\ item'[w] = item[w]
          /\ pc[w] \in InHand /\ Hand(w) = item[w]
      BY <1>9 DEF PushSubdirectory, local, history, InHand, Holding, Pushing, Hand
    <2>2. CASE Goto(w, "uncount") /\ UNCHANGED queue
      <3>1. pc'[w] = "uncount"
        BY <2>2 DEF Goto, TypeOK
      <3>2. QED
        BY <1>1, <2>1, <2>2, <3>1, FreshKept DEF Hand
    <2>3. CASE Goto(w, "iterate") /\ queue' = queue \cup {item[w]}
      <3>1. pc'[w] = "iterate"
        BY <2>3 DEF Goto, TypeOK
      <3>2. \A v \in Workers : pc'[v] \in InHand =>
              v # w /\ pc[v] \in InHand /\ Hand(v)' = Hand(v) /\ Hand(v) # item[w]
        BY <1>2, <2>1, <3>1 DEF Fresh, InHand, Holding, Pushing
      <3>3. \A v \in Workers : pc'[v] = "visit" => pc[v] = "visit" /\ item'[v] = item[v]
        BY <1>2, <3>1
      <3>4. queue' \cap opened' = {}
        BY <2>1, <2>3 DEF Fresh
      <3>5. QED
        BY <1>1, <2>1, <2>3, <3>2, <3>3, <3>4 DEF Fresh
    <2>4. QED
      BY <1>9, <2>2, <2>3 DEF PushSubdirectory
  <1>10. QED
    BY <1>3, <1>4, <1>5, <1>6, <1>7, <1>8, <1>9 DEF Worker

(* So do those of the calling thread. *)
LEMMA FreshNext ==
  ASSUME Inv, Fresh, [Next]_vars
  PROVE  Fresh'
  <1> USE DEF Inv
  <1>1. CASE Main
    <2>1. UNCHANGED <<opened, visited, seen, item, cur>>
      BY <1>1 DEF Main, Reject, Seed, Submit, Return, local, history
    <2>2. \A w \in Workers : pc[w] \notin InHand /\ pc'[w] \notin InHand /\ pc'[w] # "visit"
      BY <1>1 DEF Main, Reject, Seed, Submit, Return, Phases, InHand, Holding, Pushing, Ended
    <2>3. queue' \cap opened' = {} /\ main' # "setup"
      BY <1>1, <2>1 DEF Main, Reject, Seed, Submit, Return, shared, Fresh
    <2>4. QED
      BY <2>1, <2>2, <2>3 DEF Fresh
  <1>2. CASE \E w \in Workers : Worker(w)
    BY <1>2, FreshWorker
  <1>3. CASE Returned \/ UNCHANGED vars
    BY <1>3 DEF Returned, vars, shared, local, history, Fresh, Hand
  <1>4. QED
    BY <1>1, <1>2, <1>3 DEF Next

-----------------------------------------------------------------------------
(* Below is a partial order on what is below the root. *)
LEMMA BelowSelf == \A d : Below(d, d)
  BY DEF Below

(* An entry is below all that its directory is below. *)
LEMMA BelowEntry ==
  ASSUME NEW e \in Entries, NEW b, e # Root, Below(Parent[e], b)
  PROVE  Below(e, b)
  BY DEF Below, Closed

(* What is not b itself is below b as an entry of something that is. *)
LEMMA BelowParent ==
  ASSUME NEW d \in Entries, NEW b, Below(d, b), d # b
  PROVE  d # Root /\ Below(Parent[d], b)
  <1>1. d # Root
    <2>1. {Root} \in SUBSET Entries /\ Closed({Root})
      BY EntryAssumption DEF Closed
    <2>2. QED
      BY <2>1 DEF Below
  <1>2. ASSUME NEW S \in SUBSET Entries, Parent[d] \in S, Closed(S) PROVE b \in S
    <2>1. S \cup {d} \in SUBSET Entries /\ Closed(S \cup {d})
      BY <1>2 DEF Closed
    <2>2. b \in S \cup {d}
      BY <2>1 DEF Below
    <2>3. QED
      BY <2>2
  <1>3. QED
    BY <1>1, <1>2 DEF Below

(* The order is transitive. *)
LEMMA BelowBelow ==
  ASSUME NEW d, NEW b, NEW a, Below(d, b), Below(b, a)
  PROVE  Below(d, a)
  BY DEF Below

(* Nothing below the root is below itself by a detour. *)
LEMMA BelowOnce ==
  ASSUME NEW d \in Entries, NEW b \in Entries, Below(d, Root), Below(d, b), Below(b, d)
  PROVE  d = b
  <1> SUFFICES ASSUME d # b PROVE FALSE
    OBVIOUS
  <1> DEFINE S == {x \in Entries : Below(d, x) /\ Below(x, d)}
  <1>1. ASSUME NEW x \in S, x # Root PROVE Parent[x] \in S
    <2>1. Parent[x] \in Entries
      BY EntryAssumption
    <2>2. Below(x, Parent[x])
      BY <1>1, <2>1, BelowSelf, BelowEntry
    <2>3. Below(d, Parent[x])
      BY <2>2, BelowBelow
    <2>4. Below(Parent[x], d)
      <3>1. CASE x # d
        BY <3>1, BelowParent
      <3>2. CASE x = d
        <4>1. Below(Parent[d], b)
          BY BelowParent
        <4>2. QED
          BY <3>2, <4>1, BelowBelow
      <3>3. QED
        BY <3>1, <3>2
    <2>5. QED
      BY <2>1, <2>3, <2>4
  <1>2. S \in SUBSET Entries /\ d \in S /\ Closed(S)
    <2>1. d \in S
      BY BelowSelf
    <2>2. Closed(S)
      BY <1>1 DEF Closed
    <2>3. QED
      BY <2>1, <2>2
  <1>3. Root \in S
    BY <1>2 DEF Below
  <1>4. Below(Root, d)
    BY <1>3
  <1>5. d = Root
    BY <1>4, EntryAssumption, BelowParent
  <1>6. QED
    BY <1>5, EntryAssumption, BelowParent

(* The promise speaks of entries as the walk does. *)
LEMMA SameEntries ==
  /\ \A e : Abstract!Descends(e) <=> Descends(e)
  /\ \A e : Abstract!Wanted(e) <=> Wanted(e)
  /\ \A e : Abstract!EntryKind(e) = EntryKind(e)
  /\ \A d : Abstract!Children(d) = Children(d)
  BY DEF Abstract!Descends, Abstract!Wanted, Abstract!EntryKind, Abstract!Children,
         Abstract!Skipped, Abstract!Visitable, Abstract!FollowsLink, Descends, Wanted, EntryKind,
         Children, Skipped, Visitable, FollowsLink

(* A directory with a reason to be entered is below the root, and so is where it was found. *)
LEMMA EnterableIsRooted ==
  ASSUME Rooted, NEW d \in Entries, Abstract!Enterable(d)
  PROVE  /\ Below(d, Root)
         /\ d # Root => Parent[d] \in opened /\ Abstract!Enterable(Parent[d])
  BY BelowSelf DEF Rooted, Abstract!Enterable

(* A step of a worker that stays in its directory, or has none. *)
LEMMA RootedKept ==
  ASSUME TypeOK, Rooted, NEW w \in Workers, Worker(w), UNCHANGED <<opened, visited>>,
         queue' \subseteq queue, pc'[w] \notin Holding,
         pc'[w] \in Processing => /\ pc[w] \in Processing /\ cur'[w] = cur[w] /\ base'[w] = base[w]
                                  /\ pc[w] \in {"enter", "leave"} => pc'[w] = "leave"
  PROVE  Rooted'
  <1>1. \A v \in Workers : v # w =>
          pc'[v] = pc[v] /\ base'[v] = base[v] /\ cur'[v] = cur[v] /\ item'[v] = item[v]
    BY WorkerFrame
  <1>2. \A d : Abstract!Enterable(d)' <=> Abstract!Enterable(d)
    BY DEF Abstract!Enterable
  <1>3. \A v \in Workers : pc'[v] \in Processing =>
          Abstract!Enterable(cur[v])' /\ cur'[v] = cur[v] /\ Below(cur'[v], base'[v])
    BY <1>1, <1>2 DEF Rooted
  <1>4. \A v \in Workers : pc'[v] \in Processing \ {"enter", "leave"} => cur'[v] \in opened'
    BY <1>1 DEF Rooted
  <1>5. \A v \in Workers : pc'[v] \in Holding =>
          v # w /\ pc'[v] = pc[v] /\ item'[v] = item[v] /\ cur'[v] = cur[v]
    BY <1>1
  <1>6. QED
    BY <1>2, <1>3, <1>4, <1>5 DEF Rooted, Holding, Counted, Pushing

(* A worker that holds an entry keeps it, in the directory it is reading. *)
LEMMA RootedHeld ==
  ASSUME TypeOK, Rooted, NEW w \in Workers, Worker(w), UNCHANGED <<opened, queue>>,
         visited \subseteq visited', \A e \in visited' : e # Root /\ Parent[e] \in opened /\ Below(e, Root),
         pc[w] \in Processing \ {"enter", "leave"}, pc'[w] \in Processing \ {"enter", "leave"},
         UNCHANGED <<cur, base>>,
         pc'[w] \in Holding => item'[w] # Root /\ Parent[item'[w]] = cur[w],
         pc'[w] = "visit" => Wanted(item'[w]),
         pc'[w] \in Counted => item'[w] \in visited' /\ Descends(item'[w])
  PROVE  Rooted'
  <1>1. \A v \in Workers : v # w =>
          pc'[v] = pc[v] /\ base'[v] = base[v] /\ cur'[v] = cur[v] /\ item'[v] = item[v]
    BY WorkerFrame
  <1>2. \A d : Abstract!Enterable(d) => Abstract!Enterable(d)'
    BY DEF Abstract!Enterable
  <1>3. \A v \in Workers : pc'[v] \in Processing =>
          Abstract!Enterable(cur[v])' /\ Below(cur'[v], base'[v])
    BY <1>1, <1>2 DEF Rooted
  <1>4. \A v \in Workers : pc'[v] \in Processing \ {"enter", "leave"} => cur'[v] \in opened'
    BY <1>1 DEF Rooted
  <1>5. \A v \in Workers : pc'[v] \in Holding => item'[v] # Root /\ Parent[item'[v]] = cur'[v]
    BY <1>1 DEF Rooted
  <1>6. \A v \in Workers : pc'[v] = "visit" => Wanted(item'[v])
    BY <1>1 DEF Rooted
  <1>7. \A v \in Workers : pc'[v] \in Counted => item'[v] \in visited' /\ Descends(item'[v])
    BY <1>1 DEF Rooted
  <1>8. \A d \in opened' \cup queue' : Abstract!Enterable(d)'
    BY <1>2 DEF Rooted
  <1>9. QED
    BY <1>3, <1>4, <1>5, <1>6, <1>7, <1>8
    DEF Rooted, Wanted, Skipped, Visitable, Descends, EntryKind, FollowsLink, Below, Closed

(* Every step of a worker keeps the directories rooted. *)
LEMMA RootedWorker ==
  ASSUME Inv, Rooted, NEW w \in Workers, Worker(w)
  PROVE  Rooted'
  <1> USE DEF Inv
  <1>1. \A v \in Workers : v # w =>
          pc'[v] = pc[v] /\ base'[v] = base[v] /\ cur'[v] = cur[v] /\ item'[v] = item[v]
    BY WorkerFrame
  <1>2. item[w] \in Entries /\ cur[w] \in Entries /\ base[w] \in Entries
    BY DEF TypeOK
  <1>3. CASE StartWorker(w) \/ Poll(w) \/ CheckOutstanding(w)
    <2>1. UNCHANGED <<queue, opened, visited>>
      BY <1>3 DEF StartWorker, Poll, CheckOutstanding, shared, history
    <2>2. pc'[w] \notin Processing /\ pc'[w] \notin Holding
      BY <1>3 DEF StartWorker, Poll, CheckOutstanding, Goto, TypeOK, Processing, Holding, Pushing
    <2>3. QED
      BY <2>1, <2>2, RootedKept
  <1>4. CASE FailVisit(w)
    <2>1. /\ UNCHANGED <<queue, opened, visited, cur, base>> /\ pc[w] = "fail" /\ pc'[w] = "leave"
      BY <1>4 DEF FailVisit, Goto, TypeOK, local, history
    <2>2. QED
      BY <2>1, RootedKept DEF Processing, Holding, Pushing
  <1>5. CASE Pop(w)
    <2>1. UNCHANGED <<opened, visited>>
      BY <1>5 DEF Pop, history
    <2>2. CASE Goto(w, "check") /\ UNCHANGED queue
      <3>1. pc'[w] = "check"
        BY <2>2 DEF Goto, TypeOK
      <3>2. QED
        BY <2>1, <2>2, <3>1, RootedKept DEF Processing, Holding, Pushing
    <2>3. ASSUME NEW d \in queue, queue' = queue \ {d}, Goto(w, "enter"),
                 cur' = [cur EXCEPT ![w] = d], base' = [base EXCEPT ![w] = d]
          PROVE  Rooted'
      <3>1. pc'[w] = "enter" /\ cur'[w] = d /\ base'[w] = d
        BY <2>3 DEF Goto, TypeOK
      <3>2. \A x : Abstract!Enterable(x)' <=> Abstract!Enterable(x)
        BY <2>1 DEF Abstract!Enterable
      <3>3. \A v \in Workers : pc'[v] \in Processing =>
              Abstract!Enterable(cur[v])' /\ Below(cur'[v], base'[v])
        BY <1>1, <3>1, <3>2, BelowSelf DEF Rooted
      <3>4. \A v \in Workers : pc'[v] \in Processing \ {"enter", "leave"} => cur'[v] \in opened'
        BY <1>1, <2>1, <3>1 DEF Rooted
      <3>5. \A v \in Workers : pc'[v] \in Holding =>
              v # w /\ pc'[v] = pc[v] /\ item'[v] = item[v] /\ cur'[v] = cur[v]
        BY <1>1, <3>1 DEF Holding, Pushing
      <3>6. QED
        BY <2>1, <2>3, <3>2, <3>3, <3>4, <3>5 DEF Rooted, Holding, Counted, Pushing
    <2>4. QED
      BY <1>5, <2>2, <2>3 DEF Pop
  <1>6. CASE Enter(w)
    <2>1. /\ pc[w] = "enter" /\ UNCHANGED <<queue, visited, cur, base>>
          /\ pc'[w] \in {"leave", "iterate"}
      BY <1>6 DEF Enter, shared, local, Goto, TypeOK
    <2>2. CASE UNCHANGED opened /\ pc'[w] = "leave"
      BY <2>1, <2>2, RootedKept DEF Processing, Holding, Pushing
    <2>3. CASE opened' = opened \cup {cur[w]}
      <3>1. \A x : Abstract!Enterable(x)' <=> Abstract!Enterable(x)
        BY <2>1 DEF Abstract!Enterable
      <3>2. pc[w] \in Processing /\ pc'[w] \notin Holding
        BY <2>1 DEF Processing, Holding, Pushing
      <3>3. \A v \in Workers : pc'[v] \in Processing =>
              Abstract!Enterable(cur[v])' /\ Below(cur'[v], base'[v])
        BY <1>1, <2>1, <3>1, <3>2 DEF Rooted
      <3>4. \A v \in Workers : pc'[v] \in Processing \ {"enter", "leave"} => cur'[v] \in opened'
        BY <1>1, <2>1, <2>3 DEF Rooted
      <3>5. \A v \in Workers : pc'[v] \in Holding =>
              v # w /\ pc'[v] = pc[v] /\ item'[v] = item[v] /\ cur'[v] = cur[v]
        BY <1>1, <3>2
      <3>6. \A d \in opened' \cup queue' : Abstract!Enterable(d)'
        BY <2>1, <2>3, <3>1, <3>2 DEF Rooted
      <3>7. QED
        BY <2>1, <2>3, <3>3, <3>4, <3>5, <3>6 DEF Rooted, Holding, Counted, Pushing
    <2>4. QED
      BY <1>6, <2>2, <2>3 DEF Enter, Goto, TypeOK
  <1>7. CASE Iterate(w)
    <2>1. pc[w] = "iterate" /\ UNCHANGED <<queue, opened, visited, cur, base>>
      BY <1>7 DEF Iterate, shared
    <2>2. CASE pc'[w] \in {"leave", "iterate"}
      BY <2>1, <2>2, RootedKept DEF Processing, Holding, Pushing
    <2>3. ASSUME NEW e \in Children(cur[w]), item'[w] = e, ClassifyEntry(w, e) PROVE Rooted'
      <3>1. e \in Entries /\ e # Root /\ Parent[e] = cur[w]
        BY DEF Children
      <3>2. pc'[w] = "iterate" \/ (pc'[w] = "visit" /\ Wanted(e))
        BY <2>3, <3>1, ClassifyOutcomes
      <3>3. CASE pc'[w] = "visit" /\ Wanted(e)
        <4>1. pc[w] \in Processing \ {"enter", "leave"} /\ pc'[w] \in Processing \ {"enter", "leave"}
              /\ pc'[w] \notin Counted
          BY <2>1, <3>3 DEF Processing, Counted, Pushing
        <4>2. \A x \in visited' : x # Root /\ Parent[x] \in opened /\ Below(x, Root)
          BY <2>1 DEF Rooted
        <4>3. QED
          BY <2>1, <2>3, <3>1, <3>3, <4>1, <4>2, RootedHeld
      <3>4. QED
        BY <2>2, <3>2, <3>3
    <2>4. QED
      BY <1>7, <2>2, <2>3, IterateOutcomes
  <1>8. CASE Visit(w)
    <2>1. /\ pc[w] = "visit" /\ UNCHANGED <<queue, opened, cur, base, item>>
          /\ visited' = visited \cup {item[w]}
          /\ pc'[w] \in {"count", "iterate", "fail"} /\ (pc'[w] = "count" => Descends(item[w]))
      BY <1>8 DEF Visit, shared, local, Goto, TypeOK
    <2>2. /\ pc[w] \in Processing \ {"enter", "leave"} /\ pc'[w] \in Processing \ {"enter", "leave"}
          /\ pc[w] \in Holding /\ (pc'[w] \in Counted => pc'[w] = "count")
      BY <2>1 DEF Processing, Counted, Pushing, Holding
    <2>3. item[w] # Root /\ Parent[item[w]] = cur[w] /\ cur[w] \in opened /\ Abstract!Enterable(cur[w])
      BY <2>2 DEF Rooted
    <2>4. Below(item[w], Root)
      BY <1>2, <2>3, EnterableIsRooted, BelowEntry
    <2>5. \A x \in visited' : x # Root /\ Parent[x] \in opened /\ Below(x, Root)
      BY <2>1, <2>3, <2>4 DEF Rooted
    <2>6. QED
      BY <2>1, <2>2, <2>3, <2>5, RootedHeld
  <1>9. CASE CountSubdirectory(w)
    <2>1. /\ pc[w] = "count" /\ pc'[w] = "push" /\ UNCHANGED <<queue, opened, visited, cur, base, item>>
      BY <1>9 DEF CountSubdirectory, local, history, Goto, TypeOK
    <2>2. /\ pc[w] \in Processing \ {"enter", "leave"} /\ pc'[w] \in Processing \ {"enter", "leave"}
          /\ pc[w] \in Holding /\ pc[w] \in Counted
      BY <2>1 DEF Processing, Counted, Pushing, Holding
    <2>3. /\ item[w] # Root /\ Parent[item[w]] = cur[w] /\ item[w] \in visited /\ Descends(item[w])
          /\ \A x \in visited' : x # Root /\ Parent[x] \in opened /\ Below(x, Root)
      BY <2>1, <2>2 DEF Rooted
    <2>4. QED
      BY <2>1, <2>2, <2>3, RootedHeld
  <1>10. CASE PushSubdirectory(w)
    <2>1. /\ pc[w] = "push" /\ pc'[w] \in {"uncount", "iterate"}
          /\ UNCHANGED <<opened, visited, cur, base, item>>
      BY <1>10 DEF PushSubdirectory, local, history, Goto, TypeOK
    <2>2. /\ pc[w] \in Processing \ {"enter", "leave"} /\ pc'[w] \in Processing \ {"enter", "leave"}
          /\ pc[w] \in Holding /\ pc[w] \in Counted
      BY <2>1 DEF Processing, Counted, Pushing, Holding
    <2>3. /\ item[w] # Root /\ Parent[item[w]] = cur[w] /\ item[w] \in visited /\ Descends(item[w])
          /\ \A x \in visited' : x # Root /\ Parent[x] \in opened /\ Below(x, Root)
      BY <2>1, <2>2 DEF Rooted
    <2>4. CASE UNCHANGED queue
      BY <2>1, <2>2, <2>3, <2>4, RootedHeld
    <2>5. CASE queue' = queue \cup {item[w]} /\ pc'[w] = "iterate"
      <3>1. \A x : Abstract!Enterable(x)' <=> Abstract!Enterable(x)
        BY <2>1 DEF Abstract!Enterable
      <3>2. Abstract!Enterable(item[w])
        BY <2>3, SameEntries DEF Abstract!Enterable
      <3>3. \A d \in opened' \cup queue' : Abstract!Enterable(d)'
        BY <2>1, <2>5, <3>1, <3>2 DEF Rooted
      <3>4. \A v \in Workers : pc'[v] \in Processing =>
              Abstract!Enterable(cur[v])' /\ Below(cur'[v], base'[v])
        BY <1>1, <2>1, <2>2, <3>1 DEF Rooted
      <3>5. \A v \in Workers : pc'[v] \in Processing \ {"enter", "leave"} => cur'[v] \in opened'
        BY <1>1, <2>1, <2>2 DEF Rooted
      <3>6. \A v \in Workers : pc'[v] \in Holding =>
              v # w /\ pc'[v] = pc[v] /\ item'[v] = item[v] /\ cur'[v] = cur[v]
        BY <1>1, <2>5 DEF Holding, Pushing
      <3>7. QED
        BY <2>1, <3>3, <3>4, <3>5, <3>6 DEF Rooted, Holding, Counted, Pushing
    <2>6. QED
      BY <1>10, <2>4, <2>5 DEF PushSubdirectory, Goto, TypeOK
  <1>11. CASE WalkInline(w)
    <2>1. pc[w] = "uncount" /\ UNCHANGED <<queue, opened, visited, base>>
      BY <1>11 DEF WalkInline
    <2>2. pc[w] \in Processing /\ pc[w] \in Holding /\ pc[w] \in Counted
      BY <2>1 DEF Processing, Counted, Pushing, Holding
    <2>3. CASE UNCHANGED cur /\ pc'[w] = "iterate"
      BY <2>1, <2>2, <2>3, RootedKept DEF Holding, Pushing
    <2>4. CASE cur' = [cur EXCEPT ![w] = item[w]] /\ pc'[w] = "enter"
      <3>1. cur'[w] = item[w] /\ base'[w] = base[w]
        BY <2>1, <2>4 DEF TypeOK
      <3>2. \A x : Abstract!Enterable(x)' <=> Abstract!Enterable(x)
        BY <2>1 DEF Abstract!Enterable
      <3>3. Abstract!Enterable(item[w]) /\ Below(item[w], base[w])
        <4>1. /\ item[w] \in visited /\ Descends(item[w]) /\ Below(cur[w], base[w])
              /\ Parent[item[w]] = cur[w] /\ item[w] # Root
          BY <2>2 DEF Rooted
        <4>2. QED
          BY <1>2, <4>1, SameEntries, BelowEntry DEF Abstract!Enterable
      <3>4. \A v \in Workers : pc'[v] \in Processing =>
              Abstract!Enterable(cur[v])' /\ Below(cur'[v], base'[v])
        BY <1>1, <3>1, <3>2, <3>3 DEF Rooted
      <3>5. \A v \in Workers : pc'[v] \in Processing \ {"enter", "leave"} => cur'[v] \in opened'
        BY <1>1, <2>1, <2>4 DEF Rooted
      <3>6. \A v \in Workers : pc'[v] \in Holding =>
              v # w /\ pc'[v] = pc[v] /\ item'[v] = item[v] /\ cur'[v] = cur[v]
        BY <1>1, <2>4 DEF Holding, Pushing
      <3>7. QED
        BY <2>1, <3>2, <3>4, <3>5, <3>6 DEF Rooted, Holding, Counted, Pushing
    <2>5. QED
      BY <1>11, <2>3, <2>4 DEF WalkInline, Goto, TypeOK
  <1>12. CASE Leave(w)
    <2>1. pc[w] = "leave" /\ UNCHANGED <<queue, opened, visited, base>> /\ pc[w] \in Processing
      BY <1>12 DEF Leave, history, Processing
    <2>2. CASE pc'[w] = "loop"
      BY <2>1, <2>2, RootedKept DEF Processing, Holding, Pushing
    <2>3. CASE cur[w] # base[w] /\ cur' = [cur EXCEPT ![w] = Parent[cur[w]]] /\ pc'[w] = "iterate"
      <3>1. cur'[w] = Parent[cur[w]] /\ base'[w] = base[w]
        BY <2>1, <2>3 DEF TypeOK
      <3>2. \A x : Abstract!Enterable(x)' <=> Abstract!Enterable(x)
        BY <2>1 DEF Abstract!Enterable
      <3>3. cur[w] # Root /\ Below(Parent[cur[w]], base[w])
        BY <1>2, <2>1, <2>3, BelowParent DEF Rooted
      <3>4. Parent[cur[w]] \in opened /\ Abstract!Enterable(Parent[cur[w]])
        BY <1>2, <2>1, <3>3, EnterableIsRooted DEF Rooted
      <3>5. \A v \in Workers : pc'[v] \in Processing =>
              Abstract!Enterable(cur[v])' /\ Below(cur'[v], base'[v])
        BY <1>1, <3>1, <3>2, <3>3, <3>4 DEF Rooted
      <3>6. \A v \in Workers : pc'[v] \in Processing \ {"enter", "leave"} => cur'[v] \in opened'
        BY <1>1, <2>1, <3>1, <3>4 DEF Rooted
      <3>7. \A v \in Workers : pc'[v] \in Holding =>
              v # w /\ pc'[v] = pc[v] /\ item'[v] = item[v] /\ cur'[v] = cur[v]
        BY <1>1, <2>3 DEF Holding, Pushing
      <3>8. QED
        BY <2>1, <3>2, <3>5, <3>6, <3>7 DEF Rooted, Holding, Counted, Pushing
    <2>4. QED
      BY <1>12, <2>2, <2>3 DEF Leave, Goto, TypeOK
  <1>13. QED
    BY <1>3, <1>4, <1>5, <1>6, <1>7, <1>8, <1>9, <1>10, <1>11, <1>12 DEF Worker

(* So does every step of the calling thread. *)
LEMMA RootedNext ==
  ASSUME Inv, Rooted, [Next]_vars
  PROVE  Rooted'
  <1> USE DEF Inv
  <1>1. CASE Main
    <2>1. UNCHANGED <<opened, visited>>
      BY <1>1 DEF Main, Reject, Seed, Submit, Return, history
    <2>2. \A w \in Workers : pc'[w] \notin Processing
      BY <1>1 DEF Main, Reject, Seed, Submit, Return, Phases, Processing, Pushing, Ended
    <2>3. queue' \subseteq queue \cup {Root}
      BY <1>1 DEF Main, Reject, Seed, Submit, Return, shared
    <2>4. \A d \in opened' \cup queue' : Abstract!Enterable(d)'
      BY <2>1, <2>3 DEF Rooted, Abstract!Enterable
    <2>5. QED
      BY <2>1, <2>2, <2>4 DEF Rooted, Processing, Holding, Counted
  <1>2. CASE \E w \in Workers : Worker(w)
    BY <1>2, RootedWorker
  <1>3. CASE Returned \/ UNCHANGED vars
    BY <1>3 DEF Returned, vars, shared, local, history, Rooted, Abstract!Enterable
  <1>4. QED
    BY <1>1, <1>2, <1>3 DEF Next

-----------------------------------------------------------------------------
(* The statistics. *)

(* A finite set gains one element, or one it had already. *)
LEMMA CountOne ==
  ASSUME NEW S, IsFiniteSet(S), NEW x
  PROVE  /\ IsFiniteSet(S \cup {x})
         /\ Cardinality(S) \in Nat
         /\ x \notin S => Cardinality(S \cup {x}) = Cardinality(S) + 1
         /\ Cardinality(S \cup {x}) <= Cardinality(S) + 1
  <1>1. Cardinality(S) \in Nat
    BY FS_CardinalityType
  <1>2. \/ x \in S /\ Cardinality(S \cup {x}) = Cardinality(S)
        \/ x \notin S /\ Cardinality(S \cup {x}) = Cardinality(S) + 1
    BY FS_AddElement, Zenon
  <1>3. IsFiniteSet(S \cup {x})
    BY FS_AddElement
  <1>4. QED
    BY <1>1, <1>2, <1>3

(* Every set of entries is finite, and every set of reports. *)
LEMMA Finite ==
  /\ \A S \in SUBSET Entries : IsFiniteSet(S)
  /\ \A S \in SUBSET (Entries \X Stages) : IsFiniteSet(S)
  <1>1. IsFiniteSet(Stages)
    <2>1. Stages = {"open"} \cup ({"getdents64"} \cup ({"path-too-long"} \cup
                   ({"stat"} \cup {"dirent-reader-alloc"})))
      BY DEF Stages
    <2>2. QED
      BY <2>1, FS_Singleton, FS_Union
  <1>2. IsFiniteSet(Entries \X Stages)
    BY <1>1, WalkAssumption, FS_Product
  <1>3. QED
    BY <1>2, WalkAssumption, FS_Subset

(* The files among what was visited. *)
Files == {e \in visited : EntryKind(e) = "file"}

(* The statistics, in the words of the walk. *)
Exact ==
  /\ stats["files"] = Cardinality(Files)
  /\ stats["directories"] = Cardinality(opened)
  /\ stats["errors"] >= Cardinality(reported)
  /\ stats["errors"] = 0 <=> reported = {}

(* The promise counts as the walk does. *)
LEMMA SameCardinality == ASSUME NEW S PROVE Abstract!Cardinality(S) = Cardinality(S)
  BY DEF Abstract!Cardinality, Cardinality

(* So the two state the same. *)
LEMMA ExactIsExact == Exact <=> StatsExact
  <1>1. Files = {e \in visited : Abstract!EntryKind(e) = "file"}
    BY SameEntries DEF Files
  <1>2. QED
    BY <1>1, SameCardinality DEF Exact, StatsExact, Abstract!StatsExact

(* An error that is counted is reported, perhaps once more. *)
LEMMA ReportExact ==
  ASSUME TypeOK, Exact, NEW path \in Entries, NEW stage \in Stages, ReportError(path, stage),
         UNCHANGED <<opened, visited>>
  PROVE  Exact'
  <1>1. /\ stats'["errors"] = stats["errors"] + 1 /\ stats["errors"] \in Nat
        /\ stats'["files"] = stats["files"] /\ stats'["directories"] = stats["directories"]
    BY DEF ReportError, Count, TypeOK, Counters
  <1>2. /\ Cardinality(reported') <= Cardinality(reported) + 1 /\ Cardinality(reported) \in Nat
        /\ Cardinality(reported') \in Nat /\ reported' # {}
    <2>1. IsFiniteSet(reported)
      BY Finite DEF TypeOK
    <2>2. QED
      BY <2>1, CountOne, FS_CardinalityType DEF ReportError
  <1>3. Files' = Files
    BY DEF Files, EntryKind, FollowsLink
  <1>4. QED
    BY <1>1, <1>2, <1>3 DEF Exact

(* What is neither opened, visited nor reported leaves these counters alone. *)
LEMMA SameExact ==
  ASSUME TypeOK, Exact, UNCHANGED <<opened, visited, reported>>,
         UNCHANGED stats \/ Count("skipped")
  PROVE  Exact'
  <1>1. \A c \in {"files", "directories", "errors"} : stats'[c] = stats[c]
    BY DEF Count, TypeOK, Counters
  <1>2. Files' = Files
    BY DEF Files, EntryKind, FollowsLink
  <1>3. QED
    BY <1>1, <1>2 DEF Exact

(* Nothing is counted twice, because nothing is opened or visited twice. *)
LEMMA ExactNext ==
  ASSUME Inv, Fresh, Exact, [Next]_vars
  PROVE  Exact'
  <1> USE DEF Inv
  <1>0. {"open", "getdents64", "path-too-long", "stat", "dirent-reader-alloc"} \subseteq Stages
        /\ Root \in Entries
    BY EntryAssumption DEF Stages
  <1>1. CASE Main \/ Returned \/ UNCHANGED vars
    <2>1. UNCHANGED <<opened, visited, reported, stats>>
      BY <1>1 DEF Main, Reject, Seed, Submit, Return, Returned, vars, history
    <2>2. QED
      BY <2>1, SameExact
  <1>2. ASSUME NEW w \in Workers, Worker(w) PROVE Exact'
    <2>0. cur[w] \in Entries /\ item[w] \in Entries
      BY DEF TypeOK
    <2>1. CASE \/ Poll(w) \/ Pop(w) \/ CheckOutstanding(w) \/ FailVisit(w)
               \/ CountSubdirectory(w) \/ PushSubdirectory(w) \/ Leave(w)
      <3>1. UNCHANGED <<opened, visited, reported, stats>>
        BY <2>1 DEF Poll, Pop, CheckOutstanding, FailVisit, CountSubdirectory, PushSubdirectory,
           Leave, history
      <3>2. QED
        BY <3>1, SameExact
    <2>2. CASE StartWorker(w) \/ WalkInline(w)
      <3>1. UNCHANGED <<opened, visited>>
        BY <2>2 DEF StartWorker, WalkInline
      <3>2. CASE NoError
        BY <3>1, <3>2, SameExact DEF NoError
      <3>3. CASE ReportError(Root, "dirent-reader-alloc") \/ ReportError(item[w], "dirent-reader-alloc")
        BY <1>0, <2>0, <3>1, <3>3, ReportExact
      <3>4. QED
        BY <2>2, <3>2, <3>3 DEF StartWorker, WalkInline
    <2>3. CASE Enter(w)
      <3>1. visited' = visited
        BY <2>3 DEF Enter
      <3>2. CASE NoError /\ UNCHANGED opened
        BY <3>1, <3>2, SameExact DEF NoError
      <3>3. CASE ReportError(cur[w], "open") /\ UNCHANGED opened
        BY <1>0, <2>0, <3>1, <3>3, ReportExact
      <3>4. CASE Count("directories") /\ opened' = opened \cup {cur[w]} /\ UNCHANGED reported
        <4>1. IsFiniteSet(opened)
          BY Finite DEF TypeOK
        <4>2. cur[w] \notin opened
          BY <2>3 DEF Enter, Fresh, InHand, Hand
        <4>3. /\ stats'["directories"] = stats["directories"] + 1
              /\ stats'["files"] = stats["files"] /\ stats'["errors"] = stats["errors"]
          BY <3>4 DEF Count, TypeOK, Counters
        <4>4. Files' = Files
          BY <3>1 DEF Files, EntryKind, FollowsLink
        <4>5. Cardinality(opened') = Cardinality(opened) + 1
          BY <3>4, <4>1, <4>2, CountOne
        <4>6. QED
          BY <3>4, <4>3, <4>4, <4>5 DEF Exact
      <3>5. QED
        BY <2>3, <3>2, <3>3, <3>4 DEF Enter
    <2>4. CASE Iterate(w)
      <3>1. UNCHANGED <<opened, visited>>
        BY <2>4 DEF Iterate
      <3>2. CASE NoError \/ (Count("skipped") /\ UNCHANGED reported)
        BY <3>1, <3>2, SameExact DEF NoError
      <3>3. CASE ReportError(cur[w], "getdents64") \/ ReportError(cur[w], "path-too-long")
        BY <1>0, <2>0, <3>1, <3>3, ReportExact
      <3>4. ASSUME NEW e \in Children(cur[w]), ReportError(e, "stat") PROVE Exact'
        BY <1>0, <3>1, <3>4, ReportExact DEF Children
      <3>5. ASSUME NEW e \in Children(cur[w]), ClassifyEntry(w, e) PROVE Exact'
        BY <3>2, <3>3, <3>4, <3>5, ClassifyOutcomes DEF Children
      <3>6. QED
        BY <2>4, <3>2, <3>3, <3>5, IterateOutcomes
    <2>5. CASE Visit(w)
      <3>1. /\ visited' = visited \cup {item[w]} /\ item[w] \notin visited
            /\ UNCHANGED <<opened, reported>>
        BY <2>5 DEF Visit, Fresh
      <3>2. CASE EntryKind(item[w]) = "file"
        <4>1. Count("files")
          BY <2>5, <3>2 DEF Visit
        <4>2. /\ stats'["files"] = stats["files"] + 1
              /\ stats'["directories"] = stats["directories"] /\ stats'["errors"] = stats["errors"]
          BY <4>1 DEF Count, TypeOK, Counters
        <4>3. Files' = Files \cup {item[w]} /\ item[w] \notin Files
          BY <3>1, <3>2 DEF Files, EntryKind, FollowsLink
        <4>4. IsFiniteSet(Files)
          BY Finite DEF TypeOK, Files
        <4>5. Cardinality(Files') = Cardinality(Files) + 1
          BY <4>3, <4>4, CountOne
        <4>6. QED
          BY <3>1, <4>2, <4>5 DEF Exact
      <3>3. CASE EntryKind(item[w]) # "file"
        <4>1. stats' = stats
          BY <2>5, <3>3 DEF Visit
        <4>2. Files' = Files
          BY <3>1, <3>3 DEF Files, EntryKind, FollowsLink
        <4>3. QED
          BY <3>1, <4>1, <4>2 DEF Exact
      <3>4. QED
        BY <3>2, <3>3
    <2>6. QED
      BY <1>2, <2>1, <2>2, <2>3, <2>4, <2>5 DEF Worker
  <1>3. QED
    BY <1>1, <1>2 DEF Next

(* What is in hand is fresh, always. *)
LEMMA FreshAlways == Spec => []Fresh
  <1>1. Init => Fresh
    BY DEF Init, Fresh, InHand, Holding, Pushing
  <1>2. QED
    BY <1>1, FreshNext, InvAlways, PTL DEF Spec

(***************************************************************************)
(* The statistics are exact at every step, so that no worker visits a file *)
(* or opens a directory that another has, and no error goes unreported.    *)
(***************************************************************************)
THEOREM StatsAreExact == Spec => []StatsExact
  <1>1. Init => Exact
    BY FS_EmptySet DEF Init, Exact, Files, Counters
  <1>2. Spec => []Exact
    BY <1>1, ExactNext, InvAlways, FreshAlways, PTL DEF Spec
  <1>3. Exact => StatsExact
    BY ExactIsExact
  <1>4. QED
    BY <1>2, <1>3, PTL

-----------------------------------------------------------------------------
(* What is done. *)

(* All that can be said of the work done so far. *)
Work == SeenAccounted /\ EnterableAccounted /\ LeftListed

(* What stops a walk early is not taken back, and neither is what was observed. *)
LEMMA HistoryGrows ==
  ASSUME Inv, [Next]_vars
  PROVE  /\ seen \subseteq seen' /\ opened \subseteq opened' /\ visited \subseteq visited'
         /\ reported \subseteq reported'
         /\ Good' => Good
  <1> USE DEF Inv
  <1>1. CASE Main
    BY <1>1 DEF Main, Reject, Seed, Submit, Return, shared, local, history, Good, Phases
  <1>2. ASSUME NEW w \in Workers, Worker(w)
        PROVE  /\ seen \subseteq seen' /\ opened \subseteq opened' /\ visited \subseteq visited'
               /\ reported \subseteq reported'
               /\ Good' => Good
    <2>1. pc[w] = "fail" => visit_failed'
      BY <1>2 DEF Worker, StartWorker, Poll, Pop, CheckOutstanding, Enter, Iterate, Visit, FailVisit,
         CountSubdirectory, PushSubdirectory, WalkInline, Leave
    <2>2. Good' => Good
      BY <1>2, <2>1, WorkerFrame DEF Good
    <2>3. QED
      BY <1>2, <2>2, WorkerFrame
  <1>3. CASE Returned \/ UNCHANGED vars
    BY <1>3 DEF Returned, vars, shared, local, history, Good
  <1>4. QED
    BY <1>1, <1>2, <1>3 DEF Next

(* So what is accounted for stays so. *)
LEMMA AccountedStays ==
  ASSUME Inv, [Next]_vars, NEW e \in Entries
  PROVE  /\ Abstract!EntryAccounted(e) => Abstract!EntryAccounted(e)'
         /\ Abstract!DirectoryAccounted(e) => Abstract!DirectoryAccounted(e)'
         /\ Listed(e) => Listed(e)'
  <1>1. /\ seen \subseteq seen' /\ opened \subseteq opened' /\ visited \subseteq visited'
        /\ reported \subseteq reported'
    BY HistoryGrows
  <1>2. Abstract!EntryAccounted(e) => Abstract!EntryAccounted(e)'
    BY <1>1 DEF Abstract!EntryAccounted
  <1>3. Abstract!DirectoryAccounted(e) => Abstract!DirectoryAccounted(e)'
    BY <1>1 DEF Abstract!DirectoryAccounted
  <1>4. Listed(e) => Listed(e)'
    BY <1>1 DEF Listed, Children
  <1>5. QED
    BY <1>2, <1>3, <1>4

(* An entry that was read is visited, or accounted for without a visit. *)
LEMMA SeenNext ==
  ASSUME Inv, SeenAccounted, [Next]_vars
  PROVE  SeenAccounted'
  <1> USE DEF Inv
  <1> SUFFICES ASSUME Good', NEW e \in seen', Wanted(e)
               PROVE  Abstract!EntryAccounted(e)' \/ \E v \in Workers : pc'[v] = "visit" /\ item'[v] = e
    BY DEF SeenAccounted, Wanted, Skipped, Visitable, EntryKind, FollowsLink
  <1>1. Good
    BY HistoryGrows
  <1>2. ASSUME e \in seen
        PROVE  Abstract!EntryAccounted(e)' \/ \E v \in Workers : pc[v] = "visit" /\ item[v] = e
    BY <1>1, <1>2, AccountedStays DEF SeenAccounted, TypeOK
  <1>3. CASE Main
    <2>1. \A v \in Workers : pc[v] # "visit"
      BY <1>3 DEF Main, Reject, Seed, Submit, Return, Phases, Ended
    <2>2. seen' = seen
      BY <1>3 DEF Main, Reject, Seed, Submit, Return, local
    <2>3. QED
      BY <1>2, <2>1, <2>2
  <1>4. ASSUME NEW w \in Workers, Worker(w)
        PROVE  Abstract!EntryAccounted(e)' \/ \E v \in Workers : pc'[v] = "visit" /\ item'[v] = e
    <2>0. \A v \in Workers : v # w => pc'[v] = pc[v] /\ item'[v] = item[v]
      BY <1>4, WorkerFrame
    <2>1. ASSUME e \in seen, pc[w] # "visit" 
          PROVE  Abstract!EntryAccounted(e)' \/ \E v \in Workers : pc'[v] = "visit" /\ item'[v] = e
      BY <1>2, <2>0, <2>1
    <2>2. CASE Iterate(w)
      <3>1. CASE e \in seen
        BY <2>1, <2>2, <3>1 DEF Iterate
      <3>2. CASE e \notin seen
        <4>1. e \in Children(cur[w]) /\ item'[w] = e /\ ClassifyEntry(w, e)
          BY <2>2, <3>2, IterateOutcomes
        <4>2. e \in Entries /\ Parent[e] = cur[w]
          BY <4>1 DEF Children
        <4>3. CASE pc'[w] = "visit"
          BY <4>1, <4>3
        <4>4. CASE ReportError(cur[w], "path-too-long") /\ e \in TooLong
          BY <4>2, <4>4 DEF ReportError, Abstract!EntryAccounted
        <4>5. CASE ReportError(e, "stat")
          BY <4>5 DEF ReportError, Abstract!EntryAccounted
        <4>6. QED
          BY <4>1, <4>2, <4>3, <4>4, <4>5, ClassifyOutcomes
      <3>3. QED
        BY <3>1, <3>2
    <2>3. CASE Visit(w)
      <3>1. seen' = seen /\ visited' = visited \cup {item[w]}
        BY <2>3 DEF Visit, local
      <3>2. CASE e = item[w]
        BY <3>1, <3>2 DEF Abstract!EntryAccounted
      <3>3. CASE e # item[w]
        BY <1>2, <2>0, <3>1, <3>3
      <3>4. QED
        BY <3>2, <3>3
    <2>4. CASE ~ Iterate(w) /\ ~ Visit(w)
      <3>1. seen' = seen /\ pc[w] # "visit"
        BY <1>4, <2>4 DEF Worker, StartWorker, Poll, Pop, CheckOutstanding, Enter, FailVisit,
           CountSubdirectory, PushSubdirectory, WalkInline, Leave, local
      <3>2. QED
        BY <2>1, <3>1
    <2>5. QED
      BY <2>2, <2>3, <2>4
  <1>5. CASE Returned \/ UNCHANGED vars
    <2>1. UNCHANGED <<seen, pc, item>>
      BY <1>5 DEF Returned, vars, local
    <2>2. QED
      BY <1>2, <2>1
  <1>6. QED
    BY <1>3, <1>4, <1>5 DEF Next

(* A directory there is reason to enter is queued, in hand, or accounted for. *)
LEMMA EnterableNext ==
  ASSUME Inv, Fresh, EnterableAccounted, [Next]_vars
  PROVE  EnterableAccounted'
  <1> USE DEF Inv
  <1> DEFINE Due(d) == \E v \in Workers : pc[v] \in Counted \cup {"enter"} /\ Hand(v) = d
  <1> SUFFICES ASSUME Good', main' \in {"submit", "wait"}, NEW d \in Entries, Abstract!Enterable(d)'
               PROVE  Abstract!DirectoryAccounted(d)' \/ d \in queue' \/ Due(d)'
    BY DEF EnterableAccounted
  <1>1. Good
    BY HistoryGrows
  <1>2. ASSUME Abstract!Enterable(d), main \in {"submit", "wait"}
        PROVE  Abstract!DirectoryAccounted(d)' \/ d \in queue \/ Due(d)
    BY <1>1, <1>2, AccountedStays DEF EnterableAccounted
  <1>3. ASSUME visited' = visited PROVE Abstract!Enterable(d)
    BY <1>3 DEF Abstract!Enterable
  <1>4. CASE Main
    <2>1. CASE Submit
      <3>1. UNCHANGED <<visited, queue>> /\ main = "submit" /\ \A v \in Workers : pc[v] = "idle"
        BY <2>1 DEF Submit, shared, history, Phases
      <3>2. ~ Due(d)
        BY <3>1 DEF Counted, Pushing
      <3>3. QED
        BY <1>2, <1>3, <3>1, <3>2
    <2>2. CASE Seed
      <3>1. queue' = {Root} /\ visited' = visited
        BY <2>2 DEF Seed, history
      <3>2. Abstract!Enterable(d)
        BY <1>3, <3>1
      <3>3. visited = {}
        BY <2>2 DEF Seed, Fresh
      <3>4. QED
        BY <3>1, <3>2, <3>3 DEF Abstract!Enterable
    <2>3. QED
      BY <1>4, <2>1, <2>2 DEF Main, Reject, Return
  <1>5. ASSUME NEW w \in Workers, Worker(w)
        PROVE  Abstract!DirectoryAccounted(d)' \/ d \in queue' \/ Due(d)'
    <2>0. /\ \A v \in Workers : v # w => pc'[v] = pc[v] /\ Hand(v)' = Hand(v)
          /\ main \in {"submit", "wait"}
      BY <1>5, WorkerFrame DEF Hand
    <2>1. ASSUME visited' = visited, queue \subseteq queue',
                 pc[w] \in Counted \cup {"enter"} =>
                   \/ pc'[w] \in Counted \cup {"enter"} /\ Hand(w)' = Hand(w)
                   \/ Hand(w) \in queue'
                   \/ d = Hand(w) => Abstract!DirectoryAccounted(d)'
          PROVE  Abstract!DirectoryAccounted(d)' \/ d \in queue' \/ Due(d)'
      <3>1. Abstract!DirectoryAccounted(d)' \/ d \in queue \/ Due(d)
        BY <1>2, <1>3, <2>0, <2>1
      <3>2. ASSUME NEW v \in Workers, pc[v] \in Counted \cup {"enter"}, Hand(v) = d
            PROVE  Abstract!DirectoryAccounted(d)' \/ d \in queue' \/ Due(d)'
        <4>1. CASE v # w
          BY <2>0, <3>2, <4>1
        <4>2. CASE v = w
          BY <2>1, <3>2, <4>2
        <4>3. QED
          BY <4>1, <4>2
      <3>3. QED
        BY <2>1, <3>1, <3>2
    <2>2. CASE \/ StartWorker(w) \/ Poll(w) \/ CheckOutstanding(w) \/ Iterate(w) \/ FailVisit(w)
               \/ Leave(w)
      <3>1. UNCHANGED <<visited, queue>> /\ pc[w] \notin Counted \cup {"enter"}
        BY <2>2 DEF StartWorker, Poll, CheckOutstanding, Iterate, FailVisit, Leave, shared, history,
           Counted, Pushing
      <3>2. QED
        BY <2>1, <3>1
    <2>3. CASE Pop(w)
      <3>1. visited' = visited /\ pc[w] \notin Counted \cup {"enter"}
        BY <2>3 DEF Pop, history, Counted, Pushing
      <3>2. CASE UNCHANGED queue
        BY <2>1, <3>1, <3>2
      <3>3. ASSUME NEW x \in queue, queue' = queue \ {x}, cur' = [cur EXCEPT ![w] = x], Goto(w, "enter")
            PROVE  Abstract!DirectoryAccounted(d)' \/ d \in queue' \/ Due(d)'
        <4>1. pc'[w] = "enter" /\ Hand(w)' = x
          BY <3>3 DEF Goto, TypeOK, Hand
        <4>2. Abstract!DirectoryAccounted(d)' \/ d \in queue \/ Due(d)
          BY <1>2, <1>3, <2>0, <3>1
        <4>3. Due(d) => Due(d)'
          BY <2>0, <3>1
        <4>4. d = x => Due(d)'
          BY <4>1
        <4>5. QED
          BY <3>3, <4>2, <4>3, <4>4
      <3>4. QED
        BY <2>3, <3>2, <3>3 DEF Pop
    <2>4. CASE Enter(w)
      <3>1. UNCHANGED <<visited, queue>> /\ Hand(w) = cur[w]
        BY <2>4 DEF Enter, shared, Hand
      <3>2. d = Hand(w) => Abstract!DirectoryAccounted(d)'
        BY <1>1, <2>4, <3>1 DEF Enter, Good, ReportError, Abstract!DirectoryAccounted
      <3>3. QED
        BY <2>1, <3>1, <3>2
    <2>5. CASE Visit(w)
      <3>1. /\ visited' = visited \cup {item[w]} /\ UNCHANGED <<queue, item>> /\ pc[w] = "visit"
            /\ \/ Goto(w, IF Descends(item[w]) THEN "count" ELSE "iterate")
               \/ pc'[w] = "fail"
        BY <2>5 DEF Visit, shared, local, Goto, TypeOK
      <3>2. pc'[w] # "fail"
        BY DEF Good
      <3>3. Descends(item[w]) => pc'[w] = "count" /\ Hand(w)' = item[w]
        BY <3>1, <3>2 DEF Goto, TypeOK, Hand
      <3>4. CASE Abstract!Enterable(d)
        <4>1. Abstract!DirectoryAccounted(d)' \/ d \in queue \/ Due(d)
          BY <1>2, <2>0, <3>4
        <4>2. Due(d) => Due(d)'
          BY <2>0, <3>1 DEF Counted, Pushing
        <4>3. QED
          BY <3>1, <4>1, <4>2
      <3>5. CASE ~ Abstract!Enterable(d)
        <4>1. d = item[w] /\ Descends(item[w])
          BY <3>1, <3>5, SameEntries DEF Abstract!Enterable
        <4>2. QED
          BY <3>3, <4>1 DEF Counted
      <3>6. QED
        BY <3>4, <3>5
    <2>6. CASE CountSubdirectory(w)
      <3>1. /\ UNCHANGED <<visited, queue, item>> /\ pc'[w] = "push" /\ pc[w] = "count"
        BY <2>6 DEF CountSubdirectory, local, history, Goto, TypeOK
      <3>2. pc'[w] \in Counted /\ Hand(w)' = Hand(w)
        BY <3>1 DEF Hand, Counted, Pushing
      <3>3. QED
        BY <2>1, <3>1, <3>2
    <2>7. CASE PushSubdirectory(w)
      <3>1. /\ UNCHANGED <<visited, item>> /\ pc[w] = "push" /\ Hand(w) = item[w]
            /\ \/ pc'[w] = "uncount" /\ queue' = queue
               \/ queue' = queue \cup {item[w]}
        BY <2>7 DEF PushSubdirectory, local, history, Goto, TypeOK, Hand
      <3>2. pc'[w] = "uncount" => pc'[w] \in Counted /\ Hand(w)' = Hand(w)
        BY <3>1 DEF Hand, Counted, Pushing
      <3>3. QED
        BY <2>1, <3>1, <3>2
    <2>8. CASE WalkInline(w)
      <3>1. UNCHANGED <<visited, queue>> /\ pc[w] = "uncount" /\ Hand(w) = item[w]
        BY <2>8 DEF WalkInline, Hand
      <3>2. CASE ReportError(item[w], "dirent-reader-alloc")
        BY <2>1, <3>1, <3>2 DEF ReportError, Abstract!DirectoryAccounted
      <3>3. CASE cur' = [cur EXCEPT ![w] = item[w]] /\ Goto(w, "enter")
        <4>1. pc'[w] = "enter" /\ Hand(w)' = Hand(w)
          BY <3>1, <3>3 DEF Goto, TypeOK, Hand
        <4>2. QED
          BY <2>1, <3>1, <4>1
      <3>4. QED
        BY <2>8, <3>2, <3>3 DEF WalkInline
    <2>9. QED
      BY <1>5, <2>2, <2>3, <2>4, <2>5, <2>6, <2>7, <2>8 DEF Worker
  <1>6. CASE Returned \/ UNCHANGED vars
    <2>1. UNCHANGED <<visited, queue, pc, main>> /\ \A v \in Workers : Hand(v)' = Hand(v)
      BY <1>6 DEF Returned, vars, shared, local, history, Hand
    <2>2. QED
      BY <1>2, <1>3, <2>1
  <1>7. QED
    BY <1>4, <1>5, <1>6 DEF Next

(* A directory that was opened is being read by some worker, until it is listed. *)
LEMMA LeftNext ==
  ASSUME Inv, Fresh, Rooted, LeftListed, [Next]_vars
  PROVE  LeftListed'
  <1> USE DEF Inv
  <1> DEFINE Goal(d) == Listed(d) \/ \E v \in Workers : Active(v, d)
  <1> SUFFICES ASSUME Good', NEW d \in opened' PROVE Goal(d)'
    BY DEF LeftListed
  <1>1. Good /\ d \in Entries
    BY HistoryGrows, InvNext DEF TypeOK
  <1>2. ASSUME d \in opened PROVE Listed(d)' \/ \E v \in Workers : Active(v, d)
    BY <1>1, <1>2, AccountedStays DEF LeftListed
  <1>3. CASE Main
    <2>1. \A v \in Workers : pc[v] \notin Processing
      BY <1>3 DEF Main, Reject, Seed, Submit, Return, Phases, Ended, Processing, Pushing
    <2>2. opened' = opened
      BY <1>3 DEF Main, Reject, Seed, Submit, Return, history
    <2>3. QED
      BY <1>2, <2>1, <2>2 DEF Active
  <1>4. ASSUME NEW w \in Workers, Worker(w) PROVE Goal(d)'
    <2>0. /\ \A v \in Workers : v # w /\ Active(v, d) => Active(v, d)'
          /\ cur[w] \in Entries /\ base[w] \in Entries /\ item[w] \in Entries
      BY <1>4, WorkerFrame DEF Active, TypeOK
    <2>1. ASSUME d \in opened, Active(w, d) => Goal(d)' PROVE Goal(d)'
      BY <1>2, <2>0, <2>1
    <2>2. ASSUME UNCHANGED <<opened, cur, base>>,
                 pc'[w] \in Processing, pc'[w] \in {"enter", "leave"} => d # cur[w] \/ Listed(d)'
          PROVE  Goal(d)'
      <3>1. Active(w, d) => Goal(d)'
        BY <2>2 DEF Active
      <3>2. QED
        BY <2>1, <2>2, <3>1
    <2>3. CASE StartWorker(w) \/ Poll(w) \/ Pop(w) \/ CheckOutstanding(w)
      <3>1. opened' = opened /\ pc[w] \notin Processing
        BY <2>3 DEF StartWorker, Poll, Pop, CheckOutstanding, history, Processing, Pushing
      <3>2. QED
        BY <2>1, <3>1 DEF Active
    <2>4. CASE Enter(w)
      <3>1. UNCHANGED <<cur, base>> /\ pc[w] = "enter" /\ pc[w] \in Processing /\ cur[w] \notin opened
        BY <2>4 DEF Enter, local, Processing, Fresh, InHand, Hand
      <3>2. CASE opened' = opened /\ pc'[w] = "leave"
        BY <2>2, <3>1, <3>2 DEF Processing
      <3>3. CASE opened' = opened \cup {cur[w]} /\ pc'[w] = "iterate"
        <4>1. d = cur[w] => Active(w, d)'
          BY <3>1, <3>3, BelowSelf DEF Active, Rooted, Processing
        <4>2. d # cur[w] => Goal(d)'
          <5>1. Active(w, d) => Active(w, d)'
            BY <3>1, <3>3 DEF Active, Processing
          <5>2. QED
            BY <2>1, <3>3, <5>1
        <4>3. QED
          BY <4>1, <4>2
      <3>4. QED
        BY <2>4, <3>2, <3>3 DEF Enter, Goto, TypeOK
    <2>5. CASE Iterate(w)
      <3>1. UNCHANGED <<opened, cur, base>>
        BY <2>5 DEF Iterate
      <3>2. CASE pc'[w] \in {"iterate", "visit"}
        BY <2>2, <3>1, <3>2 DEF Processing
      <3>3. CASE pc'[w] = "leave" /\ ReportError(cur[w], "getdents64")
        BY <2>2, <3>1, <3>3 DEF Processing, ReportError, Listed
      <3>4. CASE pc'[w] = "leave" /\ Children(cur[w]) \subseteq seen /\ UNCHANGED seen
        BY <2>2, <3>1, <3>4 DEF Processing, Listed, Children
      <3>5. ASSUME NEW e \in Children(cur[w]), ClassifyEntry(w, e) PROVE Goal(d)'
        BY <3>2, <3>5, ClassifyOutcomes DEF Children
      <3>6. QED
        BY <1>1, <2>5, <3>3, <3>4, <3>5, IterateOutcomes DEF Good
    <2>6. CASE Visit(w) \/ CountSubdirectory(w) \/ PushSubdirectory(w)
      <3>1. UNCHANGED <<opened, cur, base>> /\ pc'[w] \in Processing \ {"enter", "leave"}
        BY <2>6 DEF Visit, CountSubdirectory, PushSubdirectory, local, history, Goto, TypeOK,
           Processing, Pushing
      <3>2. QED
        BY <2>2, <3>1
    <2>7. CASE FailVisit(w)
      BY <2>7 DEF FailVisit, Good
    <2>8. CASE WalkInline(w)
      <3>1. /\ opened' = opened /\ base' = base /\ pc[w] = "uncount"
            /\ pc[w] \in Processing /\ pc[w] \in Holding
        BY <2>8 DEF WalkInline, Processing, Holding, Pushing
      <3>2. item[w] # Root /\ Parent[item[w]] = cur[w] /\ item[w] \notin opened
        BY <3>1 DEF Rooted, Fresh, InHand, Hand
      <3>3. CASE UNCHANGED cur /\ pc'[w] = "iterate"
        BY <2>2, <3>1, <3>3 DEF Processing
      <3>4. CASE cur' = [cur EXCEPT ![w] = item[w]] /\ pc'[w] = "enter"
        <4>1. cur'[w] = item[w]
          BY <3>4 DEF TypeOK
        <4>2. Active(w, d) => Active(w, d)'
          BY <2>0, <3>1, <3>2, <3>4, <4>1, BelowEntry DEF Active, Processing
        <4>3. QED
          BY <2>1, <3>1, <4>2
      <3>5. QED
        BY <2>8, <3>3, <3>4 DEF WalkInline, Goto, TypeOK
    <2>9. CASE Leave(w)
      <3>1. opened' = opened /\ base' = base /\ pc[w] = "leave" /\ pc[w] \in Processing
        BY <2>9 DEF Leave, history, Processing
      <3>2. CASE cur[w] = base[w]
        <4>1. Abstract!Enterable(cur[w])
          BY <3>1 DEF Rooted
        <4>2. Below(cur[w], Root)
          BY <2>0, <4>1, EnterableIsRooted
        <4>3. ~ Active(w, d)
          BY <1>1, <2>0, <3>1, <3>2, <4>2, BelowOnce DEF Active
        <4>4. QED
          BY <2>1, <3>1, <4>3
      <3>3. CASE cur' = [cur EXCEPT ![w] = Parent[cur[w]]] /\ pc'[w] = "iterate"
        <4>1. cur'[w] = Parent[cur[w]]
          BY <3>3 DEF TypeOK
        <4>2. Active(w, d) => Active(w, d)'
          BY <2>0, <3>1, <3>3, <4>1, BelowParent DEF Active, Processing
        <4>3. QED
          BY <2>1, <3>1, <4>2
      <3>4. QED
        BY <2>9, <3>2, <3>3 DEF Leave, Goto, TypeOK
    <2>10. QED
      BY <1>4, <2>3, <2>4, <2>5, <2>6, <2>7, <2>8, <2>9 DEF Worker
  <1>5. CASE Returned \/ UNCHANGED vars
    <2>1. UNCHANGED <<opened, pc, cur, base>>
      BY <1>5 DEF Returned, vars, local, history
    <2>2. QED
      BY <1>2, <2>1 DEF Active
  <1>6. QED
    BY <1>3, <1>4, <1>5 DEF Next

(* The walk's directories are rooted, always. *)
LEMMA RootedAlways == Spec => []Rooted
  <1>1. Init => Rooted
    BY DEF Init, Rooted, Processing, Holding, Counted, Pushing
  <1>2. QED
    BY <1>1, RootedNext, InvAlways, PTL DEF Spec

(* And what it has done is accounted for. *)
LEMMA WorkAlways == Spec => []Work
  <1>1. Init => Work
    BY DEF Init, Work, SeenAccounted, EnterableAccounted, LeftListed
  <1>2. Inv /\ Fresh /\ Rooted /\ Work /\ [Next]_vars => Work'
    BY SeenNext, EnterableNext, LeftNext DEF Work
  <1>3. QED
    BY <1>1, <1>2, InvAlways, FreshAlways, RootedAlways, PTL DEF Spec

-----------------------------------------------------------------------------
(* How the walk ends. *)

(***************************************************************************)
(* A task ends early only because the walk is over for all; a task that    *)
(* was accepted never becomes one that was not; the result is there when   *)
(* the calling thread is done, and a true one is no better than it says.   *)
(***************************************************************************)
Ending ==
  /\ Exits
  /\ Returning
  /\ main = "wait" /\ "submit" \notin Faults => \A w \in Workers : pc[w] # "idle"
  /\ result = "true" => ~ visit_failed
  /\ OneTaskSuffices

(* When every task has ended, and some task there was, nothing is missing. *)
LEMMA LastIsComplete ==
  ASSUME Inv, NoEarlyTermination, Work, Ending, main = "wait", ~ stopped, ~ visit_failed,
         \A w \in Workers : pc[w] \in Ended, \E w \in Workers : pc[w] # "idle"
  PROVE  Abstract!Complete
  <1>1. \A w \in Workers : pc[w] \notin Processing /\ pc[w] # "exited" /\ pc[w] # "fail"
    BY DEF Ended, Processing, Pushing, Ending, Exits
  <1>2. Good
    BY <1>1 DEF Good
  <1>3. queue = {}
    <2>1. \E w \in Workers : pc[w] = "drained"
      BY <1>1 DEF Ended
    <2>2. QED
      BY <2>1 DEF NoEarlyTermination
  <1>4. \A w \in Workers : pc[w] \notin Counted \cup {"enter", "visit"}
    BY <1>1 DEF Processing, Counted
  <1>5. \A d \in Entries : Abstract!Enterable(d) => Abstract!DirectoryAccounted(d)
    BY <1>2, <1>3, <1>4 DEF Work, EnterableAccounted
  <1>6. ASSUME NEW d \in opened, NEW e \in Children(d), Wanted(e)
        PROVE  Abstract!EntryAccounted(e)
    <2>1. Listed(d) /\ Parent[e] = d
      BY <1>1, <1>2 DEF Work, LeftListed, Active, Children
    <2>2. QED
      BY <1>2, <1>4, <1>6, <2>1 DEF Listed, Work, SeenAccounted, Abstract!EntryAccounted
  <1>7. QED
    BY <1>5, <1>6, SameEntries DEF Abstract!Complete

(* Whether a walk is complete depends on what the caller has observed only. *)
LEMMA SameComplete ==
  ASSUME UNCHANGED <<opened, visited, reported>>
  PROVE  Abstract!Complete' <=> Abstract!Complete
  BY DEF Abstract!Complete, Abstract!Enterable, Abstract!DirectoryAccounted, Abstract!EntryAccounted,
         Abstract!Wanted, Abstract!Skipped, Abstract!Visitable, Abstract!EntryKind,
         Abstract!FollowsLink, Abstract!Descends, Abstract!Children

(* Every step keeps the promises about the end. *)
LEMMA EndingNext ==
  ASSUME Inv, NoEarlyTermination, Work, Ending, [Next]_vars
  PROVE  Ending'
  <1> USE DEF Inv
  <1>1. CASE Reject \/ Seed
    <2>1. /\ UNCHANGED <<pc, visit_failed, stopped>> /\ main' \in {"submit", "done"}
          /\ \/ main' = "submit" /\ result' = result /\ main # "done"
             \/ main' = "done" /\ result' = "false"
      BY <1>1 DEF Reject, Seed, shared, history
    <2>2. QED
      BY <2>1 DEF Ending, Exits, Returning, OneTaskSuffices
  <1>2. CASE Submit
    <2>1. UNCHANGED <<visit_failed, stopped, result>> /\ main = "submit" /\ main' = "wait"
      BY <1>2 DEF Submit, shared, history
    <2>2. /\ \A w \in Workers : pc'[w] # "exited"
          /\ "submit" \notin Faults => \A w \in Workers : pc'[w] # "idle"
      BY <1>2 DEF Submit
    <2>3. result = "none"
      BY <2>1 DEF Ending, Returning
    <2>4. QED
      BY <2>1, <2>2, <2>3 DEF Ending, Exits, Returning, OneTaskSuffices
  <1>3. CASE Return
    <2>1. /\ UNCHANGED <<visit_failed, stopped, pc, opened, visited, reported>>
          /\ main = "wait" /\ main' = "done" /\ \A w \in Workers : pc[w] \in Ended
          /\ result' \in {"true", "false"} /\ (result' = "true" => ~ visit_failed)
      BY <1>3 DEF Return, history
    <2>2. ASSUME result' = "true", ~ stopped
          PROVE  Abstract!Complete' \/ \A w \in Workers : pc'[w] = "idle"
      BY <2>1, <2>2, LastIsComplete, SameComplete
    <2>3. OneTaskSuffices'
      BY <2>1, <2>2 DEF OneTaskSuffices
    <2>4. QED
      BY <2>1, <2>3 DEF Ending, Exits, Returning
  <1>4. ASSUME NEW w \in Workers, Worker(w) PROVE Ending'
    <2>1. pc[w] \notin Ended
      BY <1>4 DEF Worker, StartWorker, Poll, Pop, CheckOutstanding, Enter, Iterate, Visit, FailVisit,
         CountSubdirectory, PushSubdirectory, WalkInline, Leave, Ended
    <2>2. main = "wait" /\ result = "none"
      BY <2>1, WorkersRunInWait DEF Ending, Returning
    <2>3. /\ \A v \in Workers : v # w => pc'[v] = pc[v]
          /\ UNCHANGED <<main, result>> /\ (stopped => stopped') /\ (visit_failed => visit_failed')
      BY <1>4, WorkerFrame
    <2>4. pc'[w] # "idle" /\ (pc'[w] = "exited" => stopped' \/ visit_failed')
      <3>1. CASE StartWorker(w) \/ Poll(w)
        BY <3>1 DEF StartWorker, Poll, Goto, TypeOK, shared
      <3>2. CASE Iterate(w)
        BY <3>2, IterateOutcomes, ClassifyOutcomes DEF Children
      <3>3. CASE \/ Pop(w) \/ CheckOutstanding(w) \/ Enter(w) \/ Visit(w) \/ FailVisit(w)
                 \/ CountSubdirectory(w) \/ PushSubdirectory(w) \/ WalkInline(w) \/ Leave(w)
        BY <3>3 DEF Pop, CheckOutstanding, Enter, Visit, FailVisit, CountSubdirectory,
           PushSubdirectory, WalkInline, Leave, Goto, TypeOK
      <3>4. QED
        BY <1>4, <3>1, <3>2, <3>3 DEF Worker
    <2>5. Exits'
      BY <2>3, <2>4 DEF Ending, Exits
    <2>6. main = "wait" /\ "submit" \notin Faults => \A v \in Workers : pc'[v] # "idle"
      BY <2>3, <2>4 DEF Ending
    <2>7. QED
      BY <2>2, <2>3, <2>5, <2>6 DEF Ending, Returning, OneTaskSuffices
  <1>5. CASE Returned \/ UNCHANGED vars
    <2>1. UNCHANGED <<main, result, pc, stopped, visit_failed, opened, visited, reported>>
      BY <1>5 DEF Returned, vars, shared, history
    <2>2. QED
      BY <2>1, SameComplete DEF Ending, Exits, Returning, OneTaskSuffices
  <1>6. QED
    BY <1>1, <1>2, <1>3, <1>4, <1>5 DEF Next, Main

(* So they hold always. *)
LEMMA EndingAlways == Spec => []Ending
  <1>1. Init => Ending
    BY DEF Init, Ending, Exits, Returning, OneTaskSuffices
  <1>2. QED
    BY <1>1, EndingNext, InvAlways, TerminationIsSound, WorkAlways, PTL DEF Spec

(***************************************************************************)
(* One accepted task is enough: a walk that returns true is complete, or   *)
(* was stopped, or had no task at all.                                     *)
(***************************************************************************)
THEOREM OneTaskIsEnough == Spec => []OneTaskSuffices
  <1>1. Ending => OneTaskSuffices
    BY DEF Ending
  <1>2. QED
    BY <1>1, EndingAlways, PTL

-----------------------------------------------------------------------------
(* The promise of every walk. *)

(* A worker that reports an error may do so. *)
LEMMA ReportAllowed ==
  ASSUME NEW p \in Entries, NEW s \in Stages, ReportError(p, s),
         Abstract!Enterable(p) \/ Parent[p] \in opened, result = "none",
         UNCHANGED <<opened, visited, visit_failed, stopped, result>>
  PROVE  Abstract!Next
  <1>1. Abstract!Report(p, s)
    BY DEF Abstract!Report, ReportError
  <1>2. s \in Abstract!Stages
    BY DEF Stages, Abstract!Stages
  <1>3. QED
    BY <1>1, <1>2 DEF Abstract!Next

(* Every step of a worker is one the promise allows, or not observed. *)
LEMMA WorkerAllowed ==
  ASSUME Inv, Fresh, Rooted, Ending, NEW w \in Workers, Worker(w)
  PROVE  [Abstract!Next]_(Abstract!vars)
  <1> USE DEF Inv
  <1>0. /\ {"open", "getdents64", "path-too-long", "stat", "dirent-reader-alloc"} \subseteq Stages
        /\ cur[w] \in Entries /\ item[w] \in Entries /\ Root \in Entries
    BY EntryAssumption DEF Stages, TypeOK
  <1>1. ASSUME UNCHANGED <<opened, visited, reported, stopped, visit_failed>>
        PROVE  UNCHANGED Abstract!vars
    BY <1>1, WorkerFrame DEF Abstract!vars
  <1>2. result = "none" /\ result' = result
    <2>1. pc[w] \notin Ended
      BY DEF Worker, StartWorker, Poll, Pop, CheckOutstanding, Enter, Iterate, Visit, FailVisit,
         CountSubdirectory, PushSubdirectory, WalkInline, Leave, Ended
    <2>2. QED
      BY <2>1, WorkersRunInWait, WorkerFrame DEF Ending, Returning
  <1>3. CASE StartWorker(w)
    <2>1. UNCHANGED <<opened, visited, stopped>>
      BY <1>3 DEF StartWorker
    <2>2. CASE NoError /\ UNCHANGED visit_failed
      BY <1>1, <2>1, <2>2 DEF NoError
    <2>3. CASE visit_failed' = TRUE /\ ReportError(Root, "dirent-reader-alloc")
      BY <1>2, <2>1, <2>3 DEF ReportError, Abstract!Next, Abstract!Fail
    <2>4. QED
      BY <1>3, <2>2, <2>3 DEF StartWorker
  <1>4. CASE Poll(w)
    <2>1. UNCHANGED <<opened, visited, reported, visit_failed>>
      BY <1>4 DEF Poll, shared
    <2>2. CASE stopped' = TRUE
      BY <1>2, <2>1, <2>2 DEF Abstract!Next, Abstract!Stop
    <2>3. CASE UNCHANGED stopped
      BY <1>1, <2>1, <2>3
    <2>4. QED
      BY <1>4, <2>2, <2>3 DEF Poll
  <1>5. CASE \/ Pop(w) \/ CheckOutstanding(w) \/ CountSubdirectory(w) \/ PushSubdirectory(w)
             \/ Leave(w)
    BY <1>1, <1>5 DEF Pop, CheckOutstanding, CountSubdirectory, PushSubdirectory, Leave, shared, history
  <1>6. CASE Enter(w)
    <2>1. UNCHANGED <<visited, visit_failed, stopped>> /\ pc[w] = "enter"
      BY <1>6 DEF Enter, shared
    <2>2. Abstract!Enterable(cur[w]) /\ cur[w] \notin opened
      BY <2>1 DEF Rooted, Processing, Fresh, InHand, Hand
    <2>3. CASE NoError /\ UNCHANGED opened
      BY <1>1, <2>1, <2>3 DEF NoError
    <2>4. CASE ReportError(cur[w], "open") /\ UNCHANGED opened
      BY <1>0, <1>2, <2>1, <2>2, <2>4, ReportAllowed
    <2>5. CASE opened' = opened \cup {cur[w]} /\ UNCHANGED reported
      BY <1>0, <1>2, <2>1, <2>2, <2>5 DEF Abstract!Next, Abstract!Open
    <2>6. QED
      BY <1>6, <2>3, <2>4, <2>5 DEF Enter
  <1>7. CASE Iterate(w)
    <2>1. UNCHANGED <<opened, visited, visit_failed, stopped>> /\ pc[w] = "iterate"
      BY <1>7 DEF Iterate, shared
    <2>2. Abstract!Enterable(cur[w]) /\ cur[w] \in opened
      BY <2>1 DEF Rooted, Processing
    <2>3. CASE UNCHANGED reported
      BY <1>1, <2>1, <2>3
    <2>4. CASE ReportError(cur[w], "getdents64") \/ ReportError(cur[w], "path-too-long")
      BY <1>0, <1>2, <2>1, <2>2, <2>4, ReportAllowed
    <2>5. ASSUME NEW e \in Children(cur[w]), ReportError(e, "stat") PROVE Abstract!Next
      BY <1>0, <1>2, <2>1, <2>2, <2>5, ReportAllowed DEF Children
    <2>6. ASSUME NEW e \in Children(cur[w]), ClassifyEntry(w, e) PROVE [Abstract!Next]_(Abstract!vars)
      BY <2>3, <2>4, <2>5, <2>6, ClassifyOutcomes DEF Children, NoError
    <2>7. QED
      BY <1>7, <2>3, <2>4, <2>6, IterateOutcomes DEF NoError
  <1>8. CASE Visit(w)
    <2>1. /\ UNCHANGED <<opened, reported, visit_failed, stopped>> /\ pc[w] = "visit"
          /\ visited' = visited \cup {item[w]}
      BY <1>8 DEF Visit, shared
    <2>2. pc[w] \in Holding /\ pc[w] \in Processing \ {"enter", "leave"}
      BY <2>1 DEF Holding, Processing
    <2>3. Wanted(item[w]) /\ item[w] \notin visited /\ item[w] # Root /\ Parent[item[w]] \in opened
      BY <2>1, <2>2 DEF Rooted, Fresh
    <2>4. QED
      BY <1>0, <1>2, <2>1, <2>3, SameEntries DEF Abstract!Next, Abstract!Visit
  <1>9. CASE FailVisit(w)
    BY <1>2, <1>9 DEF FailVisit, history, Abstract!Next, Abstract!Fail
  <1>10. CASE WalkInline(w)
    <2>1. UNCHANGED <<opened, visited, visit_failed, stopped>> /\ pc[w] = "uncount"
      BY <1>10 DEF WalkInline
    <2>2. Abstract!Enterable(item[w])
      BY <2>1, SameEntries DEF Rooted, Counted, Pushing, Abstract!Enterable
    <2>3. CASE NoError
      BY <1>1, <2>1, <2>3 DEF NoError
    <2>4. CASE ReportError(item[w], "dirent-reader-alloc")
      BY <1>0, <1>2, <2>1, <2>2, <2>4, ReportAllowed
    <2>5. QED
      BY <1>10, <2>3, <2>4 DEF WalkInline
  <1>11. QED
    BY <1>3, <1>4, <1>5, <1>6, <1>7, <1>8, <1>9, <1>10 DEF Worker

(* The calling thread returns only what the promise allows. *)
LEMMA MainAllowed ==
  ASSUME Inv, NoEarlyTermination, Work, Ending, StatsExact, Main,
         "submit" \notin Faults, Workers # {}
  PROVE  [Abstract!Next]_(Abstract!vars)
  <1> USE DEF Inv
  <1>1. UNCHANGED <<opened, visited, reported, stopped, visit_failed>>
    BY DEF Main, Reject, Seed, Submit, Return, shared, history
  <1>2. CASE UNCHANGED result
    BY <1>1, <1>2 DEF Abstract!vars
  <1>3. CASE result = "none" /\ result' = "false"
    BY <1>1, <1>3 DEF Abstract!Next, Abstract!Return, StatsExact
  <1>4. CASE Return /\ result' = "true"
    <2>1. main = "wait" /\ ~ visit_failed /\ \A w \in Workers : pc[w] \in Ended
      BY <1>4 DEF Return
    <2>2. result = "none" /\ \E w \in Workers : pc[w] # "idle"
      BY <2>1 DEF Ending, Returning
    <2>3. stopped \/ Abstract!Complete
      BY <2>1, <2>2, LastIsComplete
    <2>4. QED
      BY <1>1, <1>4, <2>1, <2>2, <2>3 DEF Abstract!Next, Abstract!Return, StatsExact
  <1>5. QED
    BY <1>2, <1>3, <1>4 DEF Main, Reject, Seed, Submit, Return, Ending, Returning

(***************************************************************************)
(* Where bc_concurrency_submit takes every task, and there is one, the     *)
(* parallel walk keeps the promise of every walk, for every tree, number   *)
(* of workers, capacity and other fault: nothing is visited twice, or      *)
(* before its directory was opened; a true result without a stop accounts  *)
(* for every entry; the statistics that go with a result are exact.        *)
(***************************************************************************)
THEOREM ParallelIsWalk ==
  ASSUME "submit" \notin Faults, Workers # {}
  PROVE  Spec => ImplementsWalk
  <1>1. Init => Abstract!Init
    BY DEF Init, Abstract!Init
  <1>2. ASSUME Inv, Fresh, Rooted, Work, Ending, NoEarlyTermination, StatsExact, [Next]_vars
        PROVE  [Abstract!Next]_(Abstract!vars)
    <2>1. CASE Main
      BY <1>2, <2>1, MainAllowed
    <2>2. CASE \E w \in Workers : Worker(w)
      BY <1>2, <2>2, WorkerAllowed
    <2>3. CASE Returned \/ UNCHANGED vars
      BY <2>3 DEF Returned, vars, shared, history, Abstract!vars
    <2>4. QED
      BY <1>2, <2>1, <2>2, <2>3 DEF Next
  <1>3. QED
    BY <1>1, <1>2, InvAlways, FreshAlways, RootedAlways, WorkAlways, EndingAlways,
       TerminationIsSound, StatsAreExact, PTL DEF Spec, ImplementsWalk, Abstract!Spec
==============================================================================
