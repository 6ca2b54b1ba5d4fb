--------------------------- MODULE InodeSetProofs ---------------------------
(***************************************************************************)
(* Proofs about InodeSet, for every set of keys, every hash and every      *)
(* initial capacity: linear probing finds what is in the table, before,    *)
(* during and after a grow, and so the table is the set that InodeSetSpec  *)
(* promises.                                                               *)
(*                                                                         *)
(* The lemmas of the first part are about any table of n buckets, since a  *)
(* grow works on two of them.                                              *)
(***************************************************************************)
EXTENDS InodeSet, FiniteSetTheorems, TLAPS

(* The buckets of a table of n. *)
Table(n) == 0 .. n - 1

(* Probes in a table of n buckets find every entry. *)
Reaches(n, occ, ent) ==
  \A i, j \in Table(n) : occ[i] /\ Passes(Hash(ent[i], n), j, i) => occ[j]

(* No key is in the table twice. *)
Distinct(n, occ, ent) ==
  \A i, j \in Table(n) : occ[i] /\ occ[j] /\ ent[i] = ent[j] => i = j

(* A probe for k has come to bucket s: what it passed is taken. *)
Passed(n, occ, k, s) == \A j \in Table(n) : Passes(Hash(k, n), j, s) => occ[j]

(* A probe starts in the table, *)
LEMMA HashInRange ==
  ASSUME NEW k \in Keys, NEW n \in Nat \ {0}
  PROVE  Hash(k, n) \in Table(n)
  <1>1. Mix[k] \in Nat
    BY SetAssumption
  <1>2. Mix[k] % n \in Nat /\ Mix[k] % n < n
    BY <1>1
  <1>3. QED
    BY <1>2 DEF Hash, Table

(* and stays there. *)
LEMMA NextInRange ==
  ASSUME NEW n \in Nat \ {0}, NEW s \in Table(n)
  PROVE  NextSlot(s, n) \in Table(n)
  BY DEF NextSlot, Table

(* The probe passes one bucket more; back at its start it has passed none. *)
LEMMA PassesNext ==
  ASSUME NEW n \in Nat \ {0}, NEW h \in Table(n), NEW s \in Table(n), NEW j \in Table(n),
         Passes(h, j, NextSlot(s, n))
  PROVE  Passes(h, j, s) \/ j = s
  BY DEF Passes, NextSlot, Table

(* At its start a probe has passed nothing. *)
LEMMA PassesNothing ==
  ASSUME NEW n \in Nat \ {0}, NEW h \in Table(n), NEW j \in Table(n)
  PROVE  ~ Passes(h, j, h)
  BY DEF Passes, Table

(* Of two buckets a probe passes one before the other. *)
LEMMA PassesTotal ==
  ASSUME NEW n \in Nat \ {0}, NEW h \in Table(n), NEW i \in Table(n), NEW s \in Table(n), i # s
  PROVE  Passes(h, i, s) \/ Passes(h, s, i)
  BY DEF Passes, Table

(* Filling the bucket at which a probe ended keeps every entry in reach. *)
LEMMA PutReaches ==
  ASSUME NEW n \in Nat \ {0}, NEW occ \in [Table(n) -> BOOLEAN], NEW ent \in [Table(n) -> Keys],
         NEW k \in Keys, NEW s \in Table(n),
         Reaches(n, occ, ent), ~ occ[s], Passed(n, occ, k, s)
  PROVE  Reaches(n, [occ EXCEPT ![s] = TRUE], [ent EXCEPT ![s] = k])
  <1> DEFINE occ2 == [occ EXCEPT ![s] = TRUE]
             ent2 == [ent EXCEPT ![s] = k]
  <1> SUFFICES ASSUME NEW i \in Table(n), NEW j \in Table(n),
                      occ2[i], Passes(Hash(ent2[i], n), j, i)
               PROVE  occ2[j]
    BY DEF Reaches
  <1>1. occ[j] => occ2[j]
    OBVIOUS
  <1>2. CASE i = s
    <2>1. ent2[i] = k
      BY <1>2
    <2>2. QED
      BY <1>1, <1>2, <2>1 DEF Passed
  <1>3. CASE i # s
    <2>1. ent2[i] = ent[i] /\ occ[i]
      BY <1>3
    <2>2. QED
      BY <1>1, <2>1 DEF Reaches
  <1>4. QED
    BY <1>2, <1>3

(* A key that the probe has not met before an empty bucket is not there. *)
LEMMA NotFound ==
  ASSUME NEW n \in Nat \ {0}, NEW occ, NEW ent \in [Table(n) -> Keys],
         NEW k \in Keys, NEW s \in Table(n), Reaches(n, occ, ent), ~ occ[s],
         \A j \in Table(n) : Passes(Hash(k, n), j, s) => ent[j] # k,
         NEW i \in Table(n), occ[i]
  PROVE  ent[i] # k
  <1> SUFFICES ASSUME ent[i] = k PROVE FALSE
    OBVIOUS
  <1>1. i # s /\ ~ Passes(Hash(k, n), i, s)
    OBVIOUS
  <1>2. Passes(Hash(k, n), s, i)
    BY <1>1, HashInRange, PassesTotal
  <1>3. QED
    BY <1>2 DEF Reaches

(* A key that is not there is not there twice once it is put in. *)
LEMMA PutDistinct ==
  ASSUME NEW n \in Nat \ {0}, NEW occ \in [Table(n) -> BOOLEAN], NEW ent \in [Table(n) -> Keys],
         NEW k \in Keys, NEW s \in Table(n), Distinct(n, occ, ent),
         \A i \in Table(n) : occ[i] => ent[i] # k
  PROVE  Distinct(n, [occ EXCEPT ![s] = TRUE], [ent EXCEPT ![s] = k])
  BY DEF Distinct

(* The taken buckets of a table. *)
Filled(n, occ) == {i \in Table(n) : occ[i]}

(* The buckets are finitely many, and the taken ones at most all of them. *)
LEMMA FilledFinite ==
  ASSUME NEW n \in Nat, NEW occ
  PROVE  IsFiniteSet(Filled(n, occ)) /\ Cardinality(Filled(n, occ)) \in Nat
  <1>1. IsFiniteSet(Table(n))
    BY FS_Interval DEF Table
  <1>2. IsFiniteSet(Filled(n, occ))
    BY <1>1, FS_Subset DEF Filled
  <1>3. QED
    BY <1>2, FS_CardinalityType

(* A cleared table has no taken bucket. *)
LEMMA NoneFilled ==
  ASSUME NEW n \in Nat, NEW occ, \A i \in Table(n) : ~ occ[i]
  PROVE  Filled(n, occ) = {} /\ Cardinality(Filled(n, occ)) = 0
  BY FS_EmptySet DEF Filled

(* Filling an empty bucket takes one bucket more. *)
LEMMA PutFills ==
  ASSUME NEW n \in Nat \ {0}, NEW occ \in [Table(n) -> BOOLEAN], NEW s \in Table(n), ~ occ[s],
         NEW occ2, occ2 = [occ EXCEPT ![s] = TRUE]
  PROVE  /\ Filled(n, occ2) = Filled(n, occ) \cup {s}
         /\ Cardinality(Filled(n, occ2)) = Cardinality(Filled(n, occ)) + 1
  <1>1. Filled(n, occ2) = Filled(n, occ) \cup {s}
    BY DEF Filled
  <1>2. s \notin Filled(n, occ)
    BY DEF Filled
  <1>3. QED
    BY <1>1, <1>2, FilledFinite, FS_AddElement

-----------------------------------------------------------------------------
(* Types. *)

(* The types before the first call. *)
LEMMA TypeInit == Init => TypeOK
  BY SetAssumption DEF Init, TypeOK, ScalarsOK, TableOK, FreshOK, PositionsOK, Answers

(* Every step keeps the types of the numbers and of the positions of a probe, *)
LEMMA ScalarsNext ==
  ASSUME TypeOK, [Next]_vars
  PROVE  ScalarsOK' /\ PositionsOK'
  <1> USE DEF TypeOK, ScalarsOK, PositionsOK, table, fresh, Buckets, NewCapacity
  <1>1. CASE RoundUp
    BY <1>1, SetAssumption DEF RoundUp
  <1>2. CASE Create
    BY <1>2, SetAssumption DEF Create, Requested
  <1>3. ASSUME NEW k \in Keys, Insert(k) PROVE ScalarsOK' /\ PositionsOK'
    <2>1. Hash(k, capacity) \in Nat /\ Hash(k, capacity) < capacity
      BY <1>3, HashInRange DEF Insert, Table, TableOK
    <2>2. /\ key' = k /\ capacity' = capacity /\ size' = size /\ asked' = asked
          /\ \/ pc' = "grow" /\ index' = 0 /\ slot' = slot
             \/ pc' = "idle" /\ index' = index /\ slot' = slot
             \/ pc' = "insert" /\ index' = index /\ slot' = Hash(k, capacity)
      BY <1>3 DEF Insert
    <2>3. QED
      BY <2>1, <2>2
  <1>4. CASE GrowBucket
    <2>1. ASSUME occupied[index]
          PROVE  Hash(entries[index], NewCapacity) \in Nat
                 /\ Hash(entries[index], NewCapacity) < NewCapacity
      <3>1. entries[index] \in Keys /\ NewCapacity \in Nat \ {0}
        BY <1>4 DEF GrowBucket, TableOK
      <3>2. QED
        BY <3>1, HashInRange DEF Table
    <2>2. QED
      BY <1>4, <2>1 DEF GrowBucket
  <1>5. CASE Rehash
    <2>1. NextSlot(slot, NewCapacity) \in Nat /\ NextSlot(slot, NewCapacity) < NewCapacity
      BY <1>5 DEF Rehash, NextSlot
    <2>2. QED
      BY <1>5, <2>1 DEF Rehash
  <1>6. CASE GrowEnds
    <2>1. NewCapacity \in Nat \ {0}
      BY <1>6 DEF GrowEnds, TableOK
    <2>2. Hash(key, NewCapacity) \in Nat /\ Hash(key, NewCapacity) < NewCapacity
      BY <2>1, HashInRange DEF Table
    <2>3. QED
      BY <1>6, <2>2 DEF GrowEnds
  <1>7. CASE ProbeInsert
    <2>1. NextSlot(slot, capacity) \in Nat /\ NextSlot(slot, capacity) < capacity
      BY <1>7 DEF ProbeInsert, NextSlot
    <2>2. /\ key' = key /\ capacity' = capacity /\ index' = index /\ asked' = asked
          /\ size' = size \/ size' = size + 1
          /\ \/ pc' = pc /\ slot' = NextSlot(slot, capacity)
             \/ pc' = "idle" /\ slot' = slot
      BY <1>7, Zenon DEF ProbeInsert
    <2>3. QED
      BY <1>7, <2>1, <2>2 DEF ProbeInsert
  <1>8. ASSUME NEW k \in Keys, Contains(k) PROVE ScalarsOK' /\ PositionsOK'
    <2>1. Hash(k, capacity) \in Nat /\ Hash(k, capacity) < capacity
      BY <1>8, HashInRange DEF Contains, Table, TableOK
    <2>2. QED
      BY <1>8, <2>1 DEF Contains
  <1>9. CASE ProbeContains
    <2>1. NextSlot(slot, capacity) \in Nat /\ NextSlot(slot, capacity) < capacity
      BY <1>9 DEF ProbeContains, NextSlot
    <2>2. QED
      BY <1>9, <2>1 DEF ProbeContains
  <1>10. CASE Clear
    BY <1>10 DEF Clear
  <1>11. CASE Destroy
    BY <1>11 DEF Destroy
  <1>12. CASE UNCHANGED vars
    BY <1>12 DEF vars
  <1>13. QED
    BY <1>1, <1>2, <1>3, <1>4, <1>5, <1>6, <1>7, <1>8, <1>9, <1>10, <1>11, <1>12
    DEF Next, Step, Gone

(* of the table, *)
LEMMA TableNext ==
  ASSUME TypeOK, [Next]_vars
  PROVE  TableOK'
  <1> USE DEF TypeOK, ScalarsOK, TableOK, table, fresh, Buckets, NewCapacity
  <1>1. CASE RoundUp
    BY <1>1 DEF RoundUp
  <1>2. CASE Create
    <2>1. Requested > 0
      BY SetAssumption DEF Requested
    <2>2. capacity' = capacity /\ capacity > 0
      BY <1>2, <2>1, SetAssumption DEF Create, Requested
    <2>3. QED
      BY <1>2, <2>2, SetAssumption DEF Create
  <1>3. ASSUME NEW k \in Keys, Insert(k) PROVE TableOK'
    BY <1>3 DEF Insert
  <1>4. CASE GrowBucket
    BY <1>4 DEF GrowBucket
  <1>5. CASE Rehash
    BY <1>5 DEF Rehash
  <1>6. CASE GrowEnds
    BY <1>6 DEF GrowEnds, FreshOK
  <1>7. CASE ProbeInsert
    BY <1>7 DEF ProbeInsert
  <1>8. ASSUME NEW k \in Keys, Contains(k) PROVE TableOK'
    BY <1>8 DEF Contains
  <1>9. CASE ProbeContains
    BY <1>9 DEF ProbeContains
  <1>10. CASE Clear
    BY <1>10 DEF Clear
  <1>11. CASE Destroy
    BY <1>11 DEF Destroy
  <1>12. CASE UNCHANGED vars
    BY <1>12 DEF vars
  <1>13. QED
    BY <1>1, <1>2, <1>3, <1>4, <1>5, <1>6, <1>7, <1>8, <1>9, <1>10, <1>11, <1>12
    DEF Next, Step, Gone

(* of the table that a grow fills, *)
LEMMA FreshNext ==
  ASSUME TypeOK, [Next]_vars
  PROVE  FreshOK'
  <1> USE DEF TypeOK, ScalarsOK, FreshOK, table, fresh, NewCapacity
  <1>1. CASE RoundUp \/ Create \/ GrowEnds \/ ProbeInsert \/ ProbeContains \/ Clear \/ Destroy
    BY <1>1 DEF RoundUp, Create, GrowEnds, ProbeInsert, ProbeContains, Clear, Destroy
  <1>2. ASSUME NEW k \in Keys, Insert(k) \/ Contains(k) PROVE FreshOK'
    BY <1>2, SetAssumption DEF Insert, Contains
  <1>3. CASE GrowBucket
    BY <1>3 DEF GrowBucket
  <1>4. CASE Rehash
    <2>1. entries[index] \in Keys
      BY <1>4 DEF Rehash, TableOK, PositionsOK, Buckets
    <2>2. QED
      BY <1>4, <2>1 DEF Rehash
  <1>5. CASE UNCHANGED vars
    BY <1>5 DEF vars
  <1>6. QED
    BY <1>1, <1>2, <1>3, <1>4, <1>5 DEF Next, Step, Gone

(* and of the answers: *)
LEMMA AnswersNext ==
  ASSUME TypeOK, [Next]_vars
  PROVE  ret' \in Answers
  <1> USE DEF TypeOK
  <1>1. CASE ret' = ret
    BY <1>1
  <1>2. ASSUME NEW c \in {"insert", "contains", "clear"}, NEW ok \in BOOLEAN,
               NEW answer \in BOOLEAN, Returns(c, ok, answer)
        PROVE  ret' \in Answers
    BY <1>2 DEF Returns, Answers
  <1>3. CASE ProbeInsert
    BY <1>1, <1>2, <1>3 DEF ProbeInsert
  <1>4. CASE ProbeContains
    <2>1. occupied[slot] \in BOOLEAN
      BY <1>4 DEF ProbeContains, TableOK, PositionsOK, ScalarsOK, Buckets
    <2>2. ret' = ret \/ Returns("contains", TRUE, occupied[slot])
      BY <1>4 DEF ProbeContains
    <2>3. QED
      BY <1>1, <1>2, <2>1, <2>2
  <1>5. ASSUME NEW k \in Keys, Insert(k) PROVE ret' \in Answers
    <2>1. ret' = ret \/ Returns("insert", FALSE, FALSE)
      BY <1>5 DEF Insert, fresh
    <2>2. QED
      BY <1>1, <1>2, <2>1
  <1>6. CASE Clear
    BY <1>2, <1>6 DEF Clear
  <1>7. QED
    BY <1>1, <1>3, <1>4, <1>5, <1>6
    DEF Next, Step, RoundUp, Create, GrowBucket, Rehash, GrowEnds, Contains, Destroy, Gone, vars

(* all the types. *)
LEMMA TypeNext ==
  ASSUME TypeOK, [Next]_vars
  PROVE  TypeOK'
  BY ScalarsNext, TableNext, FreshNext, AnswersNext DEF TypeOK

-----------------------------------------------------------------------------
(* The inductive invariant. *)

(* Every entry is found by the probe for its key, and no key has two. *)
Probed == Created => Reaches(capacity, occupied, entries) /\ Distinct(capacity, occupied, entries)

(* What a running probe has passed is taken, and by other keys. *)
Probing == pc \in {"insert", "contains"} =>
  \A j \in Table(capacity) :
    Passes(Hash(key, capacity), j, slot) => occupied[j] /\ entries[j] # key

(* An insert that probes has room for its element. *)
Loads ==
  /\ pc = "rounding" => size = 0
  /\ Created => size * 4 <= capacity * 3
  /\ pc = "insert" => (size + 1) * 4 <= capacity * 3

(* size counts the taken buckets. *)
Counts == Created => size = Cardinality(Filled(capacity, occupied))

(* The old buckets a grow has dealt with. *)
Moved == {b \in Table(capacity) : occupied[b] /\ b < index}

(* The new buckets hold the keys of the moved ones, each once. *)
Growing == pc \in {"grow", "rehash"} =>
  /\ Reaches(NewCapacity, new_occupied, new_entries)
  /\ Distinct(NewCapacity, new_occupied, new_entries)
  /\ \A i \in Filled(NewCapacity, new_occupied) : \E b \in Moved : entries[b] = new_entries[i]
  /\ \A b \in Moved : \E i \in Filled(NewCapacity, new_occupied) : new_entries[i] = entries[b]
  /\ Cardinality(Filled(NewCapacity, new_occupied)) = Cardinality(Moved)

(* The probe of a grow is for the key of a taken bucket. *)
Rehashing == pc = "rehash" =>
  occupied[index] /\ Passed(NewCapacity, new_occupied, entries[index], slot)

(* All of these together are inductive. *)
Inv == TypeOK /\ Probed /\ Probing /\ Loads /\ Counts /\ Growing /\ Rehashing

(* A creation that succeeds makes an empty table. *)
LEMMA CreateEmpty ==
  ASSUME TypeOK, Create, pc' = "idle"
  PROVE  /\ capacity' = capacity /\ capacity \in Nat \ {0}
         /\ \A i \in Table(capacity) : ~ occupied'[i]
  <1>1. Requested > 0 /\ Requested \in Int
    BY SetAssumption DEF Requested, TypeOK, ScalarsOK
  <1>2. capacity' = capacity /\ capacity \in Nat \ {0}
    BY <1>1 DEF Create, TypeOK, ScalarsOK
  <1>3. QED
    BY <1>2 DEF Create, Table, Buckets

(* The types of the table, as the lemmas on tables want them. *)
LEMMA TableTypes ==
  ASSUME TypeOK, Created
  PROVE  /\ capacity \in Nat \ {0} /\ NewCapacity \in Nat \ {0}
         /\ occupied \in [Table(capacity) -> BOOLEAN]
         /\ entries \in [Table(capacity) -> Keys]
         /\ pc \in {"insert", "contains"} => slot \in Table(capacity)
         /\ pc \in {"grow", "rehash"} =>
              /\ new_occupied \in [Table(NewCapacity) -> BOOLEAN]
              /\ new_entries \in [Table(NewCapacity) -> Keys]
         /\ pc = "rehash" => slot \in Table(NewCapacity) /\ index \in Table(capacity)
  <1> USE DEF TypeOK, ScalarsOK, TableOK, Created, Table, Buckets, NewCapacity
  <1>1. capacity \in Nat \ {0} /\ NewCapacity \in Nat \ {0}
    OBVIOUS
  <1>2. /\ occupied \in [Table(capacity) -> BOOLEAN]
        /\ entries \in [Table(capacity) -> Keys]
    OBVIOUS
  <1>3. pc \in {"grow", "rehash"} =>
          /\ new_occupied \in [Table(NewCapacity) -> BOOLEAN]
          /\ new_entries \in [Table(NewCapacity) -> Keys]
    BY DEF FreshOK
  <1>4. /\ pc \in {"insert", "contains"} => slot \in Table(capacity)
        /\ pc = "rehash" => slot \in Table(NewCapacity) /\ index \in Table(capacity)
    BY DEF PositionsOK
  <1>5. QED
    BY <1>1, <1>2, <1>3, <1>4

(* The probe that found an empty bucket has not met its key anywhere. *)
LEMMA ProbeMisses ==
  ASSUME Inv, pc \in {"insert", "contains"}, ~ occupied[slot]
  PROVE  \A i \in Filled(capacity, occupied) : entries[i] # key
  <1> SUFFICES ASSUME NEW i \in Filled(capacity, occupied) PROVE entries[i] # key
    OBVIOUS
  <1>1. Created /\ key \in Keys
    BY DEF Created, Inv, TypeOK, ScalarsOK
  <1>2. QED
    BY <1>1, TableTypes, NotFound DEF Inv, Probed, Probing, Filled

(* Every step but these leaves the table, and whether there is one, alone. *)
Fills == Create \/ GrowEnds \/ ProbeInsert \/ Clear

(* The others keep the table. *)
LEMMA TableStays ==
  ASSUME TypeOK, [Next]_vars, ~ Fills
  PROVE  /\ Created' <=> Created
         /\ Created => UNCHANGED table
  <1> USE DEF Created, table, fresh
  <1>1. CASE RoundUp \/ GrowBucket \/ Rehash \/ ProbeContains \/ Destroy
    BY <1>1 DEF RoundUp, GrowBucket, Rehash, ProbeContains, Destroy
  <1>2. ASSUME NEW k \in Keys, Insert(k) \/ Contains(k)
        PROVE  (Created' <=> Created) /\ UNCHANGED table
    BY <1>2 DEF Insert, Contains
  <1>3. CASE UNCHANGED vars
    BY <1>3 DEF vars
  <1>4. QED
    BY <1>1, <1>2, <1>3 DEF Next, Step, Gone, Fills

(* Every step keeps the entries within reach. *)
LEMMA ProbedNext ==
  ASSUME Inv, [Next]_vars
  PROVE  Probed'
  <1>1. CASE Create
    <2>1. CASE pc' = "idle"
      BY <1>1, <2>1, CreateEmpty DEF Inv, Probed, Reaches, Distinct
    <2>2. CASE pc' # "idle"
      BY <1>1, <2>2 DEF Create, Probed, Created
    <2>3. QED
      BY <2>1, <2>2
  <1>2. CASE GrowEnds
    BY <1>2 DEF GrowEnds, Inv, Growing, Probed
  <1>3. CASE ProbeInsert
    <2>1. Created /\ capacity' = capacity
      BY <1>3 DEF ProbeInsert, Created
    <2>2. CASE occupied[slot]
      BY <1>3, <2>1, <2>2 DEF ProbeInsert, Inv, Probed
    <2>3. CASE ~ occupied[slot]
      <3>1. /\ entries' = [entries EXCEPT ![slot] = key]
            /\ occupied' = [occupied EXCEPT ![slot] = TRUE]
        BY <1>3, <2>3 DEF ProbeInsert
      <3>2. key \in Keys /\ Passed(capacity, occupied, key, slot)
        BY <1>3 DEF ProbeInsert, Inv, Probing, Passed, TypeOK, ScalarsOK
      <3>3. Reaches(capacity, occupied', entries')
        BY <1>3, <2>1, <2>3, <3>1, <3>2, TableTypes, PutReaches DEF ProbeInsert, Inv, Probed
      <3>4. \A i \in Table(capacity) : occupied[i] => entries[i] # key
        BY <1>3, <2>3, ProbeMisses DEF ProbeInsert, Filled
      <3>5. Distinct(capacity, occupied', entries')
        BY <1>3, <2>1, <3>1, <3>2, <3>4, TableTypes, PutDistinct DEF ProbeInsert, Inv, Probed
      <3>6. QED
        BY <2>1, <3>3, <3>5 DEF Probed
    <2>4. QED
      BY <2>2, <2>3
  <1>4. CASE Clear
    BY <1>4 DEF Clear, Probed, Reaches, Distinct, Table, Buckets
  <1>5. CASE ~ Fills
    BY <1>5, TableStays DEF Inv, Probed, table
  <1>6. QED
    BY <1>1, <1>2, <1>3, <1>4, <1>5 DEF Fills

(* A probe passes only buckets that are taken by other keys. *)
LEMMA ProbingNext ==
  ASSUME Inv, [Next]_vars
  PROVE  Probing'
  <1> USE DEF Inv
  <1>1. ASSUME pc \in {"insert", "contains"}, occupied[slot], entries[slot] # key,
               slot' = NextSlot(slot, capacity), UNCHANGED <<capacity, entries, occupied, key>>
        PROVE  Probing'
    <2>1. /\ capacity \in Nat \ {0} /\ slot \in Table(capacity)
          /\ Hash(key, capacity) \in Table(capacity)
      BY <1>1, TableTypes, HashInRange DEF Created, TypeOK, ScalarsOK
    <2>2. ASSUME NEW j \in Table(capacity), Passes(Hash(key, capacity), j, slot')
          PROVE  occupied[j] /\ entries[j] # key
      BY <1>1, <2>1, <2>2, PassesNext DEF Probing
    <2>3. QED
      BY <1>1, <2>2 DEF Probing
  <1>2. ASSUME Created, Created', slot' = Hash(key', capacity'), key' \in Keys, TypeOK'
        PROVE  Probing'
    <2>1. capacity' \in Nat \ {0}
      BY <1>2 DEF TypeOK, TableOK, ScalarsOK, Created
    <2>2. QED
      BY <1>2, <2>1, HashInRange, PassesNothing DEF Probing
  <1>3. CASE pc' \notin {"insert", "contains"}
    BY <1>3 DEF Probing
  <1>4. CASE ProbeInsert
    BY <1>1, <1>3, <1>4 DEF ProbeInsert
  <1>5. CASE ProbeContains
    BY <1>1, <1>3, <1>5 DEF ProbeContains, table
  <1>6. CASE GrowEnds
    BY <1>2, <1>6, TypeNext DEF GrowEnds, Created, TypeOK, ScalarsOK, NewCapacity
  <1>7. ASSUME NEW k \in Keys, Insert(k) \/ Contains(k) PROVE Probing'
    <2>1. Created /\ key' = k /\ capacity' = capacity /\ TypeOK'
      BY <1>7, TypeNext DEF Insert, Contains, Created, table
    <2>2. CASE pc' \in {"insert", "contains"}
      <3>1. slot' = Hash(key', capacity')
        BY <1>7, <2>1, <2>2 DEF Insert, Contains
      <3>2. QED
        BY <1>2, <2>1, <2>2, <3>1 DEF Created
    <2>3. QED
      BY <1>3, <2>2
  <1>8. CASE RoundUp \/ Create \/ GrowBucket \/ Rehash \/ Clear \/ Destroy
    BY <1>3, <1>8 DEF RoundUp, Create, GrowBucket, Rehash, Clear, Destroy
  <1>9. CASE UNCHANGED vars
    BY <1>9 DEF vars, table, Probing
  <1>10. QED
    BY <1>4, <1>5, <1>6, <1>7, <1>8, <1>9 DEF Next, Step, Gone

(* An insert probes only where there is room. *)
LEMMA LoadsNext ==
  ASSUME Inv, [Next]_vars
  PROVE  Loads'
  <1> USE DEF Inv, TypeOK, ScalarsOK, Loads, Created, table, fresh
  <1>1. CASE RoundUp \/ Create
    BY <1>1 DEF RoundUp, Create
  <1>2. CASE GrowEnds
    BY <1>2 DEF GrowEnds, TableOK, NewCapacity
  <1>3. CASE ProbeInsert
    <2>1. /\ capacity' = capacity
          /\ \/ size' = size /\ pc' = pc
             \/ size' = size /\ pc' = "idle"
             \/ size' = size + 1 /\ pc' = "idle"
      BY <1>3, Zenon DEF ProbeInsert
    <2>2. QED
      BY <1>3, <2>1 DEF ProbeInsert
  <1>4. CASE Clear
    BY <1>4 DEF Clear
  <1>5. CASE GrowBucket \/ Rehash \/ ProbeContains \/ Destroy
    BY <1>5 DEF GrowBucket, Rehash, ProbeContains, Destroy
  <1>6. ASSUME NEW k \in Keys, Insert(k) \/ Contains(k) PROVE Loads'
    <2>1. /\ capacity' = capacity /\ size' = size
          /\ pc = "idle"
          /\ pc' \in {"idle", "grow", "contains"} \/ ~ ((size + 1) * 4 > capacity * 3)
      BY <1>6 DEF Insert, Contains
    <2>2. pc' # "rounding"
      BY <1>6 DEF Insert, Contains
    <2>3. QED
      BY <2>1, <2>2
  <1>7. CASE UNCHANGED vars
    BY <1>7 DEF vars
  <1>8. QED
    BY <1>1, <1>2, <1>3, <1>4, <1>5, <1>6, <1>7 DEF Next, Step, Gone

(* size goes up exactly when a bucket is taken. *)
LEMMA CountsNext ==
  ASSUME Inv, [Next]_vars
  PROVE  Counts'
  <1> USE DEF Inv
  <1>1. CASE Create
    <2>1. CASE pc' = "idle"
      BY <1>1, <2>1, CreateEmpty, NoneFilled DEF Counts, Loads, Create
    <2>2. CASE pc' # "idle"
      BY <1>1, <2>2 DEF Create, Counts, Created
    <2>3. QED
      BY <2>1, <2>2
  <1>2. CASE GrowEnds
    <2>1. Created
      BY <1>2 DEF GrowEnds, Created
    <2>2. Moved = Filled(capacity, occupied)
      BY <1>2, <2>1 DEF GrowEnds, Moved, Filled, Table, TypeOK, ScalarsOK
    <2>3. QED
      BY <1>2, <2>1, <2>2 DEF GrowEnds, Growing, Counts
  <1>3. CASE ProbeInsert
    <2>1. Created /\ capacity' = capacity
      BY <1>3 DEF ProbeInsert, Created
    <2>2. CASE occupied[slot]
      BY <1>3, <2>1, <2>2 DEF ProbeInsert, Counts
    <2>3. CASE ~ occupied[slot]
      <3>1. /\ capacity \in Nat \ {0} /\ slot \in Table(capacity)
            /\ occupied \in [Table(capacity) -> BOOLEAN]
        BY <1>3, <2>1, TableTypes DEF ProbeInsert
      <3>2. occupied' = [occupied EXCEPT ![slot] = TRUE] /\ size' = size + 1
        BY <1>3, <2>3 DEF ProbeInsert
      <3>3. Cardinality(Filled(capacity, occupied')) = Cardinality(Filled(capacity, occupied)) + 1
        BY <2>3, <3>1, <3>2, PutFills
      <3>4. QED
        BY <2>1, <3>2, <3>3 DEF Counts
    <2>4. QED
      BY <2>2, <2>3
  <1>4. CASE Clear
    <2>1. Created /\ capacity' = capacity /\ size' = 0 /\ \A i \in Table(capacity) : ~ occupied'[i]
      BY <1>4 DEF Clear, Created, Table, Buckets
    <2>2. QED
      BY <2>1, TableTypes, NoneFilled DEF Counts
  <1>5. CASE ~ Fills
    BY <1>5, TableStays DEF Counts, table
  <1>6. QED
    BY <1>1, <1>2, <1>3, <1>4, <1>5 DEF Fills

(* A bucket that is dealt with joins the moved ones if it is taken. *)
LEMMA MovedStep ==
  ASSUME TypeOK, Created, index \in Table(capacity), index' = index + 1, UNCHANGED table
  PROVE  /\ IsFiniteSet(Moved)
         /\ index \notin Moved
         /\ ~ occupied[index] => Moved' = Moved
         /\ occupied[index] => Moved' = Moved \cup {index}
                              /\ Cardinality(Moved') = Cardinality(Moved) + 1
  <1> USE DEF Moved, Table, table, TypeOK, ScalarsOK
  <1>1. IsFiniteSet(Moved)
    <2>1. Moved \in SUBSET Filled(capacity, occupied)
      BY DEF Filled
    <2>2. QED
      BY <2>1, FilledFinite, FS_Subset
  <1>2. index \notin Moved
    OBVIOUS
  <1>3. ~ occupied[index] => Moved' = Moved
    OBVIOUS
  <1>4. occupied[index] => Moved' = Moved \cup {index}
    OBVIOUS
  <1>5. QED
    BY <1>1, <1>2, <1>3, <1>4, FS_AddElement

(* A grow moves one entry after the other. *)
LEMMA GrowingNext ==
  ASSUME Inv, [Next]_vars
  PROVE  Growing'
  <1> USE DEF Inv
  <1>1. CASE pc' \notin {"grow", "rehash"}
    BY <1>1 DEF Growing
  <1>2. ASSUME NEW k \in Keys, Insert(k), pc' = "grow" PROVE Growing'
    <2>1. /\ Created /\ capacity' = capacity /\ index' = 0 /\ NewCapacity' = NewCapacity
          /\ \A i \in Table(NewCapacity) : ~ new_occupied'[i]
      BY <1>2 DEF Insert, table, Created, Table, NewCapacity
    <2>2. Filled(NewCapacity', new_occupied') = {}
      BY <2>1 DEF Filled
    <2>3. Moved' = {}
      BY <2>1, TableTypes DEF Moved, Table
    <2>4. /\ Reaches(NewCapacity', new_occupied', new_entries')
          /\ Distinct(NewCapacity', new_occupied', new_entries')
      BY <2>1 DEF Reaches, Distinct
    <2>5. QED
      BY <2>2, <2>3, <2>4 DEF Growing
  <1>3. CASE GrowBucket
    <2>1. Created /\ UNCHANGED <<table, new_entries, new_occupied, NewCapacity>>
      BY <1>3 DEF GrowBucket, Created, table, NewCapacity
    <2>2. Moved' = Moved
      <3>1. CASE occupied[index]
        BY <1>3, <2>1, <3>1 DEF GrowBucket, Moved, table
      <3>2. CASE ~ occupied[index]
        <4>1. index \in Table(capacity) /\ index' = index + 1
          BY <1>3, <3>2 DEF GrowBucket, Table, TypeOK, ScalarsOK
        <4>2. QED
          BY <2>1, <3>2, <4>1, MovedStep
      <3>3. QED
        BY <3>1, <3>2
    <2>3. QED
      BY <1>3, <2>1, <2>2 DEF GrowBucket, Growing, table
  <1>4. CASE Rehash
    <2>1. Created /\ UNCHANGED <<table, NewCapacity>> /\ pc = "rehash"
      BY <1>4 DEF Rehash, Created, table, NewCapacity
    <2>2. CASE new_occupied[slot]
      <3>1. UNCHANGED <<new_entries, new_occupied, index>>
        BY <1>4, <2>2 DEF Rehash
      <3>2. Moved' = Moved
        BY <2>1, <3>1 DEF Moved, table
      <3>3. QED
        BY <2>1, <3>1, <3>2 DEF Growing, table
    <2>3. CASE ~ new_occupied[slot]
      <3>1. /\ new_entries' = [new_entries EXCEPT ![slot] = entries[index]]
            /\ new_occupied' = [new_occupied EXCEPT ![slot] = TRUE]
            /\ index' = index + 1
        BY <1>4, <2>3 DEF Rehash
      <3>2. /\ NewCapacity \in Nat \ {0} /\ entries[index] \in Keys
            /\ slot \in Table(NewCapacity) /\ index \in Table(capacity)
            /\ new_occupied \in [Table(NewCapacity) -> BOOLEAN]
            /\ new_entries \in [Table(NewCapacity) -> Keys]
        BY <2>1, TableTypes
      <3>3. occupied[index] /\ Passed(NewCapacity, new_occupied, entries[index], slot)
        BY <2>1 DEF Rehashing
      <3>4. /\ Moved' = Moved \cup {index} /\ index \notin Moved
            /\ Cardinality(Moved') = Cardinality(Moved) + 1
        BY <2>1, <3>1, <3>2, <3>3, MovedStep
      <3>5. Reaches(NewCapacity, new_occupied', new_entries')
        BY <2>1, <2>3, <3>1, <3>2, <3>3, PutReaches DEF Growing
      <3>6. ASSUME NEW i \in Table(NewCapacity), new_occupied[i]
            PROVE  new_entries[i] # entries[index]
        <4>1. PICK b \in Moved : entries[b] = new_entries[i]
          BY <2>1, <3>6 DEF Growing, Filled
        <4>2. b # index /\ occupied[b] /\ b \in Table(capacity)
          BY <3>4 DEF Moved
        <4>3. QED
          BY <2>1, <3>2, <3>3, <4>1, <4>2 DEF Probed, Distinct
      <3>7. Distinct(NewCapacity, new_occupied', new_entries')
        BY <2>1, <3>1, <3>2, <3>6, PutDistinct DEF Growing
      <3>8. /\ Filled(NewCapacity, new_occupied') = Filled(NewCapacity, new_occupied) \cup {slot}
            /\ Cardinality(Filled(NewCapacity, new_occupied'))
                 = Cardinality(Filled(NewCapacity, new_occupied)) + 1
        <4>1. new_occupied' = [new_occupied EXCEPT ![slot] = TRUE]
          BY <3>1
        <4>2. Filled(NewCapacity, new_occupied') = Filled(NewCapacity, new_occupied) \cup {slot}
          BY <3>2, <4>1 DEF Filled
        <4>3. Cardinality(Filled(NewCapacity, new_occupied'))
                = Cardinality(Filled(NewCapacity, new_occupied)) + 1
          BY <2>3, <3>2, <4>1, PutFills
        <4>4. QED
          BY <4>2, <4>3
      <3>9. /\ new_entries'[slot] = entries[index]
            /\ \A i \in Filled(NewCapacity, new_occupied) : new_entries'[i] = new_entries[i]
        BY <2>3, <3>1, <3>2 DEF Filled
      <3>10. \A i \in Filled(NewCapacity, new_occupied') :
               \E b \in Moved' : entries[b] = new_entries'[i]
        BY <2>1, <3>4, <3>8, <3>9 DEF Growing
      <3>11. \A b \in Moved' :
               \E i \in Filled(NewCapacity, new_occupied') : new_entries'[i] = entries[b]
        BY <2>1, <3>4, <3>8, <3>9 DEF Growing
      <3>12. Cardinality(Filled(NewCapacity, new_occupied')) = Cardinality(Moved')
        BY <2>1, <3>4, <3>8 DEF Growing
      <3>13. QED
        BY <2>1, <3>5, <3>7, <3>10, <3>11, <3>12 DEF Growing, table
    <2>4. QED
      BY <2>2, <2>3
  <1>5. ASSUME NEW k \in Keys, Insert(k) PROVE Growing'
    BY <1>1, <1>2, <1>5 DEF Insert
  <1>6. CASE UNCHANGED vars
    BY <1>6 DEF vars, table, fresh, Growing, Moved, NewCapacity
  <1>7. ASSUME NEW k \in Keys, Contains(k) PROVE Growing'
    BY <1>1, <1>7 DEF Contains
  <1>8. CASE RoundUp \/ Create \/ GrowEnds \/ ProbeInsert \/ ProbeContains \/ Clear \/ Destroy
    BY <1>1, <1>8 DEF RoundUp, Create, GrowEnds, ProbeInsert, ProbeContains, Clear, Destroy
  <1>9. QED
    BY <1>3, <1>4, <1>5, <1>6, <1>7, <1>8 DEF Next, Step, Gone

(* Its probe passes only taken buckets. *)
LEMMA RehashingNext ==
  ASSUME Inv, [Next]_vars
  PROVE  Rehashing'
  <1> USE DEF Inv
  <1>1. CASE pc' # "rehash"
    BY <1>1 DEF Rehashing
  <1>2. CASE GrowBucket
    <2>1. CASE ~ occupied[index]
      BY <1>1, <1>2, <2>1 DEF GrowBucket
    <2>2. CASE occupied[index]
      <3>1. /\ Created /\ UNCHANGED <<entries, occupied, new_occupied, index, NewCapacity>>
            /\ slot' = Hash(entries[index], NewCapacity)
        BY <1>2, <2>2 DEF GrowBucket, Created, table, NewCapacity
      <3>2. NewCapacity \in Nat \ {0} /\ entries[index] \in Keys
        BY <1>2, <3>1, TableTypes DEF GrowBucket, Table, TypeOK, ScalarsOK
      <3>3. Hash(entries[index], NewCapacity) \in Table(NewCapacity)
        BY <3>2, HashInRange
      <3>4. Passed(NewCapacity, new_occupied, entries[index], slot')
        BY <3>1, <3>2, <3>3, PassesNothing DEF Passed
      <3>5. QED
        BY <2>2, <3>1, <3>4 DEF Rehashing
    <2>3. QED
      BY <2>1, <2>2
  <1>3. CASE Rehash
    <2>1. CASE ~ new_occupied[slot]
      BY <1>1, <1>3, <2>1 DEF Rehash
    <2>2. CASE new_occupied[slot]
      <3>1. /\ pc = "rehash" /\ Created
            /\ UNCHANGED <<entries, occupied, new_occupied, index, NewCapacity>>
            /\ slot' = NextSlot(slot, NewCapacity)
        BY <1>3, <2>2 DEF Rehash, Created, table, NewCapacity
      <3>2. /\ NewCapacity \in Nat \ {0} /\ slot \in Table(NewCapacity)
            /\ entries[index] \in Keys
        BY <3>1, TableTypes
      <3>3. Hash(entries[index], NewCapacity) \in Table(NewCapacity)
        BY <3>2, HashInRange
      <3>4. Passed(NewCapacity, new_occupied, entries[index], slot')
        BY <2>2, <3>1, <3>2, <3>3, PassesNext DEF Passed, Rehashing
      <3>5. QED
        BY <3>1, <3>4 DEF Rehashing
    <2>3. QED
      BY <2>1, <2>2
  <1>4. ASSUME NEW k \in Keys, Insert(k) \/ Contains(k) PROVE Rehashing'
    BY <1>1, <1>4 DEF Insert, Contains
  <1>5. CASE UNCHANGED vars
    BY <1>5 DEF vars, table, fresh, Rehashing, NewCapacity
  <1>6. CASE RoundUp \/ Create \/ GrowEnds \/ ProbeInsert \/ ProbeContains \/ Clear \/ Destroy
    BY <1>1, <1>6 DEF RoundUp, Create, GrowEnds, ProbeInsert, ProbeContains, Clear, Destroy
  <1>7. QED
    BY <1>2, <1>3, <1>4, <1>5, <1>6 DEF Next, Step, Gone

(* Before the table exists there is nothing to find in it. *)
LEMMA InvInit == Init => Inv
  <1> SUFFICES ASSUME Init PROVE Inv
    OBVIOUS
  <1>1. TypeOK
    BY TypeInit
  <1>2. pc = "rounding" /\ size = 0
    BY DEF Init
  <1>3. QED
    BY <1>1, <1>2
    DEF Inv, Probed, Probing, Loads, Counts, Growing, Rehashing, Created

(* Every step keeps the invariant. *)
LEMMA InvNext == Inv /\ [Next]_vars => Inv'
  BY TypeNext, ProbedNext, ProbingNext, LoadsNext, CountsNext, GrowingNext, RehashingNext DEF Inv

(* It holds in every reachable state. *)
LEMMA InvAlways == Spec => []Inv
  BY InvInit, InvNext, PTL DEF Spec

(* The taken buckets, in the words of the specification. *)
LEMMA TakenFilled ==
  ASSUME TypeOK
  PROVE  Taken = IF Created THEN Filled(capacity, occupied) ELSE {}
  BY DEF Taken, Filled, Table, Buckets

(* Every entry is found by the probe for its key, and found once, in the   *)
(* old table and in the one a grow fills.                                  *)
THEOREM EntriesAreFound == Spec => []Reachable
  <1>1. Inv => Reachable
    BY TakenFilled DEF Inv, Reachable, Probed, Growing, Reaches, Distinct, Filled, Table, Buckets, Created
  <1>2. QED
    BY <1>1, InvAlways, PTL

(* size counts the taken buckets, and a quarter of the table is empty. *)
THEOREM LoadIsBounded == Spec => []LoadBound
  <1>1. Inv => LoadBound
    BY TakenFilled DEF Inv, LoadBound, Loads, Counts
  <1>2. QED
    BY <1>1, InvAlways, PTL

-----------------------------------------------------------------------------
(* The refinement: the table is a set of keys, and its steps are stutters  *)
(* of that set but for the ones at which a call returns.                   *)

(* What the table stands for. *)
Members == {entries[i] : i \in Taken}

(* The members are the entries of the taken buckets, once there are any. *)
LEMMA MembersFilled ==
  ASSUME TypeOK, Created
  PROVE  Members = {entries[i] : i \in Filled(capacity, occupied)}
  BY TakenFilled DEF Members

(* A set that is not there has no members. *)
LEMMA MembersNone ==
  ASSUME TypeOK, ~ Created
  PROVE  Members = {}
  BY TakenFilled DEF Members

(* A step that leaves the table alone leaves the set alone. *)
LEMMA MembersStay ==
  ASSUME TypeOK, TypeOK', Created' <=> Created, Created => UNCHANGED table
  PROVE  Members' = Members
  <1>1. CASE Created
    BY <1>1 DEF Members, Taken, Buckets, Created, table
  <1>2. CASE ~ Created
    BY <1>2 DEF Members, Taken, Created
  <1>3. QED
    BY <1>1, <1>2

(* A creation that succeeds, and one that fails, leave the set empty. *)
LEMMA CreateMembers ==
  ASSUME Inv, Create, TypeOK'
  PROVE  Members' = Members /\ ret' = ret
  <1>1. ~ Created /\ ret' = ret
    BY DEF Create, Created
  <1>2. Members = {}
    BY <1>1, MembersNone DEF Inv
  <1>3. Taken' = {}
    <2>1. CASE pc' = "idle"
      BY <2>1, CreateEmpty DEF Inv, Taken, Table, Buckets
    <2>2. CASE pc' # "idle"
      BY <2>2 DEF Create, Taken, Created
    <2>3. QED
      BY <2>1, <2>2
  <1>4. QED
    BY <1>1, <1>2, <1>3 DEF Members

(* The table that a grow puts in place has the members of the old one. *)
LEMMA GrowMembers ==
  ASSUME Inv, GrowEnds, TypeOK'
  PROVE  Members' = Members /\ ret' = ret
  <1>1. Created /\ Created' /\ ret' = ret /\ pc \in {"grow", "rehash"}
    BY DEF GrowEnds, Created
  <1>2. Moved = Filled(capacity, occupied)
    BY DEF GrowEnds, Moved, Filled, Table, Inv, TypeOK, ScalarsOK
  <1>3. Members = {entries[b] : b \in Moved}
    BY <1>1, <1>2, MembersFilled DEF Inv
  <1>4. Taken' = Filled(NewCapacity, new_occupied)
    BY <1>1 DEF GrowEnds, Taken, Filled, Table, Buckets
  <1>5. Members' = {new_entries[i] : i \in Filled(NewCapacity, new_occupied)}
    BY <1>4 DEF GrowEnds, Members
  <1>6. {new_entries[i] : i \in Filled(NewCapacity, new_occupied)} = {entries[b] : b \in Moved}
    BY <1>1 DEF Inv, Growing
  <1>7. QED
    BY <1>1, <1>3, <1>5, <1>6

(* An insert that returns true has put its key in the set, and answers     *)
(* whether it was there.                                                   *)
LEMMA InsertMembers ==
  ASSUME Inv, ProbeInsert, TypeOK'
  PROVE  \/ Members' = Members /\ ret' = ret
         \/ /\ Members' = Members \cup {key}
            /\ ret' = [call |-> "insert", ok |-> TRUE, answer |-> key \in Members]
  <1>1. Created /\ Created' /\ capacity' = capacity
    BY DEF ProbeInsert, Created
  <1>2. /\ slot \in Table(capacity)
        /\ occupied \in [Table(capacity) -> BOOLEAN]
        /\ entries \in [Table(capacity) -> Keys]
    BY <1>1, TableTypes DEF Inv, ProbeInsert
  <1>3. Members = {entries[i] : i \in Filled(capacity, occupied)}
    BY <1>1, MembersFilled DEF Inv
  <1>4. Members' = {entries'[i] : i \in Filled(capacity, occupied')}
    <2>1. Taken' = Filled(capacity, occupied')
      BY <1>1 DEF Taken, Filled, Table, Buckets
    <2>2. QED
      BY <2>1 DEF Members
  <1>5. CASE occupied[slot] /\ entries[slot] = key
    <2>1. UNCHANGED <<entries, occupied>> /\ Returns("insert", TRUE, TRUE)
      BY <1>5 DEF ProbeInsert
    <2>2. Members' = Members
      BY <1>3, <1>4, <2>1
    <2>3. key \in Members
      BY <1>2, <1>3, <1>5 DEF Filled
    <2>4. QED
      BY <2>1, <2>2, <2>3 DEF Returns
  <1>6. CASE occupied[slot] /\ entries[slot] # key
    BY <1>3, <1>4, <1>6 DEF ProbeInsert
  <1>7. CASE ~ occupied[slot]
    <2>1. /\ entries' = [entries EXCEPT ![slot] = key]
          /\ occupied' = [occupied EXCEPT ![slot] = TRUE]
          /\ Returns("insert", TRUE, FALSE)
      BY <1>7 DEF ProbeInsert
    <2>2. key \notin Members
      BY <1>3, <1>7, ProbeMisses DEF ProbeInsert
    <2>3. Filled(capacity, occupied') = Filled(capacity, occupied) \cup {slot}
      BY <1>2, <2>1 DEF Filled
    <2>4. /\ entries'[slot] = key
          /\ \A i \in Filled(capacity, occupied) : entries'[i] = entries[i]
      BY <1>2, <1>7, <2>1 DEF Filled
    <2>5. Members' = Members \cup {key}
      BY <1>3, <1>4, <2>3, <2>4
    <2>6. (key \in Members) = FALSE
      BY <2>2
    <2>7. ret' = [call |-> "insert", ok |-> TRUE, answer |-> key \in Members]
      BY <2>1, <2>6 DEF Returns
    <2>8. QED
      BY <2>5, <2>7
  <1>8. QED
    BY <1>5, <1>6, <1>7

(* A lookup answers whether its key is in the set. *)
LEMMA ContainsMembers ==
  ASSUME Inv, ProbeContains, TypeOK'
  PROVE  /\ Members' = Members
         /\ \/ ret' = ret
            \/ ret' = [call |-> "contains", ok |-> TRUE, answer |-> key \in Members]
  <1>1. Created /\ Created' /\ UNCHANGED table
    BY DEF ProbeContains, Created
  <1>2. Members' = Members
    BY <1>1, MembersStay DEF Inv
  <1>3. Members = {entries[i] : i \in Filled(capacity, occupied)}
    BY <1>1, MembersFilled DEF Inv
  <1>4. CASE occupied[slot] /\ entries[slot] # key
    BY <1>2, <1>4 DEF ProbeContains
  <1>5. CASE occupied[slot] => entries[slot] = key
    <2>1. slot \in Table(capacity) /\ occupied \in [Table(capacity) -> BOOLEAN]
      BY <1>1, TableTypes DEF Inv, ProbeContains
    <2>2. occupied[slot] = (key \in Members)
      <3>1. CASE occupied[slot]
        BY <1>3, <1>5, <2>1, <3>1 DEF Filled
      <3>2. CASE ~ occupied[slot]
        BY <1>3, <2>1, <3>2, ProbeMisses DEF ProbeContains
      <3>3. QED
        BY <3>1, <3>2
    <2>3. CASE ret' = ret
      BY <1>2, <2>3
    <2>4. CASE Returns("contains", TRUE, occupied[slot])
      BY <1>2, <2>2, <2>4 DEF Returns
    <2>5. QED
      BY <2>3, <2>4 DEF ProbeContains
  <1>6. QED
    BY <1>4, <1>5

(* Every step is a step of the set, or leaves it and the last answer alone. *)
LEMMA SetStep ==
  ASSUME Inv, [Next]_vars
  PROVE  [Abstract!Next]_<<Members, ret>>
  <1>1. TypeOK'
    BY TypeNext DEF Inv
  <1>2. CASE ~ Fills /\ ret' = ret
    BY <1>1, <1>2, TableStays, MembersStay DEF Inv
  <1>3. CASE Create
    BY <1>1, <1>3, CreateMembers
  <1>4. CASE GrowEnds
    BY <1>1, <1>4, GrowMembers
  <1>5. CASE ProbeInsert
    <2>1. key \in Keys
      BY DEF Inv, TypeOK, ScalarsOK
    <2>2. QED
      BY <1>1, <1>5, <2>1, InsertMembers DEF Abstract!Next, Abstract!Insert, Members
  <1>6. CASE ProbeContains
    <2>1. key \in Keys
      BY DEF Inv, TypeOK, ScalarsOK
    <2>2. QED
      BY <1>1, <1>6, <2>1, ContainsMembers DEF Abstract!Next, Abstract!Contains, Members
  <1>7. ASSUME NEW k \in Keys, Insert(k), ret' # ret
        PROVE  Abstract!Next
    <2>1. Created /\ Created' /\ UNCHANGED table /\ Returns("insert", FALSE, FALSE)
      BY <1>7 DEF Insert, Created
    <2>2. Members' = Members
      BY <1>1, <2>1, MembersStay DEF Inv
    <2>3. QED
      BY <2>1, <2>2 DEF Abstract!Next, Abstract!Insert, Members, Returns
  <1>8. CASE Clear
    <2>1. Taken' = {} /\ Returns("clear", TRUE, FALSE)
      BY <1>8 DEF Clear, Taken, Buckets
    <2>2. Members' = {}
      BY <2>1 DEF Members
    <2>3. QED
      BY <2>1, <2>2 DEF Abstract!Next, Abstract!Clear, Members, Returns
  <1>9. CASE RoundUp \/ GrowBucket \/ Rehash \/ Destroy \/ UNCHANGED vars
    <2>1. ret' = ret
      BY <1>9 DEF RoundUp, GrowBucket, Rehash, Destroy, vars
    <2>2. QED
      BY <1>2, <1>3, <1>4, <1>5, <1>8, <2>1 DEF Fills
  <1>10. ASSUME NEW k \in Keys, Contains(k)
         PROVE  [Abstract!Next]_<<Members, ret>>
    <2>1. ret' = ret
      BY <1>10 DEF Contains
    <2>2. QED
      BY <1>2, <1>3, <1>4, <1>5, <1>8, <2>1 DEF Fills
  <1>11. ASSUME NEW k \in Keys, Insert(k)
         PROVE  [Abstract!Next]_<<Members, ret>>
    BY <1>2, <1>3, <1>4, <1>5, <1>7, <1>8, <1>11 DEF Fills
  <1>12. QED
    BY <1>3, <1>4, <1>5, <1>6, <1>8, <1>9, <1>10, <1>11 DEF Next, Step, Gone

(* The table answers every call as the mathematical set would. *)
THEOREM TableImplementsSet == Spec => ImplementsSet
  <1>1. Init => Abstract!Init
    BY DEF Init, Abstract!Init, Taken, Created
  <1>2. Inv /\ [Next]_vars => [Abstract!Next]_<<{entries[i] : i \in Taken}, ret>>
    BY SetStep DEF Members
  <1>3. QED
    BY <1>1, <1>2, InvAlways, PTL DEF Spec, ImplementsSet, Abstract!Spec
=============================================================================
