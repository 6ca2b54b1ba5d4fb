--------------------------- MODULE UtilityProofs ---------------------------
(***************************************************************************)
(* Theorems about the two components that no other component uses: Perm,   *)
(* for every mode, every text that somebody types and every set of         *)
(* accounts; and Random, for every set of threads, every length and every  *)
(* supply of descriptors.                                                  *)
(***************************************************************************)
EXTENDS Perm, Random, SequenceTheorems, TLAPS

-----------------------------------------------------------------------------
(* Permissions. *)

(* The weight of a bit in a mode. *)
Weight(m, b) == IF Bit(m, b) THEN b ELSE 0

(* A mode without its type. *)
Sum(m) ==
  (Weight(m, 256) + Weight(m, 128) + Weight(m, 64) + Weight(m, 2048))
  + (Weight(m, 32) + Weight(m, 16) + Weight(m, 8) + Weight(m, 1024))
  + (Weight(m, 4) + Weight(m, 2) + Weight(m, 1) + Weight(m, 512))

(* Division by two, once more. *)
LEMMA Halves ==
  ASSUME NEW m \in Nat
  PROVE  /\ m \div 1 = m
         /\ m \div 2 = (m \div 1) \div 2 /\ m \div 4 = (m \div 2) \div 2
         /\ m \div 8 = (m \div 4) \div 2 /\ m \div 16 = (m \div 8) \div 2
         /\ m \div 32 = (m \div 16) \div 2 /\ m \div 64 = (m \div 32) \div 2
         /\ m \div 128 = (m \div 64) \div 2 /\ m \div 256 = (m \div 128) \div 2
         /\ m \div 512 = (m \div 256) \div 2 /\ m \div 1024 = (m \div 512) \div 2
         /\ m \div 2048 = (m \div 1024) \div 2 /\ m \div 4096 = (m \div 2048) \div 2
  OBVIOUS

(* The bits of a mode add up to its permissions. *)
LEMMA BitsAddUp == ASSUME NEW m \in Nat PROVE Sum(m) = m % 4096
  <1>1. /\ Weight(m, 1) = 1 * ((m \div 1) - 2 * (m \div 2))
        /\ Weight(m, 2) = 2 * ((m \div 2) - 2 * (m \div 4))
        /\ Weight(m, 4) = 4 * ((m \div 4) - 2 * (m \div 8))
        /\ Weight(m, 8) = 8 * ((m \div 8) - 2 * (m \div 16))
        /\ Weight(m, 16) = 16 * ((m \div 16) - 2 * (m \div 32))
        /\ Weight(m, 32) = 32 * ((m \div 32) - 2 * (m \div 64))
        /\ Weight(m, 64) = 64 * ((m \div 64) - 2 * (m \div 128))
        /\ Weight(m, 128) = 128 * ((m \div 128) - 2 * (m \div 256))
        /\ Weight(m, 256) = 256 * ((m \div 256) - 2 * (m \div 512))
        /\ Weight(m, 512) = 512 * ((m \div 512) - 2 * (m \div 1024))
        /\ Weight(m, 1024) = 1024 * ((m \div 1024) - 2 * (m \div 2048))
        /\ Weight(m, 2048) = 2048 * ((m \div 2048) - 2 * (m \div 4096))
    BY DEF Weight, Bit
  <1>2. Sum(m) = m - 4096 * (m \div 4096)
    BY <1>1, Halves DEF Sum
  <1>3. QED
    BY <1>2

-----------------------------------------------------------------------------
(* The characters that are written. *)
Letters == {"r", "w", "x", "s", "S", "t", "T"} \cup TypeChars

(* A triple is three characters. *)
LEMMA TripleChars ==
  ASSUME NEW m, NEW x, NEW special, NEW with_exec \in Letters, NEW no_exec \in Letters
  PROVE  /\ Triple(m, x, special, with_exec, no_exec) \in Seq(Letters)
         /\ Len(Triple(m, x, special, with_exec, no_exec)) = 3
  <1>1. \A a, b, c \in Letters : <<a, b, c>> \in Seq(Letters) /\ Len(<<a, b, c>>) = 3
    OBVIOUS
  <1>2. {"r", "w", "x", "-"} \subseteq Letters
    BY DEF Letters, TypeChars
  <1>3. QED
    BY <1>1, <1>2 DEF Triple

(* The character of the type is one that the parser knows. *)
LEMMA TypeCharIsKnown == ASSUME NEW m PROVE FileTypeChar(m) \in TypeChars
  BY DEF FileTypeChar, TypeChars

(* Two texts behind one another. *)
LEMMA ConcatTwo ==
  ASSUME NEW front \in Seq(Letters), NEW back \in Seq(Letters), Len(back) = 3
  PROVE  /\ front \o back \in Seq(Letters) /\ Len(front \o back) = Len(front) + 3
         /\ \A i \in 1 .. Len(front) : (front \o back)[i] = front[i]
         /\ (front \o back)[Len(front) + 1] = back[1] /\ (front \o back)[Len(front) + 2] = back[2]
         /\ (front \o back)[Len(front) + 3] = back[3]
  <1>1. Len(front) \in Nat
    OBVIOUS
  <1>2. /\ front \o back \in Seq(Letters) /\ Len(front \o back) = Len(front) + Len(back)
        /\ \A i \in 1 .. Len(front) + Len(back) :
             (front \o back)[i] = IF i <= Len(front) THEN front[i] ELSE back[i - Len(front)]
    BY ConcatProperties
  <1>3. \A i \in 1 .. Len(front) : (front \o back)[i] = front[i]
    BY <1>1, <1>2
  <1>4. ASSUME NEW k \in 1 .. 3 PROVE (front \o back)[Len(front) + k] = back[k]
    <2>1. /\ Len(front) + k \in 1 .. Len(front) + Len(back) /\ ~ (Len(front) + k <= Len(front))
          /\ (Len(front) + k) - Len(front) = k
      BY <1>1
    <2>2. QED
      BY <1>2, <2>1
  <1>5. QED
    BY <1>2, <1>3, <1>4

(* The text of a mode, character by character. *)
LEMMA FormatChars ==
  ASSUME NEW m, NEW f, f = FormatModeHuman(m)
  PROVE  /\ f \in Seq(Letters) /\ Len(f) = 10 /\ f[1] = FileTypeChar(m)
         /\ LET u == Triple(m, 64, 2048, "s", "S") IN f[2] = u[1] /\ f[3] = u[2] /\ f[4] = u[3]
         /\ LET g == Triple(m, 8, 1024, "s", "S") IN f[5] = g[1] /\ f[6] = g[2] /\ f[7] = g[3]
         /\ LET o == Triple(m, 1, 512, "t", "T") IN f[8] = o[1] /\ f[9] = o[2] /\ f[10] = o[3]
  <1>1. {"s", "S", "t", "T"} \subseteq Letters /\ FileTypeChar(m) \in Letters
    BY TypeCharIsKnown DEF Letters
  <1>2. PICK c \in Seq(Letters) : c = <<FileTypeChar(m)>> /\ Len(c) = 1 /\ c[1] = FileTypeChar(m)
    <2>1. \A l \in Letters : <<l>> \in Seq(Letters) /\ Len(<<l>>) = 1 /\ <<l>>[1] = l
      OBVIOUS
    <2>2. QED
      BY <1>1, <2>1
  <1>3. PICK u \in Seq(Letters) : u = Triple(m, 64, 2048, "s", "S") /\ Len(u) = 3
    BY <1>1, TripleChars
  <1>4. PICK g \in Seq(Letters) : g = Triple(m, 8, 1024, "s", "S") /\ Len(g) = 3
    BY <1>1, TripleChars
  <1>5. PICK o \in Seq(Letters) : o = Triple(m, 1, 512, "t", "T") /\ Len(o) = 3
    BY <1>1, TripleChars
  <1>6. PICK a \in Seq(Letters) : a = c \o u
    BY ConcatProperties
  <1>7. /\ a \in Seq(Letters) /\ Len(a) = 1 + 3 /\ \A i \in 1 .. 1 : a[i] = c[i]
        /\ a[1 + 1] = u[1] /\ a[1 + 2] = u[2] /\ a[1 + 3] = u[3]
    BY <1>2, <1>3, <1>6, ConcatTwo
  <1>8. PICK b \in Seq(Letters) : b = a \o g
    BY ConcatProperties
  <1>9. /\ b \in Seq(Letters) /\ Len(b) = 4 + 3 /\ \A i \in 1 .. 4 : b[i] = a[i]
        /\ b[4 + 1] = g[1] /\ b[4 + 2] = g[2] /\ b[4 + 3] = g[3]
    <2>1. a \in Seq(Letters) /\ Len(a) = 4
      BY <1>7
    <2>2. /\ b \in Seq(Letters) /\ Len(b) = Len(a) + 3
          /\ \A i \in 1 .. Len(a) : b[i] = a[i]
          /\ b[Len(a) + 1] = g[1] /\ b[Len(a) + 2] = g[2]
          /\ b[Len(a) + 3] = g[3]
      <3>1. Len(g) = 3
        BY <1>4
      <3>2. QED
        BY <1>8, <3>1, ConcatTwo, SMTT(40)
    <2>3. QED
      BY <2>1, <2>2
  <1>10. /\ f \in Seq(Letters) /\ Len(f) = 7 + 3 /\ \A i \in 1 .. 7 : f[i] = b[i]
        /\ f[7 + 1] = o[1] /\ f[7 + 2] = o[2] /\ f[7 + 3] = o[3]
    <2>1. f = b \o o
      BY <1>2, <1>3, <1>4, <1>5, <1>6, <1>8 DEF FormatModeHuman
    <2>2. b \in Seq(Letters) /\ Len(b) = 7
      BY <1>9
    <2>3. PICK d : d = b \o o
      OBVIOUS
    <2>4. /\ d \in Seq(Letters) /\ Len(d) = Len(b) + 3 /\ \A i \in 1 .. Len(b) : d[i] = b[i]
          /\ d[Len(b) + 1] = o[1] /\ d[Len(b) + 2] = o[2] /\ d[Len(b) + 3] = o[3]
      <3>1. Len(o) = 3
        BY <1>5
      <3>2. QED
        BY <2>3, <3>1, ConcatTwo
    <2>5. QED
      BY <2>1, <2>2, <2>3, <2>4
  <1>11. /\ f[1] = b[1] /\ f[2] = b[2] /\ f[3] = b[3] /\ f[4] = b[4]
         /\ f[5] = b[5] /\ f[6] = b[6] /\ f[7] = b[7]
         /\ b[1] = a[1] /\ b[2] = a[2] /\ b[3] = a[3] /\ b[4] = a[4] /\ a[1] = c[1]
    BY <1>7, <1>9, <1>10
  <1>12. QED
    BY <1>2, <1>3, <1>4, <1>5, <1>7, <1>9, <1>10, <1>11

(* Three characters out of a text. *)
LEMMA ThreeOf ==
  ASSUME NEW S, NEW t \in Seq(S), NEW k \in Nat \ {0}, k + 2 <= Len(t)
  PROVE  /\ SubSeq(t, k, k + 2)[1] = t[k] /\ SubSeq(t, k, k + 2)[2] = t[k + 1]
         /\ SubSeq(t, k, k + 2)[3] = t[k + 2]
  <1>1. Len(t) \in Nat
    OBVIOUS
  <1>2. SubSeq(t, k, k + 2) = [i \in 1 .. 3 |-> t[i + k - 1]]
    BY <1>1
  <1>3. QED
    BY <1>2

(* The triple of three characters of a text. *)
LEMMA ParseOfChars ==
  ASSUME NEW S, NEW t \in Seq(S), NEW k \in Nat \ {0}, k + 2 <= Len(t),
         NEW x \in Nat, NEW special \in Nat, NEW with_exec, NEW no_exec
  PROVE  ParseRwxTriple(SubSeq(t, k, k + 2), x, special, with_exec, no_exec) =
           IF t[k] \notin {"r", "-"} \/ t[k + 1] \notin {"w", "-"}
              \/ t[k + 2] \notin {"x", "-", with_exec, no_exec}
             THEN Invalid
           ELSE (IF t[k] = "r" THEN 4 * x ELSE 0) + (IF t[k + 1] = "w" THEN 2 * x ELSE 0)
                + (IF t[k + 2] \in {"x", with_exec} THEN x ELSE 0)
                + (IF t[k + 2] \in {with_exec, no_exec} THEN special ELSE 0)
  BY ThreeOf DEF ParseRwxTriple

-----------------------------------------------------------------------------
(* A triple of the text is written as the mode has it. *)
Shows(t, k, m, x, special, with_exec, no_exec) ==
  LET w == Triple(m, x, special, with_exec, no_exec) IN
  t[k] = w[1] /\ t[k + 1] = w[2] /\ t[k + 2] = w[3]

(* Then the parser finds the bits of the mode in it. *)
LEMMA ParseShown ==
  ASSUME NEW S, NEW t \in Seq(S), NEW k \in Nat \ {0}, k + 2 <= Len(t),
         NEW m \in Nat, NEW x \in Nat, NEW special \in Nat, NEW with_exec, NEW no_exec,
         Shows(t, k, m, x, special, with_exec, no_exec),
         with_exec \notin {"x", "-"}, no_exec \notin {"x", "-"}, with_exec # no_exec
  PROVE  ParseRwxTriple(SubSeq(t, k, k + 2), x, special, with_exec, no_exec) =
           Weight(m, 4 * x) + Weight(m, 2 * x) + Weight(m, x) + Weight(m, special)
  <1>1. /\ t[k] = (IF Bit(m, 4 * x) THEN "r" ELSE "-")
        /\ t[k + 1] = (IF Bit(m, 2 * x) THEN "w" ELSE "-")
        /\ t[k + 2] = IF Bit(m, special) THEN (IF Bit(m, x) THEN with_exec ELSE no_exec)
                      ELSE (IF Bit(m, x) THEN "x" ELSE "-")
    BY DEF Shows, Triple
  <1>2. /\ t[k] \in {"r", "-"} /\ t[k + 1] \in {"w", "-"}
        /\ t[k + 2] \in {"x", "-", with_exec, no_exec}
    BY <1>1
  <1>3. /\ t[k] = "r" <=> Bit(m, 4 * x)
        /\ t[k + 1] = "w" <=> Bit(m, 2 * x)
        /\ t[k + 2] \in {"x", with_exec} <=> Bit(m, x)
        /\ t[k + 2] \in {with_exec, no_exec} <=> Bit(m, special)
    BY <1>1
  <1>4. ParseRwxTriple(SubSeq(t, k, k + 2), x, special, with_exec, no_exec) =
          (IF t[k] = "r" THEN 4 * x ELSE 0) + (IF t[k + 1] = "w" THEN 2 * x ELSE 0)
          + (IF t[k + 2] \in {"x", with_exec} THEN x ELSE 0)
          + (IF t[k + 2] \in {with_exec, no_exec} THEN special ELSE 0)
    BY <1>2, ParseOfChars
  <1>5. QED
    BY <1>3, <1>4 DEF Weight

(* Behind the type, or from the start: where the permissions of a text are. *)
Base(t) == IF Len(t) = 10 THEN 1 ELSE 0

(* A text of the right length, and of a known type if it has one. *)
Formed(t) == Len(t) \in {9, 10} /\ (Len(t) = 10 => t[1] \in TypeChars)

(* The parser adds up what it finds in the three triples. *)
LEMMA ParseFormed ==
  ASSUME NEW t, Formed(t), NEW base, base = Base(t)
  PROVE  LET user == ParseRwxTriple(SubSeq(t, base + 1, base + 1 + 2), 64, 2048, "s", "S")
             group == ParseRwxTriple(SubSeq(t, base + 4, base + 4 + 2), 8, 1024, "s", "S")
             other == ParseRwxTriple(SubSeq(t, base + 7, base + 7 + 2), 1, 512, "t", "T")
         IN  ParseModeHuman(t) =
               IF Invalid \in {user, group, other} THEN Invalid ELSE user + group + other
  <1>1. ~ (Len(t) \notin {9, 10}) /\ ~ (Len(t) = 10 /\ t[1] \notin TypeChars)
    BY DEF Formed
  <1>2. QED
    BY <1>1 DEF ParseModeHuman, Base

(* The whole text shows the permissions of a mode. *)
ShowsAll(t, m) ==
  /\ Shows(t, Base(t) + 1, m, 64, 2048, "s", "S")
  /\ Shows(t, Base(t) + 4, m, 8, 1024, "s", "S")
  /\ Shows(t, Base(t) + 7, m, 1, 512, "t", "T")

(* What is shown is what is parsed. *)
LEMMA ParseShownAll ==
  ASSUME NEW S, NEW t \in Seq(S), Formed(t), NEW m \in Nat, ShowsAll(t, m)
  PROVE  ParseModeHuman(t) = m % 4096
  <1>1. PICK base \in 0 .. 1 : base = Base(t) /\ Len(t) = base + 9
    BY DEF Base, Formed
  <1>2. ParseRwxTriple(SubSeq(t, base + 1, base + 1 + 2), 64, 2048, "s", "S") =
          Weight(m, 256) + Weight(m, 128) + Weight(m, 64) + Weight(m, 2048)
    <2>1. PICK k \in Nat \ {0} : k = base + 1 /\ k + 2 <= Len(t)
      BY <1>1
    <2>2. Shows(t, k, m, 64, 2048, "s", "S")
      BY <1>1, <2>1 DEF ShowsAll
    <2>3. ParseRwxTriple(SubSeq(t, k, k + 2), 64, 2048, "s", "S") =
            Weight(m, 4 * 64) + Weight(m, 2 * 64) + Weight(m, 64) + Weight(m, 2048)
      BY <2>1, <2>2, ParseShown
    <2>4. QED
      BY <2>1, <2>3
  <1>3. ParseRwxTriple(SubSeq(t, base + 4, base + 4 + 2), 8, 1024, "s", "S") =
          Weight(m, 32) + Weight(m, 16) + Weight(m, 8) + Weight(m, 1024)
    <2>1. PICK k \in Nat \ {0} : k = base + 4 /\ k + 2 <= Len(t)
      BY <1>1
    <2>2. Shows(t, k, m, 8, 1024, "s", "S")
      BY <1>1, <2>1 DEF ShowsAll
    <2>3. ParseRwxTriple(SubSeq(t, k, k + 2), 8, 1024, "s", "S") =
            Weight(m, 4 * 8) + Weight(m, 2 * 8) + Weight(m, 8) + Weight(m, 1024)
      BY <2>1, <2>2, ParseShown
    <2>4. QED
      BY <2>1, <2>3
  <1>4. ParseRwxTriple(SubSeq(t, base + 7, base + 7 + 2), 1, 512, "t", "T") =
          Weight(m, 4) + Weight(m, 2) + Weight(m, 1) + Weight(m, 512)
    <2>1. PICK k \in Nat \ {0} : k = base + 7 /\ k + 2 <= Len(t)
      BY <1>1
    <2>2. Shows(t, k, m, 1, 512, "t", "T")
      BY <1>1, <2>1 DEF ShowsAll
    <2>3. ParseRwxTriple(SubSeq(t, k, k + 2), 1, 512, "t", "T") =
            Weight(m, 4 * 1) + Weight(m, 2 * 1) + Weight(m, 1) + Weight(m, 512)
      BY <2>1, <2>2, ParseShown
    <2>4. QED
      BY <2>1, <2>3
  <1>5. \A b \in Nat : Weight(m, b) \in Nat
    BY DEF Weight
  <1>6. PICK user \in Nat : user = Weight(m, 256) + Weight(m, 128) + Weight(m, 64) + Weight(m, 2048)
    BY <1>5
  <1>7. PICK group \in Nat : group = Weight(m, 32) + Weight(m, 16) + Weight(m, 8) + Weight(m, 1024)
    BY <1>5
  <1>8. PICK other \in Nat : other = Weight(m, 4) + Weight(m, 2) + Weight(m, 1) + Weight(m, 512)
    BY <1>5
  <1>9. Invalid \notin {user, group, other}
    BY DEF Invalid
  <1>10. ParseModeHuman(t) = user + group + other
    <2>1. /\ user = ParseRwxTriple(SubSeq(t, base + 1, base + 1 + 2), 64, 2048, "s", "S")
          /\ group = ParseRwxTriple(SubSeq(t, base + 4, base + 4 + 2), 8, 1024, "s", "S")
          /\ other = ParseRwxTriple(SubSeq(t, base + 7, base + 7 + 2), 1, 512, "t", "T")
      BY <1>2, <1>3, <1>4, <1>6, <1>7, <1>8
    <2>2. ParseModeHuman(t) =
            IF Invalid \in {user, group, other} THEN Invalid ELSE user + group + other
      BY <1>1, <1>2, <2>1, ParseFormed, SMTT(40)
    <2>3. QED
      BY <1>9, <2>2
  <1>11. Sum(m) = user + group + other
    BY <1>6, <1>7, <1>8 DEF Sum
  <1>12. QED
    BY <1>10, <1>11, BitsAddUp

(* A text without its first character. *)
LEMMA TailChars ==
  ASSUME NEW S, NEW f \in Seq(S), NEW t, t = Tail(f), Len(f) = 10
  PROVE  t \in Seq(S) /\ Len(t) = 9 /\ \A i \in 1 .. 9 : t[i] = f[i + 1]
  <1>1. Len(<<>>) = 0 /\ 10 # 0
    OBVIOUS
  <1>2. f # <<>>
    BY <1>1, Zenon
  <1>3. t \in Seq(S) /\ Len(t) = Len(f) - 1 /\ \A i \in 1 .. Len(t) : t[i] = f[i + 1]
    BY <1>2, HeadTailProperties, Zenon
  <1>4. Len(t) = 10 - 1
    BY <1>3, Zenon
  <1>5. Len(t) = 9
    BY <1>4
  <1>6. QED
    BY <1>3, <1>5, Zenon

(* The text of a mode shows its permissions. *)
LEMMA FormatShows ==
  ASSUME NEW m, NEW t, t = FormatModeHuman(m)
  PROVE  t \in Seq(Letters) /\ Len(t) = 10 /\ Formed(t) /\ ShowsAll(t, m)
  <1>1. /\ t \in Seq(Letters) /\ Len(t) = 10 /\ t[1] \in TypeChars
        /\ Shows(t, 2, m, 64, 2048, "s", "S") /\ Shows(t, 5, m, 8, 1024, "s", "S")
        /\ Shows(t, 8, m, 1, 512, "t", "T")
    BY FormatChars, TypeCharIsKnown DEF Shows
  <1>2. QED
    BY <1>1 DEF Formed, ShowsAll, Base

(* It does so without the type, too. *)
LEMMA ShiftShows ==
  ASSUME NEW f, NEW t, \A i \in 1 .. 9 : t[i] = f[i + 1], NEW m,
         Base(f) = 1, Base(t) = 0, ShowsAll(f, m)
  PROVE  ShowsAll(t, m)
  <1>1. /\ t[1] = f[2] /\ t[2] = f[3] /\ t[3] = f[4] /\ t[4] = f[5] /\ t[5] = f[6]
        /\ t[6] = f[7] /\ t[7] = f[8] /\ t[8] = f[9] /\ t[9] = f[10]
    OBVIOUS
  <1>2. /\ Shows(f, 2, m, 64, 2048, "s", "S") /\ Shows(f, 5, m, 8, 1024, "s", "S")
        /\ Shows(f, 8, m, 1, 512, "t", "T")
    BY DEF ShowsAll
  <1>3. /\ Shows(t, 1, m, 64, 2048, "s", "S") /\ Shows(t, 4, m, 8, 1024, "s", "S")
        /\ Shows(t, 7, m, 1, 512, "t", "T")
    BY <1>1, <1>2 DEF Shows
  <1>4. QED
    BY <1>3 DEF ShowsAll

(* The same for the rest of a text. *)
LEMMA TailShows ==
  ASSUME NEW S, NEW f \in Seq(S), Len(f) = 10, NEW t, t = Tail(f), NEW m, ShowsAll(f, m)
  PROVE  t \in Seq(S) /\ Formed(t) /\ ShowsAll(t, m)
  <1>1. t \in Seq(S) /\ Len(t) = 9 /\ \A i \in 1 .. 9 : t[i] = f[i + 1]
    BY TailChars
  <1>2. Base(f) = 1 /\ Base(t) = 0
    BY <1>1 DEF Base
  <1>3. ShowsAll(t, m)
    BY <1>1, <1>2, ShiftShows, Zenon
  <1>4. 9 # 10
    OBVIOUS
  <1>5. QED
    BY <1>1, <1>3, <1>4, Zenon DEF Formed

(* A text that was written is read as the permissions it was made from. *)
LEMMA HumanRoundTrip ==
  ASSUME NEW m \in Nat, NEW t, t = FormatModeHuman(m) \/ t = Tail(FormatModeHuman(m))
  PROVE  ParseModeHuman(t) = m % 4096
  <1>1. t \in Seq(Letters) /\ Formed(t) /\ ShowsAll(t, m)
    <2>1. PICK f : f = FormatModeHuman(m)
      OBVIOUS
    <2>2. f \in Seq(Letters) /\ Len(f) = 10 /\ Formed(f) /\ ShowsAll(f, m)
      BY <2>1, FormatShows
    <2>3. t = Tail(f) => t \in Seq(Letters) /\ Formed(t) /\ ShowsAll(t, m)
      BY <2>2, TailShows
    <2>4. QED
      BY <2>1, <2>2, <2>3, Zenon
  <1>2. QED
    BY <1>1, ParseShownAll

-----------------------------------------------------------------------------
(* One more digit. *)
LEMMA FourDigits ==
  ASSUME NEW a \in 0 .. 7, NEW b \in 0 .. 7, NEW c \in 0 .. 7, NEW d \in 0 .. 7,
         NEW e, e = 64 * a + 8 * b + c
  PROVE  e * 8 + d = 512 * a + 64 * b + 8 * c + d
  OBVIOUS

(* The loop over at most four digits. *)
LEMMA OctalValueOf ==
  ASSUME NEW t, NEW len \in 1 .. 4, len = Len(t), \A i \in 1 .. len : t[i] \in 0 .. 7
  PROVE  /\ len = 1 => OctalValue(t) = t[1]
         /\ len = 2 => OctalValue(t) = 8 * t[1] + t[2]
         /\ len = 3 => OctalValue(t) = 64 * t[1] + 8 * t[2] + t[3]
         /\ len = 4 => OctalValue(t) = 512 * t[1] + 64 * t[2] + 8 * t[3] + t[4]
  <1> DEFINE Step(f) == [n \in 0 .. len |-> IF n = 0 THEN 0 ELSE f[n - 1] * 8 + t[n]]
             Value(n) == CASE n = 0 -> 0
                           [] n = 1 -> t[1]
                           [] n = 2 -> 8 * t[1] + t[2]
                           [] n = 3 -> 64 * t[1] + 8 * t[2] + t[3]
                           [] n = 4 -> 512 * t[1] + 64 * t[2] + 8 * t[3] + t[4]
             g == [n \in 0 .. len |-> Value(n)]
             v == CHOOSE f : f = Step(f)
  <1>1. \A i \in 1 .. len : t[i] \in 0 .. 7
    OBVIOUS
  <1>2. OctalValue(t) = v[len]
    BY DEF OctalValue
  <1> HIDE DEF v
  <1>3. ASSUME NEW n \in 0 .. len PROVE Value(n) = IF n = 0 THEN 0 ELSE Value(n - 1) * 8 + t[n]
    <2>1. n \in 0 .. 4
      OBVIOUS
    <2>2. CASE n = 0
      BY <2>2
    <2>3. CASE n = 1
      BY <2>3, <1>1
    <2>4. CASE n = 2
      BY <2>4, <1>1
    <2>5. CASE n = 3
      BY <2>5, <1>1
    <2>6. CASE n = 4
      <3>1. t[1] \in 0 .. 7 /\ t[2] \in 0 .. 7 /\ t[3] \in 0 .. 7 /\ t[4] \in 0 .. 7
        BY <1>1, <2>6
      <3>2. Value(4) = 512 * t[1] + 64 * t[2] + 8 * t[3] + t[4]
        OBVIOUS
      <3>3. Value(3) = 64 * t[1] + 8 * t[2] + t[3]
        OBVIOUS
      <3> HIDE DEF Value
      <3>4. Value(4) = Value(3) * 8 + t[4]
        <4>1. PICK a \in 0 .. 7, b \in 0 .. 7, c \in 0 .. 7, d \in 0 .. 7 :
                a = t[1] /\ b = t[2] /\ c = t[3] /\ d = t[4]
          BY <3>1, Zenon
        <4>2. PICK e : e = Value(3)
          OBVIOUS
        <4>3. e = 64 * a + 8 * b + c
          BY <3>3, <4>1, <4>2, Zenon
        <4>4. e * 8 + d = 512 * a + 64 * b + 8 * c + d
          BY <4>3, FourDigits
        <4>5. QED
          BY <3>2, <4>1, <4>2, <4>4, ZenonT(60)
      <3>5. QED
        BY <2>6, <3>4
    <2> HIDE DEF Value
    <2>7. QED
      BY <2>1, <2>2, <2>3, <2>4, <2>5, <2>6
  <1> HIDE DEF Value
  <1>4. g = Step(g)
    <2>1. \A n \in 0 .. len : g[n] = Value(n)
      OBVIOUS
    <2>2. \A n \in 0 .. len : g[n] = IF n = 0 THEN 0 ELSE g[n - 1] * 8 + t[n]
      BY <1>3, <2>1
    <2>3. g = [n \in 0 .. len |-> g[n]]
      BY <2>1
    <2> HIDE DEF g
    <2>4. QED
      BY <2>2, <2>3
  <1>5. v = Step(v)
    <2> HIDE DEF g, Step
    <2>1. QED
      BY <1>4 DEF v
  <1>6. v[0] = 0 /\ \A n \in 1 .. len : v[n] = v[n - 1] * 8 + t[n]
    BY <1>5
  <1> HIDE DEF g, Step
  <1>7. v[1] = t[1]
    BY <1>1, <1>6
  <1>8. len >= 2 => v[2] = 8 * t[1] + t[2]
    BY <1>1, <1>6, <1>7
  <1>9. len >= 3 => v[3] = 64 * t[1] + 8 * t[2] + t[3]
    <2>1. len >= 3 => /\ v[3] = v[2] * 8 + t[3] /\ v[2] = 8 * t[1] + t[2]
                         /\ t[1] \in 0 .. 7 /\ t[2] \in 0 .. 7 /\ t[3] \in 0 .. 7
      BY <1>1, <1>6, <1>8
    <2>2. QED
      BY <2>1, SMTT(40)
  <1>10. len >= 4 => v[4] = 512 * t[1] + 64 * t[2] + 8 * t[3] + t[4]
    <2>1. len >= 4 => /\ v[4] = v[3] * 8 + t[4] /\ v[3] = 64 * t[1] + 8 * t[2] + t[3]
                         /\ t[1] \in 0 .. 7 /\ t[2] \in 0 .. 7 /\ t[3] \in 0 .. 7
                         /\ t[4] \in 0 .. 7
      BY <1>1, <1>6, <1>9
    <2>2. CASE len >= 4
      <3>1. PICK a \in 0 .. 7, b \in 0 .. 7, c \in 0 .. 7, d \in 0 .. 7 :
              a = t[1] /\ b = t[2] /\ c = t[3] /\ d = t[4]
        BY <2>1, <2>2, Zenon
      <3>2. PICK e : e = v[3]
        OBVIOUS
      <3>3. e = 64 * a + 8 * b + c
        BY <2>1, <2>2, <3>1, <3>2, Zenon
      <3>4. e * 8 + d = 512 * a + 64 * b + 8 * c + d
        BY <3>3, FourDigits
      <3>5. QED
        BY <2>1, <2>2, <3>1, <3>2, <3>4, ZenonT(60)
    <2>3. QED
      BY <2>2, Zenon
  <1>11. len = 1 => OctalValue(t) = t[1]
    BY <1>2, <1>7
  <1>12. len = 2 => OctalValue(t) = 8 * t[1] + t[2]
    BY <1>2, <1>8
  <1>13. len = 3 => OctalValue(t) = 64 * t[1] + 8 * t[2] + t[3]
    BY <1>2, <1>9
  <1>14. len = 4 => OctalValue(t) = 512 * t[1] + 64 * t[2] + 8 * t[3] + t[4]
    BY <1>2, <1>10
  <1>15. QED
    BY <1>11, <1>12, <1>13, <1>14, Zenon

(* The number of four digits. *)
NumberOf(a, b, c, d) == 512 * a + 64 * b + 8 * c + d

(* The special digit is cut off and put back. *)
LEMMA SpecialDigit ==
  \A r \in 0 .. 4095 : 512 * ((r \div 512) % 8) + (r % 512) = r
  OBVIOUS

(* What is written in octal is read as the permissions it was made from. *)
LEMMA OctalRoundTrip ==
  ASSUME NEW m \in Nat PROVE ParseModeOctal(FormatModeOctal(m)) = m % 4096
  <1>1. PICK a \in 0 .. 7, b \in 0 .. 7, c \in 0 .. 7, d \in 0 .. 7 :
          a = (m % 4096) \div 512 /\ b = (m \div 64) % 8 /\ c = (m \div 8) % 8 /\ d = m % 8
    OBVIOUS
  <1>2. 512 * a + 64 * b + 8 * c + d = m % 4096
    <2>1. /\ m \div 64 = (m \div 8) \div 8 /\ m \div 512 = (m \div 64) \div 8
          /\ m \div 4096 = (m \div 512) \div 8
      OBVIOUS
    <2>2. /\ m % 4096 = m - 4096 * (m \div 4096) /\ d = m - 8 * (m \div 8)
          /\ c = (m \div 8) - 8 * (m \div 64) /\ b = (m \div 64) - 8 * (m \div 512)
      BY <1>1, <2>1
    <2>3. a = (m \div 512) - 8 * (m \div 4096)
      BY <1>1, <2>2
    <2>4. QED
      BY <2>2, <2>3
  <1>3. PICK t : t = <<a, b, c, d>>
    OBVIOUS
  <1>4. t = FormatModeOctal(m)
    BY <1>1, <1>3 DEF FormatModeOctal
  <1>5. Len(t) = 4 /\ t[1] = a /\ t[2] = b /\ t[3] = c /\ t[4] = d
    BY <1>3
  <1>6. \A i \in 1 .. 4 : t[i] \in 0 .. 7
    BY <1>5
  <1>7. PICK r : r = 512 * a + 64 * b + 8 * c + d
    OBVIOUS
  <1>8. OctalValue(t) = r
    BY <1>5, <1>6, <1>7, OctalValueOf
  <1>9. 512 * ((r \div 512) % 8) + (r % 512) = r
    BY <1>7, SpecialDigit
  <1>10. ParseModeOctal(t) = r
    BY <1>5, <1>6, <1>8, <1>9 DEF ParseModeOctal
  <1>11. QED
    BY <1>2, <1>4, <1>7, <1>10

(* The four digits of a text that may have fewer. *)
HasDigits(t, a, b, c, d) == Padded(t) = <<a, b, c, d>>

(* Shorter numbers have zeros in front. *)
LEMMA OctalPadded ==
  ASSUME NEW t, NEW len \in 1 .. 4, len = Len(t), \A i \in 1 .. len : t[i] \in 0 .. 7
  PROVE  \E a, b, c, d \in 0 .. 7 :
           /\ OctalValue(t) = NumberOf(a, b, c, d)
           /\ HasDigits(t, a, b, c, d)
  <1>1. /\ t[1] \in 0 .. 7 /\ (len >= 2 => t[2] \in 0 .. 7) /\ (len >= 3 => t[3] \in 0 .. 7)
        /\ (len >= 4 => t[4] \in 0 .. 7)
    OBVIOUS
  <1>2. CASE len = 1
    <2>1. PICK d \in 0 .. 7 :
            d = t[1]
      BY <1>1, <1>2
    <2>2. OctalValue(t) = NumberOf(0, 0, 0, d)
      <3>1. OctalValue(t) = t[1]
        BY <1>2, OctalValueOf
      <3>2. QED
        BY <2>1, <3>1 DEF NumberOf
    <2>3. HasDigits(t, 0, 0, 0, d)
      BY <1>2, <2>1 DEF HasDigits, Padded
    <2>4. 0 \in 0 .. 7
      OBVIOUS
    <2>5. QED
      BY <2>2, <2>3, <2>4
  <1>3. CASE len = 2
    <2>1. PICK c \in 0 .. 7, d \in 0 .. 7 :
            c = t[1] /\ d = t[2]
      BY <1>1, <1>3
    <2>2. OctalValue(t) = NumberOf(0, 0, c, d)
      <3>1. OctalValue(t) = 8 * t[1] + t[2]
        BY <1>3, OctalValueOf
      <3>2. QED
        BY <2>1, <3>1 DEF NumberOf
    <2>3. HasDigits(t, 0, 0, c, d)
      BY <1>3, <2>1 DEF HasDigits, Padded
    <2>4. 0 \in 0 .. 7
      OBVIOUS
    <2>5. QED
      BY <2>2, <2>3, <2>4, Zenon
  <1>4. CASE len = 3
    <2>1. PICK b \in 0 .. 7, c \in 0 .. 7, d \in 0 .. 7 :
            b = t[1] /\ c = t[2] /\ d = t[3]
      BY <1>1, <1>4
    <2>2. OctalValue(t) = NumberOf(0, b, c, d)
      <3>1. OctalValue(t) = 64 * t[1] + 8 * t[2] + t[3]
        BY <1>4, OctalValueOf
      <3>2. QED
        BY <2>1, <3>1 DEF NumberOf
    <2>3. HasDigits(t, 0, b, c, d)
      BY <1>4, <2>1 DEF HasDigits, Padded
    <2>4. 0 \in 0 .. 7
      OBVIOUS
    <2>5. QED
      BY <2>2, <2>3, <2>4, Zenon
  <1>5. CASE len = 4
    <2>1. PICK a \in 0 .. 7, b \in 0 .. 7, c \in 0 .. 7, d \in 0 .. 7 :
            a = t[1] /\ b = t[2] /\ c = t[3] /\ d = t[4]
      BY <1>1, <1>5, SMTT(40)
    <2>2. OctalValue(t) = NumberOf(a, b, c, d)
      <3>1. OctalValue(t) = 512 * t[1] + 64 * t[2] + 8 * t[3] + t[4]
        BY <1>5, OctalValueOf
      <3>2. QED
        BY <2>1, <3>1 DEF NumberOf
    <2>3. HasDigits(t, a, b, c, d)
      BY <1>5, <2>1 DEF HasDigits, Padded
    <2>4. 0 \in 0 .. 7
      OBVIOUS
    <2>5. QED
      BY <2>2, <2>3, <2>4, Zenon
  <1>6. len = 1 \/ len = 2 \/ len = 3 \/ len = 4
    OBVIOUS
  <1>7. QED
    BY <1>2, <1>3, <1>4, <1>5, <1>6, Zenon

(* The digits of a number are written in their order. *)
LEMMA DigitsWritten ==
  ASSUME NEW a \in 0 .. 7, NEW b \in 0 .. 7, NEW c \in 0 .. 7, NEW d \in 0 .. 7
  PROVE  FormatModeOctal(NumberOf(a, b, c, d)) = <<a, b, c, d>>
  <1>1. PICK r : r = NumberOf(a, b, c, d)
    OBVIOUS
  <1>2. /\ r \in 0 .. 4095 /\ r \div 512 = a /\ r \div 64 = 8 * a + b
        /\ r \div 8 = 64 * a + 8 * b + c /\ r % 8 = d
    BY <1>1 DEF NumberOf
  <1>3. (8 * a + b) % 8 = b /\ (64 * a + 8 * b + c) % 8 = c
    OBVIOUS
  <1>4. r % 4096 = r
    BY <1>2
  <1>5. (r % 4096) \div 512 = a /\ (r \div 64) % 8 = b /\ (r \div 8) % 8 = c /\ r % 8 = d
    BY <1>2, <1>3, <1>4
  <1>6. FormatModeOctal(r) = <<a, b, c, d>>
    BY <1>5 DEF FormatModeOctal
  <1>7. QED
    BY <1>1, <1>6

(* Modes without a type. *)
Modes == 0 .. 4095

(* Permissions are a mode of their own. *)
LEMMA ModeOfModes == \A m \in Modes : m \in Nat /\ m % 4096 = m
  BY DEF Modes

(* The mode m is written like the octal text, zeros in front left out. *)
Numbered(t, m) == m \in Modes /\ Len(t) \in 1 .. 4 /\ FormatModeOctal(m) = Padded(t)

(* The formatter writes the digits that the parser accepted. *)
LEMMA OctalWrittenAgain ==
  ASSUME NEW t \in Seq(0 .. 9), ParseModeOctal(t) # Invalid
  PROVE  Numbered(t, ParseModeOctal(t))
  <1>1. PICK len \in 1 .. 4 : len = Len(t)
    BY DEF ParseModeOctal
  <1>2. \A i \in 1 .. len : t[i] \in 0 .. 7
    BY <1>1, ElementOfSeq DEF ParseModeOctal
  <1>3. PICK r : r = OctalValue(t)
    OBVIOUS
  <1>4. PICK a \in 0 .. 7, b \in 0 .. 7, c \in 0 .. 7, d \in 0 .. 7 :
          OctalValue(t) = NumberOf(a, b, c, d) /\ HasDigits(t, a, b, c, d)
    BY <1>1, <1>2, OctalPadded, Zenon
  <1>5. r \in 0 .. 4095 /\ 512 * ((r \div 512) % 8) + (r % 512) = r
    <2>1. r \in 0 .. 4095
      BY <1>3, <1>4 DEF NumberOf
    <2>2. QED
      BY <2>1, SpecialDigit
  <1>6. ParseModeOctal(t) = r
    <2>1. Len(t) \in 1 .. 4 /\ ~ \E i \in 1 .. Len(t) : t[i] > 7
      BY <1>1, <1>2
    <2>2. QED
      BY <1>3, <1>5, <2>1 DEF ParseModeOctal
  <1>7. FormatModeOctal(r) = Padded(t)
    <2>1. FormatModeOctal(NumberOf(a, b, c, d)) = <<a, b, c, d>>
      BY DigitsWritten
    <2>2. QED
      BY <1>3, <1>4, <2>1, Zenon DEF HasDigits
  <1>8. QED
    BY <1>1, <1>5, <1>6, <1>7 DEF Modes, Numbered

(* Some character is not an octal digit, or there are too many or none. *)
NoNumber(t) == Len(t) \notin 1 .. 4 \/ \E i \in 1 .. Len(t) : t[i] \notin 0 .. 7

(* Such a text only is refused. *)
LEMMA OctalRefused ==
  ASSUME NEW t \in Seq(0 .. 9), ParseModeOctal(t) = Invalid PROVE NoNumber(t)
  <1>1. SUFFICES ASSUME ~ NoNumber(t) PROVE ParseModeOctal(t) # Invalid
    OBVIOUS
  <1>2. PICK len \in 1 .. 4 : len = Len(t)
    BY <1>1 DEF NoNumber
  <1>3. \A i \in 1 .. len : t[i] \in 0 .. 7
    BY <1>1, <1>2 DEF NoNumber
  <1>4. PICK r : r = OctalValue(t)
    OBVIOUS
  <1>5. PICK a \in 0 .. 7, b \in 0 .. 7, c \in 0 .. 7, d \in 0 .. 7 :
          OctalValue(t) = NumberOf(a, b, c, d)
    BY <1>2, <1>3, OctalPadded, Zenon
  <1>6. r \in 0 .. 4095 /\ 512 * ((r \div 512) % 8) + (r % 512) = r
    <2>1. r \in 0 .. 4095
      BY <1>4, <1>5 DEF NumberOf
    <2>2. QED
      BY <2>1, SpecialDigit
  <1>7. Len(t) \in 1 .. 4 /\ ~ \E i \in 1 .. Len(t) : t[i] > 7
    BY <1>2, <1>3
  <1>8. ParseModeOctal(t) = r
    BY <1>4, <1>6, <1>7 DEF ParseModeOctal
  <1>9. QED
    BY <1>6, <1>8 DEF Invalid

-----------------------------------------------------------------------------
(* An even or an odd number. *)
LEMMA HalfOf ==
  ASSUME NEW b \in 0 .. 1, NEW q \in Nat, NEW v, v = b + 2 * q
  PROVE  v \in Nat /\ v \div 2 = q /\ v % 2 = b
  OBVIOUS

(* A sum of powers of two. *)
SumOf(b) ==
  b[0] + 2 * b[1] + 4 * b[2] + 8 * b[3] + 16 * b[4] + 32 * b[5]
  + 64 * b[6] + 128 * b[7] + 256 * b[8] + 512 * b[9] + 1024 * b[10] + 2048 * b[11]

(* The bits of a mode. *)
HasBits(v, b) ==
  /\ (Bit(v, 1) <=> b[0] = 1) /\ (Bit(v, 2) <=> b[1] = 1) /\ (Bit(v, 4) <=> b[2] = 1)
  /\ (Bit(v, 8) <=> b[3] = 1) /\ (Bit(v, 16) <=> b[4] = 1) /\ (Bit(v, 32) <=> b[5] = 1)
  /\ (Bit(v, 64) <=> b[6] = 1) /\ (Bit(v, 128) <=> b[7] = 1) /\ (Bit(v, 256) <=> b[8] = 1)
  /\ (Bit(v, 512) <=> b[9] = 1) /\ (Bit(v, 1024) <=> b[10] = 1) /\ (Bit(v, 2048) <=> b[11] = 1)

(* Twelve bits. *)
Bits == [0 .. 11 -> 0 .. 1]

(* The bits of a number are what it is the sum of. *)
Summed(b) == SumOf(b) \in 0 .. 4095 /\ HasBits(SumOf(b), b)

(* So it is. *)
LEMMA BitsOfSum ==
  ASSUME NEW b \in Bits PROVE Summed(b)
  <1>1. PICK v : v = SumOf(b)
    OBVIOUS
  <1>2. PICK b0 \in 0 .. 1, b1 \in 0 .. 1, b2 \in 0 .. 1, b3 \in 0 .. 1, b4 \in 0 .. 1,
              b5 \in 0 .. 1 :
          b0 = b[0] /\ b1 = b[1] /\ b2 = b[2] /\ b3 = b[3] /\ b4 = b[4] /\ b5 = b[5]
    BY DEF Bits
  <1>3. PICK b6 \in 0 .. 1, b7 \in 0 .. 1, b8 \in 0 .. 1, b9 \in 0 .. 1, b10 \in 0 .. 1,
              b11 \in 0 .. 1 :
          b6 = b[6] /\ b7 = b[7] /\ b8 = b[8] /\ b9 = b[9] /\ b10 = b[10] /\ b11 = b[11]
    BY DEF Bits
  <1>4. v = b0 + 2 * b1 + 4 * b2 + 8 * b3 + 16 * b4 + 32 * b5
            + 64 * b6 + 128 * b7 + 256 * b8 + 512 * b9 + 1024 * b10 + 2048 * b11
    BY <1>1, <1>2, <1>3 DEF SumOf
  <1>5. v \in 0 .. 4095
    BY <1>4, SMTT(40)
  <1>6. PICK q11 \in Nat : q11 = b11
    OBVIOUS
  <1>7. PICK q10 \in Nat : q10 = b10 + 2 * q11
    OBVIOUS
  <1>8. PICK q9 \in Nat : q9 = b9 + 2 * q10
    OBVIOUS
  <1>9. PICK q8 \in Nat : q8 = b8 + 2 * q9
    OBVIOUS
  <1>10. PICK q7 \in Nat : q7 = b7 + 2 * q8
    OBVIOUS
  <1>11. PICK q6 \in Nat : q6 = b6 + 2 * q7
    OBVIOUS
  <1>12. PICK q5 \in Nat : q5 = b5 + 2 * q6
    OBVIOUS
  <1>13. PICK q4 \in Nat : q4 = b4 + 2 * q5
    OBVIOUS
  <1>14. PICK q3 \in Nat : q3 = b3 + 2 * q4
    OBVIOUS
  <1>15. PICK q2 \in Nat : q2 = b2 + 2 * q3
    OBVIOUS
  <1>16. PICK q1 \in Nat : q1 = b1 + 2 * q2
    OBVIOUS
  <1>17. v = b0 + 2 * q1
    BY <1>16, <1>15, <1>14, <1>13, <1>12, <1>11, <1>10, <1>9, <1>8, <1>7, <1>6,
       <1>4
  <1>18. v % 2 = b0 /\ v \div 2 = q1
    BY <1>17, HalfOf
  <1>19. q1 % 2 = b1 /\ q1 \div 2 = q2
    BY <1>16, HalfOf
  <1>20. q2 % 2 = b2 /\ q2 \div 2 = q3
    BY <1>15, HalfOf
  <1>21. q3 % 2 = b3 /\ q3 \div 2 = q4
    BY <1>14, HalfOf
  <1>22. q4 % 2 = b4 /\ q4 \div 2 = q5
    BY <1>13, HalfOf
  <1>23. q5 % 2 = b5 /\ q5 \div 2 = q6
    BY <1>12, HalfOf
  <1>24. q6 % 2 = b6 /\ q6 \div 2 = q7
    BY <1>11, HalfOf
  <1>25. q7 % 2 = b7 /\ q7 \div 2 = q8
    BY <1>10, HalfOf
  <1>26. q8 % 2 = b8 /\ q8 \div 2 = q9
    BY <1>9, HalfOf
  <1>27. q9 % 2 = b9 /\ q9 \div 2 = q10
    BY <1>8, HalfOf
  <1>28. q10 % 2 = b10 /\ q10 \div 2 = q11
    BY <1>7, HalfOf
  <1>29. q11 % 2 = b11
    BY <1>6
  <1>30. /\ v \in Nat /\ v \div 1 = v /\ v \div 2 = q1
    BY <1>5, <1>18
  <1>31. v \div 4 = q2
    <2>1. \A n \in Nat : n \div 4 = (n \div 2) \div 2
      OBVIOUS
    <2>2. v \div 4 = (v \div 2) \div 2
      BY <1>5, <2>1
    <2>3. QED
      BY <2>2, <1>30, <1>19
  <1>32. v \div 8 = q3
    <2>1. \A n \in Nat : n \div 8 = (n \div 4) \div 2
      OBVIOUS
    <2>2. v \div 8 = (v \div 4) \div 2
      BY <1>5, <2>1
    <2>3. QED
      BY <2>2, <1>31, <1>20
  <1>33. v \div 16 = q4
    <2>1. \A n \in Nat : n \div 16 = (n \div 8) \div 2
      OBVIOUS
    <2>2. v \div 16 = (v \div 8) \div 2
      BY <1>5, <2>1
    <2>3. QED
      BY <2>2, <1>32, <1>21
  <1>34. v \div 32 = q5
    <2>1. \A n \in Nat : n \div 32 = (n \div 16) \div 2
      OBVIOUS
    <2>2. v \div 32 = (v \div 16) \div 2
      BY <1>5, <2>1
    <2>3. QED
      BY <2>2, <1>33, <1>22
  <1>35. v \div 64 = q6
    <2>1. \A n \in Nat : n \div 64 = (n \div 32) \div 2
      OBVIOUS
    <2>2. v \div 64 = (v \div 32) \div 2
      BY <1>5, <2>1
    <2>3. QED
      BY <2>2, <1>34, <1>23
  <1>36. v \div 128 = q7
    <2>1. \A n \in Nat : n \div 128 = (n \div 64) \div 2
      OBVIOUS
    <2>2. v \div 128 = (v \div 64) \div 2
      BY <1>5, <2>1
    <2>3. QED
      BY <2>2, <1>35, <1>24
  <1>37. v \div 256 = q8
    <2>1. \A n \in Nat : n \div 256 = (n \div 128) \div 2
      OBVIOUS
    <2>2. v \div 256 = (v \div 128) \div 2
      BY <1>5, <2>1
    <2>3. QED
      BY <2>2, <1>36, <1>25
  <1>38. v \div 512 = q9
    <2>1. \A n \in Nat : n \div 512 = (n \div 256) \div 2
      OBVIOUS
    <2>2. v \div 512 = (v \div 256) \div 2
      BY <1>5, <2>1
    <2>3. QED
      BY <2>2, <1>37, <1>26
  <1>39. v \div 1024 = q10
    <2>1. \A n \in Nat : n \div 1024 = (n \div 512) \div 2
      OBVIOUS
    <2>2. v \div 1024 = (v \div 512) \div 2
      BY <1>5, <2>1
    <2>3. QED
      BY <2>2, <1>38, <1>27
  <1>40. v \div 2048 = q11
    <2>1. \A n \in Nat : n \div 2048 = (n \div 1024) \div 2
      OBVIOUS
    <2>2. v \div 2048 = (v \div 1024) \div 2
      BY <1>5, <2>1
    <2>3. QED
      BY <2>2, <1>39, <1>28
  <1>41. Bit(v, 1) <=> b[0] = 1
    BY <1>30, <1>18, <1>2 DEF Bit
  <1>42. Bit(v, 2) <=> b[1] = 1
    BY <1>30, <1>19, <1>2 DEF Bit
  <1>43. Bit(v, 4) <=> b[2] = 1
    BY <1>31, <1>20, <1>2 DEF Bit
  <1>44. Bit(v, 8) <=> b[3] = 1
    BY <1>32, <1>21, <1>2 DEF Bit
  <1>45. Bit(v, 16) <=> b[4] = 1
    BY <1>33, <1>22, <1>2 DEF Bit
  <1>46. Bit(v, 32) <=> b[5] = 1
    BY <1>34, <1>23, <1>2 DEF Bit
  <1>47. Bit(v, 64) <=> b[6] = 1
    BY <1>35, <1>24, <1>3 DEF Bit
  <1>48. Bit(v, 128) <=> b[7] = 1
    BY <1>36, <1>25, <1>3 DEF Bit
  <1>49. Bit(v, 256) <=> b[8] = 1
    BY <1>37, <1>26, <1>3 DEF Bit
  <1>50. Bit(v, 512) <=> b[9] = 1
    BY <1>38, <1>27, <1>3 DEF Bit
  <1>51. Bit(v, 1024) <=> b[10] = 1
    BY <1>39, <1>28, <1>3 DEF Bit
  <1>52. Bit(v, 2048) <=> b[11] = 1
    BY <1>40, <1>29, <1>3 DEF Bit
  <1>53. HasBits(v, b)
    BY <1>41, <1>42, <1>43, <1>44, <1>45, <1>46, <1>47, <1>48, <1>49, <1>50, <1>51, <1>52
    DEF HasBits
  <1>54. QED
    BY <1>5, <1>53, <1>1 DEF Summed

(* The characters of a triple for its four bits. *)
Spells(t, k, with_exec, no_exec, r, w, e, special) ==
  /\ t[k] = (IF r = 1 THEN "r" ELSE "-")
  /\ t[k + 1] = (IF w = 1 THEN "w" ELSE "-")
  /\ t[k + 2] = IF special = 1 THEN (IF e = 1 THEN with_exec ELSE no_exec)
                ELSE (IF e = 1 THEN "x" ELSE "-")

(* What the parser makes of them. *)
PartOf(x, s, r, w, e, special) ==
  (IF r = 1 THEN 4 * x ELSE 0) + (IF w = 1 THEN 2 * x ELSE 0)
  + (IF e = 1 THEN x ELSE 0) + (IF special = 1 THEN s ELSE 0)

(* A triple that is accepted is spelled like this. *)
LEMMA ParsedSpells ==
  ASSUME NEW S, NEW t \in Seq(S), NEW k \in Nat \ {0}, k + 2 <= Len(t),
         NEW x \in Nat, NEW s \in Nat, NEW with_exec, NEW no_exec,
         with_exec \notin {"x", "-"}, no_exec \notin {"x", "-"}, with_exec # no_exec,
         NEW part, part = ParseRwxTriple(SubSeq(t, k, k + 2), x, s, with_exec, no_exec),
         part # Invalid
  PROVE  \E r, w, e, special \in 0 .. 1 :
           /\ Spells(t, k, with_exec, no_exec, r, w, e, special)
           /\ part = PartOf(x, s, r, w, e, special)
  <1>1. part =
           IF t[k] \notin {"r", "-"} \/ t[k + 1] \notin {"w", "-"}
              \/ t[k + 2] \notin {"x", "-", with_exec, no_exec}
             THEN Invalid
           ELSE (IF t[k] = "r" THEN 4 * x ELSE 0) + (IF t[k + 1] = "w" THEN 2 * x ELSE 0)
                + (IF t[k + 2] \in {"x", with_exec} THEN x ELSE 0)
                + (IF t[k + 2] \in {with_exec, no_exec} THEN s ELSE 0)
    BY ParseOfChars
  <1>2. /\ t[k] \in {"r", "-"} /\ t[k + 1] \in {"w", "-"}
        /\ t[k + 2] \in {"x", "-", with_exec, no_exec}
    BY <1>1
  <1>3. PICK r \in 0 .. 1 : r = IF t[k] = "r" THEN 1 ELSE 0
    OBVIOUS
  <1>4. PICK w \in 0 .. 1 : w = IF t[k + 1] = "w" THEN 1 ELSE 0
    OBVIOUS
  <1>5. PICK e \in 0 .. 1 : e = IF t[k + 2] \in {"x", with_exec} THEN 1 ELSE 0
    OBVIOUS
  <1>6. PICK special \in 0 .. 1 : special = IF t[k + 2] \in {with_exec, no_exec} THEN 1 ELSE 0
    OBVIOUS
  <1>7. part = PartOf(x, s, r, w, e, special)
    BY <1>1, <1>2, <1>3, <1>4, <1>5, <1>6 DEF PartOf
  <1>8. Spells(t, k, with_exec, no_exec, r, w, e, special)
    BY <1>2, <1>3, <1>4, <1>5, <1>6 DEF Spells
  <1>9. QED
    BY <1>7, <1>8

(* A mode with these bits is shown like this. *)
LEMMA SpelledShows ==
  ASSUME NEW t, NEW k, NEW with_exec, NEW no_exec, NEW r, NEW w, NEW e, NEW special,
         Spells(t, k, with_exec, no_exec, r, w, e, special), NEW m, NEW x, NEW s,
         Bit(m, 4 * x) <=> r = 1, Bit(m, 2 * x) <=> w = 1, Bit(m, x) <=> e = 1,
         Bit(m, s) <=> special = 1
  PROVE  Shows(t, k, m, x, s, with_exec, no_exec)
  <1>1. /\ t[k] = (IF Bit(m, 4 * x) THEN "r" ELSE "-")
        /\ t[k + 1] = (IF Bit(m, 2 * x) THEN "w" ELSE "-")
        /\ t[k + 2] = IF Bit(m, s) THEN (IF Bit(m, x) THEN with_exec ELSE no_exec)
                      ELSE (IF Bit(m, x) THEN "x" ELSE "-")
    BY DEF Spells
  <1>2. QED
    BY <1>1 DEF Shows, Triple

(* A text that is accepted shows the mode that is made of it. *)
LEMMA ParsedShowsAll ==
  ASSUME NEW S, NEW t \in Seq(S), NEW v, v = ParseModeHuman(t), v # Invalid
  PROVE  Formed(t) /\ v \in Modes /\ ShowsAll(t, v)
  <1>1. Formed(t)
    BY DEF ParseModeHuman, Formed
  <1>2. PICK base \in 0 .. 1 : base = Base(t) /\ Len(t) = base + 9
    BY <1>1 DEF Base, Formed
  <1>3. PICK user, group, other :
          /\ user = ParseRwxTriple(SubSeq(t, base + 1, base + 1 + 2), 64, 2048, "s", "S")
          /\ group = ParseRwxTriple(SubSeq(t, base + 4, base + 4 + 2), 8, 1024, "s", "S")
          /\ other = ParseRwxTriple(SubSeq(t, base + 7, base + 7 + 2), 1, 512, "t", "T")
    OBVIOUS
  <1>4. v = IF Invalid \in {user, group, other} THEN Invalid ELSE user + group + other
    BY <1>1, <1>2, <1>3, ParseFormed
  <1>5. user # Invalid /\ group # Invalid /\ other # Invalid /\ v = user + group + other
    BY <1>4
  <1>6. PICK ru \in 0 .. 1, wu \in 0 .. 1, eu \in 0 .. 1, su \in 0 .. 1 :
          /\ Spells(t, base + 1, "s", "S", ru, wu, eu, su)
          /\ user = PartOf(64, 2048, ru, wu, eu, su)
    <2>1. PICK k \in Nat \ {0} : k = base + 1 /\ k + 2 <= Len(t)
      BY <1>2
    <2>2. user = ParseRwxTriple(SubSeq(t, k, k + 2), 64, 2048, "s", "S")
      BY <1>3, <2>1
    <2>3. \E r, w, e, special \in 0 .. 1 :
            Spells(t, k, "s", "S", r, w, e, special) /\ user = PartOf(64, 2048, r, w, e, special)
      BY <1>5, <2>1, <2>2, ParsedSpells
    <2>4. QED
      BY <2>1, <2>3
  <1>7. PICK rg \in 0 .. 1, wg \in 0 .. 1, eg \in 0 .. 1, sg \in 0 .. 1 :
          /\ Spells(t, base + 4, "s", "S", rg, wg, eg, sg)
          /\ group = PartOf(8, 1024, rg, wg, eg, sg)
    <2>1. PICK k \in Nat \ {0} : k = base + 4 /\ k + 2 <= Len(t)
      BY <1>2
    <2>2. group = ParseRwxTriple(SubSeq(t, k, k + 2), 8, 1024, "s", "S")
      BY <1>3, <2>1
    <2>3. \E r, w, e, special \in 0 .. 1 :
            Spells(t, k, "s", "S", r, w, e, special) /\ group = PartOf(8, 1024, r, w, e, special)
      BY <1>5, <2>1, <2>2, ParsedSpells, SMTT(40)
    <2>4. QED
      BY <2>1, <2>3
  <1>8. PICK ro \in 0 .. 1, wo \in 0 .. 1, eo \in 0 .. 1, so \in 0 .. 1 :
          /\ Spells(t, base + 7, "t", "T", ro, wo, eo, so)
          /\ other = PartOf(1, 512, ro, wo, eo, so)
    <2>1. PICK k \in Nat \ {0} : k = base + 7 /\ k + 2 <= Len(t)
      BY <1>2
    <2>2. other = ParseRwxTriple(SubSeq(t, k, k + 2), 1, 512, "t", "T")
      BY <1>3, <2>1
    <2>3. \E r, w, e, special \in 0 .. 1 :
            Spells(t, k, "t", "T", r, w, e, special) /\ other = PartOf(1, 512, r, w, e, special)
      BY <1>5, <2>1, <2>2, ParsedSpells
    <2>4. QED
      BY <2>1, <2>3
  <1>9. user = 256 * ru + 128 * wu + 64 * eu + 2048 * su
    <2>1. user = PartOf(64, 2048, ru, wu, eu, su)
      BY <1>6
    <2>2. QED
      BY <2>1 DEF PartOf
  <1>10. group = 32 * rg + 16 * wg + 8 * eg + 1024 * sg
    <2>1. group = PartOf(8, 1024, rg, wg, eg, sg)
      BY <1>7
    <2>2. QED
      BY <2>1 DEF PartOf
  <1>11. other = 4 * ro + 2 * wo + eo + 512 * so
    <2>1. other = PartOf(1, 512, ro, wo, eo, so)
      BY <1>8
    <2>2. QED
      BY <2>1 DEF PartOf
  <1>12. PICK b \in Bits :
           /\ b[0] = eo /\ b[1] = wo /\ b[2] = ro /\ b[3] = eg /\ b[4] = wg /\ b[5] = rg
           /\ b[6] = eu /\ b[7] = wu /\ b[8] = ru /\ b[9] = so /\ b[10] = sg /\ b[11] = su
    <2>1. PICK b : b = [i \in 0 .. 11 |->
            IF i < 6 THEN (IF i = 0 THEN eo ELSE IF i = 1 THEN wo ELSE IF i = 2 THEN ro
              ELSE IF i = 3 THEN eg ELSE IF i = 4 THEN wg ELSE rg)
            ELSE (IF i = 6 THEN eu ELSE IF i = 7 THEN wu ELSE IF i = 8 THEN ru
              ELSE IF i = 9 THEN so ELSE IF i = 10 THEN sg ELSE su)]
      OBVIOUS
    <2>2. b \in Bits
      BY <2>1 DEF Bits
    <2>3. b[0] = eo /\ b[1] = wo /\ b[2] = ro /\ b[3] = eg /\ b[4] = wg /\ b[5] = rg
      BY <2>1
    <2>4. b[6] = eu /\ b[7] = wu /\ b[8] = ru /\ b[9] = so /\ b[10] = sg /\ b[11] = su
      BY <2>1
    <2>5. QED
      BY <2>2, <2>3, <2>4
  <1>13. v = SumOf(b)
    BY <1>5, <1>9, <1>10, <1>11, <1>12 DEF SumOf
  <1>14. v \in 0 .. 4095 /\ HasBits(v, b)
    <2>1. Summed(b)
      BY BitsOfSum
    <2>2. QED
      BY <1>13, <2>1 DEF Summed
  <1>15. /\ 256 = 4 * 64 /\ 128 = 2 * 64 /\ 32 = 4 * 8 /\ 16 = 2 * 8 /\ 4 = 4 * 1 /\ 2 = 2 * 1
    OBVIOUS
  <1>16. Shows(t, base + 1, v, 64, 2048, "s", "S")
    <2>1. /\ (Bit(v, 4 * 64) <=> ru = 1) /\ (Bit(v, 2 * 64) <=> wu = 1)
          /\ (Bit(v, 64) <=> eu = 1) /\ (Bit(v, 2048) <=> su = 1)
      BY <1>12, <1>14, <1>15 DEF HasBits
    <2>2. Spells(t, base + 1, "s", "S", ru, wu, eu, su)
      BY <1>6
    <2>3. QED
      BY <2>1, <2>2, SpelledShows
  <1>17. Shows(t, base + 4, v, 8, 1024, "s", "S")
    <2>1. /\ (Bit(v, 4 * 8) <=> rg = 1) /\ (Bit(v, 2 * 8) <=> wg = 1)
          /\ (Bit(v, 8) <=> eg = 1) /\ (Bit(v, 1024) <=> sg = 1)
      BY <1>12, <1>14, <1>15 DEF HasBits
    <2>2. Spells(t, base + 4, "s", "S", rg, wg, eg, sg)
      BY <1>7
    <2>3. QED
      BY <2>1, <2>2, SpelledShows
  <1>18. Shows(t, base + 7, v, 1, 512, "t", "T")
    <2>1. /\ (Bit(v, 4 * 1) <=> ro = 1) /\ (Bit(v, 2 * 1) <=> wo = 1)
          /\ (Bit(v, 1) <=> eo = 1) /\ (Bit(v, 512) <=> so = 1)
      BY <1>12, <1>14, <1>15 DEF HasBits
    <2>2. Spells(t, base + 7, "t", "T", ro, wo, eo, so)
      BY <1>8
    <2>3. QED
      BY <2>1, <2>2, SpelledShows
  <1>19. QED
    BY <1>1, <1>2, <1>14, <1>16, <1>17, <1>18 DEF ShowsAll, Modes

(* Only one text without a type shows a mode. *)
LEMMA ShownOnce ==
  ASSUME NEW S, NEW p \in Seq(S), NEW Q, NEW q \in Seq(Q), Len(p) = 9, Len(q) = 9, NEW m,
         ShowsAll(p, m), ShowsAll(q, m)
  PROVE  p = q
  <1>1. Base(p) = 0 /\ Base(q) = 0
    BY DEF Base
  <1>2. /\ p[1] = q[1] /\ p[2] = q[2] /\ p[3] = q[3] /\ p[4] = q[4] /\ p[5] = q[5]
        /\ p[6] = q[6] /\ p[7] = q[7] /\ p[8] = q[8] /\ p[9] = q[9]
    BY <1>1 DEF ShowsAll, Shows
  <1>3. \A i \in 1 .. 9 : p[i] = q[i]
    BY <1>2
  <1>4. QED
    BY <1>3

-----------------------------------------------------------------------------
(* The permissions of a text. *)
Permissions(t) == IF Len(t) = 10 THEN Tail(t) ELSE t

(* They are what stands behind the type. *)
LEMMA PermissionChars ==
  ASSUME NEW S, NEW t \in Seq(S), Len(t) \in {9, 10}
  PROVE  /\ Permissions(t) \in Seq(S) /\ Len(Permissions(t)) = 9
         /\ \A i \in 1 .. 9 : Permissions(t)[i] = t[Base(t) + i]
  <1>1. CASE Len(t) = 10
    <2>1. PICK p : p = Tail(t)
      OBVIOUS
    <2>2. p \in Seq(S) /\ Len(p) = 9 /\ \A i \in 1 .. 9 : p[i] = t[i + 1]
      BY <1>1, <2>1, TailChars
    <2>3. Permissions(t) = p /\ Base(t) = 1
      BY <1>1, <2>1 DEF Permissions, Base
    <2>4. \A i \in 1 .. 9 : i + 1 = 1 + i
      OBVIOUS
    <2>5. QED
      BY <2>2, <2>3, <2>4
  <1>2. CASE Len(t) = 9
    BY <1>2 DEF Permissions, Base
  <1>3. QED
    BY <1>1, <1>2

(* The formatter writes what the parser accepted. *)
LEMMA WrittenAgain ==
  ASSUME NEW S, NEW t \in Seq(S), NEW v, v = ParseModeHuman(t), v # Invalid
  PROVE  v \in Modes /\ Tail(FormatModeHuman(v)) = Permissions(t)
  <1>1. Formed(t) /\ v \in Modes /\ ShowsAll(t, v)
    <2>1. Formed(t)
      BY ParsedShowsAll
    <2>2. ShowsAll(t, v)
      BY ParsedShowsAll
    <2>3. v \in Modes
      BY ParsedShowsAll
    <2>4. QED
      BY <2>1, <2>2, <2>3
  <1>2. PICK p : p = Permissions(t)
    OBVIOUS
  <1>3. p \in Seq(S) /\ Len(p) = 9 /\ \A i \in 1 .. 9 : p[i] = t[Base(t) + i]
    BY <1>1, <1>2, PermissionChars DEF Formed
  <1>4. ShowsAll(p, v)
    <2>1. CASE Len(t) = 10
      <3>1. p = Tail(t)
        BY <1>2, <2>1 DEF Permissions
      <3>2. QED
        BY <1>1, <2>1, <3>1, TailShows
    <2>2. CASE Len(t) # 10
      BY <1>1, <1>2, <2>2, Zenon DEF Permissions
    <2>3. QED
      BY <2>1, <2>2
  <1>5. PICK f : f = FormatModeHuman(v)
    OBVIOUS
  <1>6. f \in Seq(Letters) /\ Len(f) = 10 /\ ShowsAll(f, v)
    BY <1>5, FormatShows
  <1>7. PICK q : q = Tail(f)
    OBVIOUS
  <1>8. q \in Seq(Letters) /\ Len(q) = 9
    BY <1>6, <1>7, TailChars
  <1>9. ShowsAll(q, v)
    BY <1>6, <1>7, TailShows
  <1>10. p = q
    BY <1>3, <1>4, <1>8, <1>9, ShownOnce
  <1>11. QED
    BY <1>1, <1>2, <1>5, <1>7, <1>10

(* Every character of a type is written for some type. *)
LEMMA TypeIsWritten ==
  ASSUME NEW c \in TypeChars, NEW v \in Modes
  PROVE  \E type \in FileTypes : FileTypeChar(PermissionBits * type + v) = c
  <1>1. \A type \in FileTypes : TypeOf(PermissionBits * type + v) = type
    BY DEF FileTypes, TypeOf, PermissionBits, Modes
  <1>2. \A type \in FileTypes :
          FileTypeChar(PermissionBits * type + v) =
            CASE type = 8 -> "-" [] type = 4 -> "d" [] type = 10 -> "l" [] type = 2 -> "c"
              [] type = 6 -> "b" [] type = 1 -> "p" [] type = 12 -> "s" [] OTHER -> "?"
    BY <1>1 DEF FileTypeChar, Is, Types
  <1>3. 0 \in FileTypes /\ 1 \in FileTypes /\ 2 \in FileTypes /\ 4 \in FileTypes
        /\ 6 \in FileTypes /\ 8 \in FileTypes /\ 10 \in FileTypes /\ 12 \in FileTypes
    BY DEF FileTypes
  <1>4. QED
    BY <1>2, <1>3 DEF TypeChars

(* The permissions of a mode that has a type. *)
LEMMA TypeAndMode ==
  ASSUME NEW type \in FileTypes, NEW v \in Modes
  PROVE  (PermissionBits * type + v) % PermissionBits = v
  <1>1. type \in 0 .. 15 /\ v \in 0 .. 4095
    BY DEF FileTypes, Modes
  <1>2. PICK y \in 0 .. 15, w \in 0 .. 4095 : y = type /\ w = v
    BY <1>1
  <1>3. PICK m \in Int : m = 4096 * y + w
    OBVIOUS
  <1>4. m \div 4096 = y
    BY <1>3
  <1>5. m % 4096 = w
    BY <1>3, <1>4
  <1>6. QED
    BY <1>2, <1>3, <1>5 DEF PermissionBits

(* A text with its type is that character and the permissions. *)
LEMMA TypeAndPermissions ==
  ASSUME NEW S, NEW t \in Seq(S), NEW Q, NEW f \in Seq(Q), Len(t) = 10, Len(f) = 10,
         t[1] = f[1], Tail(t) = Tail(f)
  PROVE  t = f
  <1>1. \A i \in 1 .. 9 : Tail(t)[i] = t[i + 1]
    BY TailChars
  <1>2. \A i \in 1 .. 9 : Tail(f)[i] = f[i + 1]
    BY TailChars
  <1>3. \A i \in 1 .. 9 : t[i + 1] = f[i + 1]
    BY <1>1, <1>2, Zenon
  <1>4. \A i \in 1 .. 10 : t[i] = f[i]
    <2>1. TAKE i \in 1 .. 10
    <2>2. CASE i = 1
      BY <2>2
    <2>3. CASE i # 1
      <3>1. i - 1 \in 1 .. 9 /\ (i - 1) + 1 = i
        BY <2>3
      <3>2. QED
        BY <1>3, <3>1
    <2>4. QED
      BY <2>2, <2>3
  <1>5. QED
    BY <1>4

(* The formatter writes the text for a mode with the permissions m. *)
Printed(t, m) ==
  \/ t = Tail(FormatModeHuman(m))
  \/ \E type \in FileTypes : t = FormatModeHuman(PermissionBits * type + m)

(* Every text that is accepted is written for the mode that is made of it. *)
LEMMA AcceptedIsPrinted ==
  ASSUME NEW S, NEW t \in Seq(S), NEW v, v = ParseModeHuman(t), v # Invalid
  PROVE  v \in Modes /\ Printed(t, v)
  <1>1. v \in Modes /\ Tail(FormatModeHuman(v)) = Permissions(t)
    BY WrittenAgain
  <1>2. Formed(t)
    BY ParsedShowsAll
  <1>3. CASE Len(t) = 10
    <2>1. PICK type \in FileTypes : FileTypeChar(PermissionBits * type + v) = t[1]
      BY <1>1, <1>2, <1>3, TypeIsWritten DEF Formed
    <2>2. PICK m \in Nat : m = PermissionBits * type + v
      <3>1. type \in Nat /\ v \in Nat /\ PermissionBits \in Nat
        BY <1>1, ModeOfModes DEF FileTypes, PermissionBits
      <3>2. QED
        BY <3>1
    <2>3. m % PermissionBits = v
      BY <1>1, <2>2, TypeAndMode
    <2>4. PICK f : f = FormatModeHuman(m)
      OBVIOUS
    <2>5. f \in Seq(Letters) /\ Len(f) = 10
      BY <2>4, FormatShows
    <2>6. f[1] = t[1]
      <3>1. f[1] = FileTypeChar(m)
        BY <2>4, FormatChars
      <3>2. QED
        BY <2>1, <2>2, <3>1
    <2>7. ParseModeHuman(f) = v
      <3>1. ParseModeHuman(f) = m % PermissionBits
        BY <2>2, <2>4, HumanRoundTrip DEF PermissionBits
      <3>2. QED
        BY <2>3, <3>1
    <2>8. Tail(FormatModeHuman(v)) = Permissions(f)
      BY <1>1, <2>5, <2>7, WrittenAgain
    <2>9. Tail(t) = Tail(f)
      BY <1>1, <1>3, <2>5, <2>8, Zenon DEF Permissions
    <2>10. t = f
      BY <1>3, <2>5, <2>6, <2>9, TypeAndPermissions
    <2>11. QED
      BY <1>1, <2>2, <2>4, <2>10, Zenon DEF Printed
  <1>4. CASE Len(t) # 10
    BY <1>1, <1>4, Zenon DEF Permissions, Printed
  <1>5. QED
    BY <1>3, <1>4

(* Every triple of a printable text shows some mode. *)
LEMMA PrintableShows ==
  ASSUME NEW S, NEW p \in Seq(S), PermissionsPrintable(p)
  PROVE  /\ \E m \in Nat : Shows(p, 1, m, 64, 2048, "s", "S")
         /\ \E m \in Nat : Shows(p, 4, m, 8, 1024, "s", "S")
         /\ \E m \in Nat : Shows(p, 7, m, 1, 512, "t", "T")
  <1>1. Len(p) = 9
    BY DEF PermissionsPrintable
  <1>2. \E m \in Nat : Shows(p, 1, m, 64, 2048, "s", "S")
    <2>1. PICK three : three = SubSeq(p, 1, 3)
      OBVIOUS
    <2>2. three[1] = p[1] /\ three[2] = p[2] /\ three[3] = p[3]
      <3>1. /\ SubSeq(p, 1, 1 + 2)[1] = p[1] /\ SubSeq(p, 1, 1 + 2)[2] = p[1 + 1]
            /\ SubSeq(p, 1, 1 + 2)[3] = p[1 + 2]
        BY <1>1, ThreeOf
      <3>2. QED
        BY <2>1, <3>1
    <2>3. three \in TriplesAt(2, 64, 2048)
      BY <2>1 DEF PermissionsPrintable
    <2>4. PICK bits \in 0 .. 7, b \in 0 .. 1 :
            three = SubSeq(FormatModeHuman(64 * bits + 2048 * b), 2, 2 + 2)
      BY <2>3 DEF TriplesAt
    <2>5. PICK m \in Nat : m = 64 * bits + 2048 * b
      OBVIOUS
    <2>6. PICK f : f = FormatModeHuman(m)
      OBVIOUS
    <2>7. f \in Seq(Letters) /\ Len(f) = 10 /\ Shows(f, 2, m, 64, 2048, "s", "S")
      BY <2>6, FormatShows DEF ShowsAll, Base
    <2>8. /\ SubSeq(f, 2, 2 + 2)[1] = f[2] /\ SubSeq(f, 2, 2 + 2)[2] = f[2 + 1]
          /\ SubSeq(f, 2, 2 + 2)[3] = f[2 + 2]
      BY <2>7, ThreeOf
    <2>9. Shows(p, 1, m, 64, 2048, "s", "S")
      BY <2>2, <2>4, <2>5, <2>6, <2>7, <2>8 DEF Shows
    <2>10. QED
      BY <2>9
  <1>3. \E m \in Nat : Shows(p, 4, m, 8, 1024, "s", "S")
    <2>1. PICK three : three = SubSeq(p, 4, 6)
      OBVIOUS
    <2>2. three[1] = p[4] /\ three[2] = p[5] /\ three[3] = p[6]
      <3>1. /\ SubSeq(p, 4, 4 + 2)[1] = p[4] /\ SubSeq(p, 4, 4 + 2)[2] = p[4 + 1]
            /\ SubSeq(p, 4, 4 + 2)[3] = p[4 + 2]
        BY <1>1, ThreeOf
      <3>2. QED
        BY <2>1, <3>1
    <2>3. three \in TriplesAt(5, 8, 1024)
      BY <2>1 DEF PermissionsPrintable
    <2>4. PICK bits \in 0 .. 7, b \in 0 .. 1 :
            three = SubSeq(FormatModeHuman(8 * bits + 1024 * b), 5, 5 + 2)
      BY <2>3 DEF TriplesAt
    <2>5. PICK m \in Nat : m = 8 * bits + 1024 * b
      OBVIOUS
    <2>6. PICK f : f = FormatModeHuman(m)
      OBVIOUS
    <2>7. f \in Seq(Letters) /\ Len(f) = 10 /\ Shows(f, 5, m, 8, 1024, "s", "S")
      BY <2>6, FormatShows DEF ShowsAll, Base
    <2>8. /\ SubSeq(f, 5, 5 + 2)[1] = f[5] /\ SubSeq(f, 5, 5 + 2)[2] = f[5 + 1]
          /\ SubSeq(f, 5, 5 + 2)[3] = f[5 + 2]
      BY <2>7, ThreeOf
    <2>9. Shows(p, 4, m, 8, 1024, "s", "S")
      BY <2>2, <2>4, <2>5, <2>6, <2>7, <2>8 DEF Shows
    <2>10. QED
      BY <2>9
  <1>4. \E m \in Nat : Shows(p, 7, m, 1, 512, "t", "T")
    <2>1. PICK three : three = SubSeq(p, 7, 9)
      OBVIOUS
    <2>2. three[1] = p[7] /\ three[2] = p[8] /\ three[3] = p[9]
      <3>1. /\ SubSeq(p, 7, 7 + 2)[1] = p[7] /\ SubSeq(p, 7, 7 + 2)[2] = p[7 + 1]
            /\ SubSeq(p, 7, 7 + 2)[3] = p[7 + 2]
        BY <1>1, ThreeOf
      <3>2. QED
        BY <2>1, <3>1
    <2>3. three \in TriplesAt(8, 1, 512)
      BY <2>1 DEF PermissionsPrintable
    <2>4. PICK bits \in 0 .. 7, b \in 0 .. 1 :
            three = SubSeq(FormatModeHuman(1 * bits + 512 * b), 8, 8 + 2)
      BY <2>3 DEF TriplesAt
    <2>5. PICK m \in Nat : m = 1 * bits + 512 * b
      OBVIOUS
    <2>6. PICK f : f = FormatModeHuman(m)
      OBVIOUS
    <2>7. f \in Seq(Letters) /\ Len(f) = 10 /\ Shows(f, 8, m, 1, 512, "t", "T")
      BY <2>6, FormatShows DEF ShowsAll, Base
    <2>8. /\ SubSeq(f, 8, 8 + 2)[1] = f[8] /\ SubSeq(f, 8, 8 + 2)[2] = f[8 + 1]
          /\ SubSeq(f, 8, 8 + 2)[3] = f[8 + 2]
      BY <2>7, ThreeOf
    <2>9. Shows(p, 7, m, 1, 512, "t", "T")
      BY <2>2, <2>4, <2>5, <2>6, <2>7, <2>8 DEF Shows
    <2>10. QED
      BY <2>9
  <1>5. QED
    BY <1>2, <1>3, <1>4

(* Bits add up to a number, never to Invalid. *)
LEMMA WeightsAreNumbers ==
  ASSUME NEW m, NEW a \in Nat, NEW b \in Nat, NEW c \in Nat, NEW d \in Nat
  PROVE  Weight(m, a) + Weight(m, b) + Weight(m, c) + Weight(m, d) \in Nat
  <1>1. /\ Weight(m, a) \in Nat /\ Weight(m, b) \in Nat /\ Weight(m, c) \in Nat
        /\ Weight(m, d) \in Nat
    BY DEF Weight
  <1>2. QED
    BY <1>1

(* The parser accepts every printable text, with any type or none. *)
LEMMA AcceptsAllPrintable ==
  ASSUME NEW S, NEW t \in Seq(S), NEW p, p = Permissions(t), PermissionsPrintable(p),
         Len(t) = 10 => t[1] \in TypeChars
  PROVE  ParseModeHuman(t) # Invalid
  <1>1. Len(t) \in {9, 10}
    BY DEF PermissionsPrintable, Permissions
  <1>2. Formed(t)
    BY <1>1 DEF Formed
  <1>3. PICK base \in 0 .. 1 : base = Base(t) /\ Len(t) = base + 9
    BY <1>1 DEF Base
  <1>4. p \in Seq(S) /\ \A i \in 1 .. 9 : p[i] = t[base + i]
    BY <1>1, <1>3, PermissionChars
  <1>5. /\ \E m \in Nat : Shows(p, 1, m, 64, 2048, "s", "S")
        /\ \E m \in Nat : Shows(p, 4, m, 8, 1024, "s", "S")
        /\ \E m \in Nat : Shows(p, 7, m, 1, 512, "t", "T")
    <2>1. PICK q \in Seq(S) : q = p
      BY <1>4
    <2>2. PermissionsPrintable(q)
      BY <2>1
    <2>3. /\ \E m \in Nat : Shows(q, 1, m, 64, 2048, "s", "S")
          /\ \E m \in Nat : Shows(q, 4, m, 8, 1024, "s", "S")
          /\ \E m \in Nat : Shows(q, 7, m, 1, 512, "t", "T")
      BY <2>2, PrintableShows
    <2>4. QED
      BY <2>1, <2>3
  <1>6. ParseRwxTriple(SubSeq(t, base + 1, base + 1 + 2), 64, 2048, "s", "S") \in Nat
    <2>1. PICK k \in Nat \ {0} : k = base + 1 /\ k + 2 <= Len(t)
      BY <1>3
    <2>2. PICK m \in Nat : Shows(p, 1, m, 64, 2048, "s", "S")
      BY <1>5
    <2>3. p[1] = t[k] /\ p[2] = t[k + 1] /\ p[3] = t[k + 2]
      BY <1>4, <2>1
    <2>4. Shows(t, k, m, 64, 2048, "s", "S")
      BY <2>2, <2>3 DEF Shows
    <2>5. ParseRwxTriple(SubSeq(t, k, k + 2), 64, 2048, "s", "S") =
            Weight(m, 4 * 64) + Weight(m, 2 * 64) + Weight(m, 64) + Weight(m, 2048)
      BY <2>1, <2>4, ParseShown
    <2>6. QED
      BY <2>1, <2>5, WeightsAreNumbers
  <1>7. ParseRwxTriple(SubSeq(t, base + 4, base + 4 + 2), 8, 1024, "s", "S") \in Nat
    <2>1. PICK k \in Nat \ {0} : k = base + 4 /\ k + 2 <= Len(t)
      BY <1>3
    <2>2. PICK m \in Nat : Shows(p, 4, m, 8, 1024, "s", "S")
      BY <1>5
    <2>3. p[4] = t[k] /\ p[5] = t[k + 1] /\ p[6] = t[k + 2]
      BY <1>4, <2>1
    <2>4. Shows(t, k, m, 8, 1024, "s", "S")
      BY <2>2, <2>3 DEF Shows
    <2>5. ParseRwxTriple(SubSeq(t, k, k + 2), 8, 1024, "s", "S") =
            Weight(m, 4 * 8) + Weight(m, 2 * 8) + Weight(m, 8) + Weight(m, 1024)
      BY <2>1, <2>4, ParseShown
    <2>6. QED
      BY <2>1, <2>5, WeightsAreNumbers
  <1>8. ParseRwxTriple(SubSeq(t, base + 7, base + 7 + 2), 1, 512, "t", "T") \in Nat
    <2>1. PICK k \in Nat \ {0} : k = base + 7 /\ k + 2 <= Len(t)
      BY <1>3
    <2>2. PICK m \in Nat : Shows(p, 7, m, 1, 512, "t", "T")
      BY <1>5
    <2>3. p[7] = t[k] /\ p[8] = t[k + 1] /\ p[9] = t[k + 2]
      BY <1>4, <2>1
    <2>4. Shows(t, k, m, 1, 512, "t", "T")
      BY <2>2, <2>3 DEF Shows
    <2>5. ParseRwxTriple(SubSeq(t, k, k + 2), 1, 512, "t", "T") =
            Weight(m, 4 * 1) + Weight(m, 2 * 1) + Weight(m, 1) + Weight(m, 512)
      BY <2>1, <2>4, ParseShown
    <2>6. QED
      BY <2>1, <2>5, WeightsAreNumbers
  <1>9. PICK user, group, other :
          /\ user = ParseRwxTriple(SubSeq(t, base + 1, base + 1 + 2), 64, 2048, "s", "S")
          /\ group = ParseRwxTriple(SubSeq(t, base + 4, base + 4 + 2), 8, 1024, "s", "S")
          /\ other = ParseRwxTriple(SubSeq(t, base + 7, base + 7 + 2), 1, 512, "t", "T")
    OBVIOUS
  <1>10. ParseModeHuman(t) =
           IF Invalid \in {user, group, other} THEN Invalid ELSE user + group + other
    BY <1>2, <1>3, <1>9, ParseFormed
  <1>11. user \in Nat /\ group \in Nat /\ other \in Nat
    BY <1>6, <1>7, <1>8, <1>9
  <1>12. QED
    BY <1>10, <1>11 DEF Invalid

-----------------------------------------------------------------------------
(* The account whose name was looked up. *)
FromNothing ==
  /\ step \in {"nothing", "name", "account", "refused"}
  /\ step \in {"name", "account"} => id \in DOMAIN Accounts /\ text = Accounts[id]
  /\ step = "account" => mode = id

(* A mode with the permissions of the file. *)
OfFile(m) == m \in Nat /\ m % PermissionBits = st_mode % PermissionBits

(* The mode of a file, and the texts that were made of it. *)
FromFile ==
  /\ step \in {"stat", "human", "octal", "mode"}
  /\ step = "stat" => mode = st_mode
  /\ step = "human" =>
       \E m \in Nat : OfFile(m) /\ text \in {FormatModeHuman(m), Tail(FormatModeHuman(m))}
  /\ step = "octal" => \E m \in Nat : OfFile(m) /\ text = FormatModeOctal(m)
  /\ step = "mode" => mode = st_mode % PermissionBits

(* The mode m is written like the text. *)
Written(t, m) == m \in Modes /\ Printed(t, m)

(* A text that the formatter does not write. *)
Unknown(t) ==
  ~ PermissionsPrintable(Permissions(t)) \/ (Len(t) = 10 /\ t[1] \notin TypesPrinted)

(* Permissions that somebody typed. *)
FromHuman(t) ==
  /\ step \in {"human", "octal", "mode", "refused"}
  /\ step = "human" => text = t \/ (text = FormatModeHuman(mode) /\ Written(t, mode))
  /\ step = "octal" => text = FormatModeOctal(mode) /\ Written(t, mode)
  /\ step = "mode" => Written(t, mode)
  /\ step = "refused" => Unknown(t)

(* A number that somebody typed. *)
FromOctal(t) ==
  /\ step \in {"human", "octal", "mode", "refused"}
  /\ step = "human" => text = FormatModeHuman(mode) /\ Numbered(t, mode)
  /\ step = "octal" => text = t \/ (text = FormatModeOctal(mode) /\ Numbered(t, mode))
  /\ step = "mode" => Numbered(t, mode)
  /\ step = "refused" => NoNumber(t)

(* Where the text and the mode came from. *)
Traced ==
  \/ origin = <<>> /\ FromNothing
  \/ origin = <<"file">> /\ FromFile
  \/ \E t \in HumanTexts : origin = <<"human", t>> /\ FromHuman(t)
  \/ \E t \in OctalTexts : origin = <<"octal", t>> /\ FromOctal(t)

(* The inductive invariant. *)
Inv == TypeOK /\ st = FillFromStructStat(st_mode) /\ Traced

-----------------------------------------------------------------------------
(* The mode of a file is a number. *)
LEMMA StModesAreNumbers == 0 \in StModes /\ \A m \in StModes : m \in Nat
  BY SMTT(40) DEF StModes

(* What bc_io_file_stat makes of a mode. *)
LEMMA FillTypes ==
  ASSUME NEW m \in StModes
  PROVE  LET s == FillFromStructStat(m) IN
         /\ s.flags \subseteq DOMAIN Types /\ s.mode = m % PermissionBits
         /\ s.mode \in 0 .. PermissionBits - 1
  <1>1. m % PermissionBits \in 0 .. PermissionBits - 1
    <2>1. m \in Nat
      BY StModesAreNumbers
    <2>2. QED
      BY <2>1, SMTT(30) DEF PermissionBits
  <1>2. /\ FillFromStructStat(m).flags = {kind \in DOMAIN Types : Is(kind, m)}
        /\ FillFromStructStat(m).mode = m % PermissionBits
    BY DEF FillFromStructStat
  <1>3. QED
    BY <1>1, <1>2

(* The origins differ. *)
LEMMA OriginsDiffer ==
  /\ <<"file">> # <<>> /\ <<"file">>[1] = "file"
  /\ \A t : /\ <<"human", t>> # <<>> /\ <<"human", t>> # <<"file">> /\ <<"octal", t>> # <<>>
           /\ <<"octal", t>> # <<"file">>
           /\ <<"human", t>>[1] = "human" /\ <<"human", t>>[2] = t
           /\ <<"octal", t>>[1] = "octal" /\ <<"octal", t>>[2] = t
  OBVIOUS

(* The variables of TypeOK. *)
LEMMA TypesFollow ==
  ASSUME step \in Steps, st_mode \in StModes, mode \in Nat, st = FillFromStructStat(st_mode),
         id \in DOMAIN Accounts \cup {-1}
  PROVE  TypeOK
  BY FillTypes DEF TypeOK

(* The program starts without anything. *)
LEMMA InitInv == Init => Inv
  <1>1. SUFFICES ASSUME Init PROVE Inv
    OBVIOUS
  <1>2. TypeOK
    <2>1. 0 \in StModes
      BY StModesAreNumbers
    <2>2. /\ step = "nothing" /\ st_mode = 0 /\ mode = 0 /\ id = -1
          /\ st = FillFromStructStat(st_mode)
      BY <1>1, Zenon DEF Init
    <2>3. step \in Steps /\ mode \in Nat /\ id \in DOMAIN Accounts \cup {-1}
      BY <2>2 DEF Steps
    <2>4. QED
      BY <2>1, <2>2, <2>3, TypesFollow, Zenon
  <1>3. FromNothing /\ origin = <<>>
    <2>1. step = "nothing" /\ origin = <<>>
      BY <1>1, Zenon DEF Init
    <2>2. QED
      BY <2>1 DEF FromNothing
  <1>4. st = FillFromStructStat(st_mode)
    BY <1>1, Zenon DEF Init
  <1>5. Traced
    BY <1>3, Zenon DEF Traced
  <1>6. QED
    BY <1>2, <1>4, <1>5, Zenon DEF Inv

(* Nothing has come from anywhere yet. *)
LEMMA NothingYet == ASSUME Inv, step = "nothing" PROVE origin = <<>> /\ FromNothing
  BY DEF Inv, Traced, FromFile, FromHuman, FromOctal

(* A file, a text or a name is taken. *)
LEMMA BeginInv == ASSUME Inv, Begin PROVE Inv'
  <1>1. step = "nothing" /\ origin = <<>> /\ FromNothing
    BY NothingYet DEF Begin
  <1>2. CASE \E m \in FileModes : Stat(m)
    <2>1. PICK m \in FileModes : Stat(m)
      BY <1>2
    <2>2. m \in StModes
      BY PermAssumption
    <2>3. TypeOK'
      <3>1. st'.flags \subseteq DOMAIN Types /\ st'.mode \in 0 .. PermissionBits - 1
        BY <2>1, <2>2, FillTypes, Zenon DEF Stat
      <3>2. step' \in Steps /\ st_mode' \in StModes /\ mode' \in Nat
        <4>1. step' = "stat" /\ st_mode' = m /\ mode' = m
          BY <2>1 DEF Stat
        <4>2. m \in Nat
          BY <2>2, StModesAreNumbers
        <4>3. QED
          BY <2>2, <4>1, <4>2 DEF Steps
      <3>3. id' \in DOMAIN Accounts \cup {-1}
        BY <2>1 DEF Stat, Inv, TypeOK
      <3>4. QED
        BY <3>1, <3>2, <3>3 DEF TypeOK
    <2>4. FromFile' /\ origin' = <<"file">>
      BY <2>1 DEF Stat, FromFile
    <2>5. QED
      BY <2>1, <2>3, <2>4 DEF Inv, Traced, Stat
  <1>3. CASE \E t \in HumanTexts : TypeText("human", t)
    <2>1. PICK t \in HumanTexts : TypeText("human", t)
      BY <1>3
    <2>2. TypeOK'
      BY <2>1 DEF TypeText, TypeOK, Inv, Steps
    <2>3. FromHuman(t)' /\ origin' = <<"human", t>>
      BY <2>1 DEF TypeText, FromHuman
    <2>4. Traced'
      BY <2>3 DEF Traced
    <2>5. QED
      BY <2>1, <2>2, <2>4 DEF Inv, TypeText
  <1>4. CASE \E t \in OctalTexts : TypeText("octal", t)
    <2>1. PICK t \in OctalTexts : TypeText("octal", t)
      BY <1>4
    <2>2. TypeOK'
      BY <2>1 DEF TypeText, TypeOK, Inv, Steps
    <2>3. FromOctal(t)' /\ origin' = <<"octal", t>>
      BY <2>1 DEF TypeText, FromOctal
    <2>4. Traced'
      BY <2>3 DEF Traced
    <2>5. QED
      BY <2>1, <2>2, <2>4 DEF Inv, TypeText
  <1>5. CASE \E i \in DOMAIN Accounts, capacity \in Capacities : ResolveName(i, capacity)
    <2>1. PICK i \in DOMAIN Accounts, capacity \in Capacities : ResolveName(i, capacity)
      BY <1>5
    <2>2. \/ text' = Accounts[i] /\ id' = i /\ step' = "name"
          \/ step' = "refused" /\ UNCHANGED <<text, id>>
      BY <2>1 DEF ResolveName, CopyString
    <2>3. TypeOK'
      BY <2>1, <2>2 DEF ResolveName, TypeOK, Inv, Steps
    <2>4. FromNothing' /\ origin' = <<>>
      BY <1>1, <2>1, <2>2 DEF ResolveName, FromNothing
    <2>5. QED
      BY <2>1, <2>3, <2>4 DEF Inv, Traced, ResolveName
  <1>6. QED
    BY <1>2, <1>3, <1>4, <1>5 DEF Begin

-----------------------------------------------------------------------------
(* A mode is written; it keeps its permissions. *)
LEMMA FormatInv ==
  ASSUME Inv, NEW kind \in {"human", "octal"}, NEW capacity, Format(kind, capacity) PROVE Inv'
  <1>1. /\ step \in {"stat", "mode"} /\ step' = kind
        /\ UNCHANGED <<st_mode, st, origin, mode, id>>
    BY DEF Format
  <1>2. PICK m \in {mode, IF step = "stat" THEN st.mode ELSE mode} :
          text' = IF kind = "human" THEN FormatModeHuman(m) ELSE FormatModeOctal(m)
    BY DEF Format
  <1>3. TypeOK'
    BY <1>1 DEF Inv, TypeOK, Steps
  <1>4. st_mode' = st_mode /\ st' = st /\ st = FillFromStructStat(st_mode)
    BY <1>1 DEF Inv
  <1>5. CASE origin = <<>> /\ FromNothing
    BY <1>1, <1>5 DEF FromNothing
  <1>6. CASE origin = <<"file">> /\ FromFile
    <2>1. OfFile(m)
      <3>1. st_mode \in StModes
        BY DEF Inv, TypeOK
      <3>2. st_mode \in Nat /\ (st_mode % 4096) \in Nat /\ (st_mode % 4096) % 4096 = st_mode % 4096
        BY <3>1, StModesAreNumbers
      <3>3. m = st_mode \/ m = st_mode % PermissionBits
        <4>1. step = "stat" => mode = st_mode /\ st.mode = st_mode % PermissionBits
          BY <1>4, <1>6, <3>1, FillTypes DEF FromFile
        <4>2. step = "mode" => mode = st_mode % PermissionBits
          BY <1>6 DEF FromFile
        <4>3. QED
          BY <1>1, <4>1, <4>2
      <3>4. QED
        BY <3>2, <3>3 DEF OfFile, PermissionBits
    <2>2. OfFile(m)' /\ m \in Nat
      BY <1>1, <2>1 DEF OfFile
    <2>3. FromFile'
      BY <1>1, <1>2, <2>2 DEF FromFile
    <2>4. Traced'
      BY <1>1, <1>6, <2>3 DEF Traced
    <2>5. QED
      BY <1>3, <1>4, <2>4, Zenon DEF Inv
  <1>7. ASSUME NEW t \in HumanTexts, origin = <<"human", t>>, FromHuman(t) PROVE Inv'
    <2>1. step = "mode" /\ Written(t, mode) /\ m = mode
      BY <1>1, <1>2, <1>7 DEF FromHuman
    <2>2. Written(t, mode)'
      BY <1>1, <2>1 DEF Written
    <2>3. FromHuman(t)'
      BY <1>1, <1>2, <2>1, <2>2 DEF FromHuman
    <2>4. Traced'
      BY <1>1, <1>7, <2>3 DEF Traced
    <2>5. QED
      BY <1>3, <1>4, <2>4, Zenon DEF Inv
  <1>8. ASSUME NEW t \in OctalTexts, origin = <<"octal", t>>, FromOctal(t) PROVE Inv'
    <2>1. step = "mode" /\ Numbered(t, mode) /\ m = mode
      BY <1>1, <1>2, <1>8 DEF FromOctal
    <2>2. Numbered(t, mode)'
      BY <1>1, <2>1 DEF Numbered
    <2>3. FromOctal(t)'
      BY <1>1, <1>2, <2>1, <2>2 DEF FromOctal
    <2>4. Traced'
      BY <1>1, <1>8, <2>3 DEF Traced
    <2>5. QED
      BY <1>3, <1>4, <2>4, Zenon DEF Inv
  <1>9. QED
    BY <1>5, <1>6, <1>7, <1>8 DEF Inv, Traced

(* The type is left out of a text that was written for a file. *)
LEMMA DropTypeInv == ASSUME Inv, DropType PROVE Inv'
  <1>1. /\ step = "human" /\ origin = <<"file">> /\ Len(text) = 10 /\ text' = Tail(text)
        /\ UNCHANGED <<step, st_mode, st, origin, mode, id>>
    BY DEF DropType
  <1>2. FromFile
    BY <1>1, OriginsDiffer, Zenon DEF Inv, Traced
  <1>3. PICK m \in Nat : OfFile(m) /\ text \in {FormatModeHuman(m), Tail(FormatModeHuman(m))}
    BY <1>1, <1>2 DEF FromFile
  <1>4. text = FormatModeHuman(m)
    <2>1. PICK f : f = FormatModeHuman(m)
      OBVIOUS
    <2>2. f \in Seq(Letters) /\ Len(f) = 10
      BY <2>1, FormatShows
    <2>3. PICK q : q = Tail(f)
      OBVIOUS
    <2>4. Len(q) = 9
      BY <2>2, <2>3, TailChars
    <2>5. text # q
      <3>1. 9 # 10
        OBVIOUS
      <3>2. QED
        BY <1>1, <2>4, <3>1, Zenon
    <2>6. QED
      BY <1>3, <2>1, <2>3, <2>5, Zenon
  <1>5. OfFile(m)'
    BY <1>1, <1>3 DEF OfFile
  <1>6. FromFile'
    BY <1>1, <1>4, <1>5, Zenon DEF FromFile
  <1>7. Traced'
    BY <1>1, <1>6, Zenon DEF Traced
  <1>8. TypeOK'
    BY <1>1 DEF Inv, TypeOK
  <1>9. QED
    BY <1>1, <1>7, <1>8 DEF Inv

(* What the parser makes of the text. *)
Parsed == IF step = "human" THEN ParseModeHuman(text) ELSE ParseModeOctal(text)

(* A text is read, and accepted or refused. *)
LEMMA ParseStep ==
  ASSUME Inv, Parse
  PROVE  /\ step \in {"human", "octal"} /\ UNCHANGED <<st_mode, st, origin, text, id>>
         /\ \/ Parsed # Invalid /\ mode' = Parsed /\ step' = "mode"
            \/ Parsed = Invalid /\ mode' = mode /\ step' = "refused"
  BY DEF Parse, Parsed

(* The invariant is kept if the parser's result is traced. *)
LEMMA ParseKeeps ==
  ASSUME Inv, Parse, Parsed # Invalid => Parsed \in Modes, Traced' PROVE Inv'
  <1>1. step' \in Steps /\ mode' \in Nat
    BY ParseStep, ModeOfModes DEF Inv, TypeOK, Steps
  <1>2. TypeOK'
    BY <1>1, ParseStep DEF Inv, TypeOK
  <1>3. st' = FillFromStructStat(st_mode)'
    BY ParseStep DEF Inv
  <1>4. QED
    BY <1>2, <1>3, Zenon DEF Inv

(* A text that was written for a file. *)
LEMMA ParseFile == ASSUME Inv, Parse, origin = <<"file">>, FromFile PROVE Inv'
  <1>1. Parsed = st_mode % PermissionBits
    <2>1. CASE step = "human"
      <3>1. PICK m \in Nat : OfFile(m) /\ text \in {FormatModeHuman(m), Tail(FormatModeHuman(m))}
        BY <2>1 DEF FromFile
      <3>2. ParseModeHuman(text) = m % 4096
        <4>1. text = FormatModeHuman(m) \/ text = Tail(FormatModeHuman(m))
          BY <3>1, Zenon
        <4>2. QED
          BY <4>1, HumanRoundTrip
      <3>3. QED
        BY <2>1, <3>1, <3>2 DEF OfFile, PermissionBits, Parsed
    <2>2. CASE step = "octal"
      <3>1. PICK m \in Nat : OfFile(m) /\ text = FormatModeOctal(m)
        BY <2>2 DEF FromFile
      <3>2. ParseModeOctal(text) = m % 4096
        BY <3>1, OctalRoundTrip
      <3>3. QED
        BY <2>2, <3>1, <3>2 DEF OfFile, PermissionBits, Parsed
    <2>3. QED
      BY <2>1, <2>2, ParseStep
  <1>2. Parsed \in Modes /\ Parsed # Invalid
    <2>1. st_mode \in StModes
      BY DEF Inv, TypeOK
    <2>2. st_mode \in Nat
      BY <2>1, StModesAreNumbers
    <2>3. QED
      BY <1>1, <2>2, SMTT(30) DEF PermissionBits, Modes, Invalid
  <1>3. mode' = st_mode % PermissionBits /\ step' = "mode" /\ st_mode' = st_mode /\ origin' = origin
    BY <1>1, <1>2, ParseStep
  <1>4. FromFile'
    BY <1>3 DEF FromFile
  <1>5. Traced'
    BY <1>3, <1>4, Zenon DEF Traced
  <1>6. QED
    BY <1>2, <1>5, ParseKeeps

(* A mode that is written and read is the same mode. *)
LEMMA ModeAgain ==
  ASSUME mode \in Modes, step \in {"human", "octal"},
         text = IF step = "human" THEN FormatModeHuman(mode) ELSE FormatModeOctal(mode)
  PROVE  Parsed = mode
  <1>1. mode \in Nat /\ mode % 4096 = mode
    BY ModeOfModes
  <1>2. CASE step = "human"
    BY <1>1, <1>2, HumanRoundTrip DEF Parsed
  <1>3. CASE step = "octal"
    BY <1>1, <1>3, OctalRoundTrip DEF Parsed
  <1>4. QED
    BY <1>2, <1>3

(* Permissions that somebody typed. *)
LEMMA ParseHuman ==
  ASSUME Inv, Parse,
         NEW t \in HumanTexts, origin = <<"human", t>>, FromHuman(t)
  PROVE  Inv'
  <1>1. t \in Seq(STRING)
    BY PermAssumption
  <1>2. \/ step = "human" /\ text = t /\ Parsed = ParseModeHuman(t)
        \/ Parsed = mode /\ Written(t, mode)
    BY ParseStep, ModeAgain DEF FromHuman, Written, Parsed
  <1>3. Parsed # Invalid => Written(t, Parsed)
    BY <1>1, <1>2, AcceptedIsPrinted DEF Written
  <1>4. Parsed = Invalid => Unknown(t)
    <2>1. \A m \in Modes : m # Invalid
      BY DEF Modes, Invalid
    <2>2. CASE Parsed = ParseModeHuman(t)
      <3>1. TypesPrinted \subseteq TypeChars
        BY TypeCharIsKnown DEF TypesPrinted
      <3>2. QED
        BY <1>1, <2>2, <3>1, AcceptsAllPrintable DEF Unknown
    <2>3. QED
      BY <1>2, <2>1, <2>2 DEF Written
  <1>5. FromHuman(t)'
    BY <1>3, <1>4, ParseStep DEF FromHuman, Written, Unknown
  <1>6. Traced'
    BY <1>5, ParseStep DEF Traced
  <1>7. QED
    BY <1>3, <1>6, ParseKeeps DEF Written

(* A number that somebody typed. *)
LEMMA ParseOctal ==
  ASSUME Inv, Parse,
         NEW t \in OctalTexts, origin = <<"octal", t>>, FromOctal(t)
  PROVE  Inv'
  <1>1. t \in Seq(0 .. 9)
    BY PermAssumption
  <1>2. \/ step = "octal" /\ text = t /\ Parsed = ParseModeOctal(t)
        \/ Parsed = mode /\ Numbered(t, mode)
    BY ParseStep, ModeAgain DEF FromOctal, Numbered, Parsed
  <1>3. Parsed # Invalid => Numbered(t, Parsed)
    BY <1>1, <1>2, OctalWrittenAgain
  <1>4. Parsed = Invalid => NoNumber(t)
    <2>1. \A m \in Modes : m # Invalid
      BY DEF Modes, Invalid
    <2>2. QED
      BY <1>1, <1>2, <2>1, OctalRefused DEF Numbered
  <1>5. FromOctal(t)'
    BY <1>3, <1>4, ParseStep DEF FromOctal, Numbered, NoNumber
  <1>6. Traced'
    BY <1>5, ParseStep DEF Traced
  <1>7. QED
    BY <1>3, <1>6, ParseKeeps DEF Numbered

(* A text is read. *)
LEMMA ParseInv == ASSUME Inv, Parse PROVE Inv'
  <1>1. ~ FromNothing
    BY ParseStep DEF FromNothing
  <1>2. QED
    BY <1>1, ParseFile, ParseHuman, ParseOctal DEF Inv, Traced

(* The name of an account is looked up; no other account has it. *)
LEMMA ResolveIdInv == ASSUME Inv, ResolveId PROVE Inv'
  <1>1. step = "name" /\ UNCHANGED <<st_mode, st, origin, text, id>>
    BY DEF ResolveId
  <1>2. origin = <<>> /\ FromNothing
    BY <1>1 DEF Inv, Traced, FromFile, FromHuman, FromOctal
  <1>3. id \in DOMAIN Accounts /\ text = Accounts[id]
    BY <1>1, <1>2 DEF FromNothing
  <1>4. \/ mode' = id /\ step' = "account"
        \/ mode' = mode /\ step' = "refused"
    <2>1. \/ \E i \in DOMAIN Accounts : Accounts[i] = text /\ mode' = i /\ step' = "account"
          \/ mode' = mode /\ step' = "refused"
      BY DEF ResolveId, CopyToZeroTerminated
    <2>2. QED
      BY <1>3, <2>1, PermAssumption
  <1>5. TypeOK'
    <2>1. id \in Nat
      BY <1>3, PermAssumption
    <2>2. QED
      BY <1>1, <1>4, <2>1 DEF Inv, TypeOK, Steps
  <1>6. FromNothing' /\ origin' = <<>>
    BY <1>1, <1>2, <1>3, <1>4 DEF FromNothing
  <1>7. QED
    BY <1>1, <1>5, <1>6 DEF Inv, Traced

(* Nothing happens. *)
LEMMA StutterInv == ASSUME Inv, UNCHANGED vars PROVE Inv'
  <1>1. /\ step' = step /\ st_mode' = st_mode /\ st' = st /\ origin' = origin /\ text' = text
        /\ mode' = mode /\ id' = id
    BY DEF vars
  <1>2. TypeOK' /\ st' = FillFromStructStat(st_mode)'
    BY <1>1 DEF Inv, TypeOK
  <1>3. /\ FromNothing => FromNothing'
        /\ FromFile => FromFile'
        /\ \A t : FromHuman(t) => FromHuman(t)'
        /\ \A t : FromOctal(t) => FromOctal(t)'
    BY <1>1 DEF FromNothing, FromFile, OfFile, FromHuman, FromOctal
  <1>4. Traced'
    BY <1>1, <1>3 DEF Inv, Traced
  <1>5. QED
    BY <1>2, <1>4 DEF Inv

(* Every step keeps the invariant. *)
LEMMA NextInv == ASSUME Inv, [Next]_vars PROVE Inv'
  <1>1. CASE Begin
    BY <1>1, BeginInv
  <1>2. ASSUME NEW capacity \in Capacities, Format("human", capacity) \/ Format("octal", capacity)
        PROVE  Inv'
    BY <1>2, FormatInv
  <1>3. CASE DropType
    BY <1>3, DropTypeInv
  <1>4. CASE Parse
    BY <1>4, ParseInv
  <1>5. CASE ResolveId
    BY <1>5, ResolveIdInv
  <1>6. CASE UNCHANGED vars
    BY <1>6, StutterInv
  <1>7. QED
    BY <1>1, <1>2, <1>3, <1>4, <1>5, <1>6 DEF Next, Stop

(* The invariant holds of every state the program can be in. *)
LEMMA InvHolds == Spec => []Inv
  <1>1. Inv /\ [Next]_vars => Inv'
    BY NextInv
  <1>2. QED
    BY InitInv, <1>1, PTL DEF Spec

-----------------------------------------------------------------------------
(* What comes from a file stays traced to it. *)
LEMMA InvRoundTrips == ASSUME Inv PROVE RoundTrips
  <1>1. TypeOK
    BY DEF Inv
  <1>2. origin = <<"file">> =>
          step # "refused" /\ (step = "mode" => mode = st_mode % PermissionBits)
    <2>1. SUFFICES ASSUME origin = <<"file">>
                   PROVE  step # "refused" /\ (step = "mode" => mode = st_mode % PermissionBits)
      OBVIOUS
    <2>2. FromFile
      BY <2>1, OriginsDiffer, Zenon DEF Inv, Traced
    <2>3. QED
      BY <2>2 DEF FromFile
  <1>3. step = "account" => mode = id /\ text = Accounts[id]
    BY DEF Inv, Traced, FromNothing, FromFile, FromHuman, FromOctal
  <1>4. QED
    BY <1>1, <1>2, <1>3 DEF RoundTrips

(* What was typed is what is printed. *)
LEMMA InvAcceptsPrintable == ASSUME Inv PROVE AcceptsPrintable
  <1>1. \A m \in Modes : m < PermissionBits
    BY DEF Modes, PermissionBits
  <1>2. ASSUME origin # <<>>, origin[1] = "human"
        PROVE  LET typed == origin[2]
                   permissions == IF Len(typed) = 10 THEN Tail(typed) ELSE typed
               IN  /\ step = "mode" => mode < PermissionBits /\ Printed(typed, mode)
                   /\ step = "refused" =>
                        \/ ~ PermissionsPrintable(permissions)
                        \/ Len(typed) = 10 /\ typed[1] \notin TypesPrinted
    <2>1. PICK t \in HumanTexts : origin = <<"human", t>> /\ FromHuman(t)
      <3>1. origin # <<"file">> /\ \A t : origin # <<"octal", t>>
        BY <1>2, OriginsDiffer
      <3>2. QED
        BY <1>2, <3>1, Zenon DEF Inv, Traced
    <2>2. origin[2] = t
      BY <2>1
    <2>3. /\ step = "mode" => mode < PermissionBits /\ Printed(t, mode)
          /\ step = "refused" => Unknown(t)
      BY <1>1, <2>1 DEF FromHuman, Written
    <2>4. QED
      BY <2>2, <2>3, Zenon DEF Permissions, Unknown
  <1>3. ASSUME origin # <<>>, origin[1] = "octal"
        PROVE  LET typed == origin[2] IN
               /\ step = "mode" => mode < PermissionBits /\ Numbered(typed, mode)
               /\ step = "refused" => NoNumber(typed)
    <2>1. PICK t \in OctalTexts : origin = <<"octal", t>> /\ FromOctal(t)
      <3>1. origin # <<"file">> /\ \A t : origin # <<"human", t>>
        BY <1>3, OriginsDiffer
      <3>2. QED
        BY <1>3, <3>1, Zenon DEF Inv, Traced
    <2>2. origin[2] = t
      BY <2>1
    <2>3. /\ step = "mode" => mode < PermissionBits /\ Numbered(t, mode)
          /\ step = "refused" => NoNumber(t)
      BY <1>1, <2>1 DEF FromOctal, Numbered
    <2>4. QED
      BY <2>2, <2>3, Zenon
  <1>4. QED
    BY <1>2, <1>3, Zenon DEF AcceptsPrintable, Printed, Numbered, NoNumber

-----------------------------------------------------------------------------
(* The kinds of file. *)
Kinds ==
  {"fifo", "character_device", "directory", "block_device", "regular", "symlink", "socket"}

(* Their numbers. *)
LEMMA KindNumbers ==
  /\ DOMAIN Types = Kinds
  /\ Types["fifo"] = 1 /\ Types["character_device"] = 2 /\ Types["directory"] = 4
  /\ Types["block_device"] = 6 /\ Types["regular"] = 8 /\ Types["symlink"] = 10
  /\ Types["socket"] = 12
  BY DEF Types, Kinds

(* No two kinds have one number. *)
LEMMA OneKind == ASSUME NEW k \in Kinds, NEW l \in Kinds, Types[k] = Types[l] PROVE k = l
  BY KindNumbers DEF Kinds

(* Of what kind a file is tells what its character is, and its entry type. *)
LEMMA KindTells ==
  ASSUME NEW m, NEW kind \in Kinds, Is(kind, m)
  PROVE  /\ FileTypeChar(m) =
              [fifo |-> "p", character_device |-> "c", directory |-> "d", block_device |-> "b",
               regular |-> "-", symlink |-> "l", socket |-> "s"][kind]
         /\ StatIfUnknown(m) =
              IF kind = "regular" THEN "file"
              ELSE IF kind \in {"directory", "symlink"} THEN kind ELSE "other"
  <1>1. \A k \in Kinds : Is(k, m) <=> k = kind
    BY OneKind DEF Is
  <1>2. CASE kind = "fifo"
    <2>1. \A k \in Kinds : Is(k, m) <=> k = "fifo"
      BY <1>1, <1>2
    <2>2. FileTypeChar(m) = "p" /\ StatIfUnknown(m) = "other"
      BY <2>1 DEF FileTypeChar, StatIfUnknown, Kinds
    <2>3. QED
      BY <1>2, <2>2
  <1>3. CASE kind = "character_device"
    <2>1. \A k \in Kinds : Is(k, m) <=> k = "character_device"
      BY <1>1, <1>3
    <2>2. FileTypeChar(m) = "c" /\ StatIfUnknown(m) = "other"
      BY <2>1 DEF FileTypeChar, StatIfUnknown, Kinds
    <2>3. QED
      BY <1>3, <2>2
  <1>4. CASE kind = "directory"
    <2>1. \A k \in Kinds : Is(k, m) <=> k = "directory"
      BY <1>1, <1>4
    <2>2. FileTypeChar(m) = "d" /\ StatIfUnknown(m) = "directory"
      BY <2>1 DEF FileTypeChar, StatIfUnknown, Kinds
    <2>3. QED
      BY <1>4, <2>2
  <1>5. CASE kind = "block_device"
    <2>1. \A k \in Kinds : Is(k, m) <=> k = "block_device"
      BY <1>1, <1>5
    <2>2. FileTypeChar(m) = "b" /\ StatIfUnknown(m) = "other"
      BY <2>1 DEF FileTypeChar, StatIfUnknown, Kinds
    <2>3. QED
      BY <1>5, <2>2
  <1>6. CASE kind = "regular"
    <2>1. \A k \in Kinds : Is(k, m) <=> k = "regular"
      BY <1>1, <1>6
    <2>2. FileTypeChar(m) = "-" /\ StatIfUnknown(m) = "file"
      BY <2>1 DEF FileTypeChar, StatIfUnknown, Kinds
    <2>3. QED
      BY <1>6, <2>2
  <1>7. CASE kind = "symlink"
    <2>1. \A k \in Kinds : Is(k, m) <=> k = "symlink"
      BY <1>1, <1>7
    <2>2. FileTypeChar(m) = "l" /\ StatIfUnknown(m) = "symlink"
      BY <2>1 DEF FileTypeChar, StatIfUnknown, Kinds
    <2>3. QED
      BY <1>7, <2>2
  <1>8. CASE kind = "socket"
    <2>1. \A k \in Kinds : Is(k, m) <=> k = "socket"
      BY <1>1, <1>8
    <2>2. FileTypeChar(m) = "s" /\ StatIfUnknown(m) = "other"
      BY <2>1 DEF FileTypeChar, StatIfUnknown, Kinds
    <2>3. QED
      BY <1>8, <2>2
  <1>9. QED
    BY <1>2, <1>3, <1>4, <1>5, <1>6, <1>7, <1>8 DEF Kinds

(* A mode without a type has the character for an unknown one. *)
LEMMA NoKind ==
  ASSUME NEW m, \A k \in Kinds : ~ Is(k, m) PROVE FileTypeChar(m) = "?"
  BY DEF FileTypeChar, Kinds

(* The flags, the character and the types of an entry tell the same. *)
LEMMA InvTypesAgree == ASSUME Inv PROVE TypesAgree
  <1>1. st_mode \in StModes /\ st = FillFromStructStat(st_mode)
    BY DEF Inv, TypeOK
  <1>2. DtypeToEntryType(TypeOf(st_mode)) = StatIfUnknown(st_mode)
    <2>1. PICK d : d = TypeOf(st_mode)
      OBVIOUS
    <2>2. Types.regular = 8 /\ Types.directory = 4 /\ Types.symlink = 10
      BY DEF Types
    <2>3. DtypeToEntryType(d) = IF d = 8 THEN "file" ELSE IF d = 4 THEN "directory"
                                ELSE IF d = 10 THEN "symlink" ELSE "other"
      BY <2>2 DEF DtypeToEntryType
    <2>4. StatIfUnknown(st_mode) = IF d = 8 THEN "file" ELSE IF d = 4 THEN "directory"
                                   ELSE IF d = 10 THEN "symlink" ELSE "other"
      BY <2>1, KindNumbers DEF StatIfUnknown, Is
    <2>5. QED
      BY <2>1, <2>3, <2>4
  <1>3. FileTypeChar(st.mode) = "?"
    <2>1. TypeOf(st.mode) = 0
      <3>1. st.mode = st_mode % PermissionBits
        BY <1>1, FillTypes
      <3>2. QED
        BY <1>1, <3>1, StModesAreNumbers DEF PermissionBits, TypeOf
    <2>2. \A k \in Kinds : ~ Is(k, st.mode)
      BY <2>1, KindNumbers DEF Is, Kinds
    <2>3. QED
      BY <2>2, NoKind
  <1>4. st.flags = {k \in Kinds : Is(k, st_mode)}
    BY <1>1, KindNumbers DEF FillFromStructStat
  <1>5. CASE st.flags = {}
    <2>1. FileTypeChar(st_mode) = "?"
      BY <1>4, <1>5, NoKind
    <2>2. QED
      BY <1>2, <1>3, <1>5, <2>1 DEF TypesAgree
  <1>6. ASSUME NEW kind \in Kinds, kind \in st.flags PROVE TypesAgree
    <2>1. Is(kind, st_mode) /\ st.flags = {kind}
      BY <1>4, <1>6, OneKind DEF Is
    <2>2. (CHOOSE k \in DOMAIN Types : k \in st.flags) = kind
      BY <1>6, <2>1, KindNumbers
    <2>3. st.flags # {}
      BY <1>6
    <2>4. QED
      BY <1>2, <1>3, <2>1, <2>2, <2>3, KindTells DEF TypesAgree
  <1>7. QED
    BY <1>4, <1>5, <1>6

-----------------------------------------------------------------------------
(***************************************************************************)
(* bc_io_perm_format_mode_human and bc_io_perm_format_mode_octal keep all  *)
(* twelve permission bits of every mode: their parsers give them back.     *)
(***************************************************************************)
THEOREM TextsKeepPermissions ==
  ASSUME NEW m \in Nat
  PROVE  /\ ParseModeHuman(FormatModeHuman(m)) = m % 4096
         /\ ParseModeHuman(Tail(FormatModeHuman(m))) = m % 4096
         /\ ParseModeOctal(FormatModeOctal(m)) = m % 4096
  <1>1. ParseModeHuman(FormatModeHuman(m)) = m % 4096
    BY HumanRoundTrip
  <1>2. ParseModeHuman(Tail(FormatModeHuman(m))) = m % 4096
    <2>1. PICK f, t : f = FormatModeHuman(m) /\ t = Tail(f)
      OBVIOUS
    <2>2. f \in Seq(Letters) /\ Len(f) = 10 /\ ShowsAll(f, m)
      BY <2>1, FormatShows
    <2>3. t \in Seq(Letters) /\ Formed(t) /\ ShowsAll(t, m)
      BY <2>1, <2>2, TailShows
    <2>4. ParseModeHuman(t) = m % 4096
      BY <2>3, ParseShownAll
    <2>5. QED
      BY <2>1, <2>4
  <1>3. QED
    BY <1>1, <1>2, OctalRoundTrip

(***************************************************************************)
(* Permissions survive formatting and parsing, and no text that the        *)
(* library wrote is refused; a name leads back to its account.             *)
(***************************************************************************)
THEOREM PermissionsRoundTrip == Spec => []RoundTrips
  BY InvHolds, InvRoundTrips, PTL

(***************************************************************************)
(* The parser accepts the texts that the formatter writes and no others,   *)
(* and reads them, and octal numbers, as what they say.                    *)
(***************************************************************************)
THEOREM ParserAcceptsPrintable == Spec => []AcceptsPrintable
  BY InvHolds, InvAcceptsPrintable, PTL

(***************************************************************************)
(* The flags of a file, its character in a listing and its entry type,     *)
(* from d_type or from st_mode, tell the same.                             *)
(***************************************************************************)
THEOREM FileTypesAgree == Spec => []TypesAgree
  BY InvHolds, InvTypesAgree, PTL

-----------------------------------------------------------------------------
(* Random bytes. *)

(* What a call has done so far: the bytes before the output pointer. *)
FilledSoFar(t) ==
  /\ output[t] + remaining[t] = length[t]
  /\ \A i \in Positions : filled[t][i] = IF i < output[t] THEN 1 ELSE 0
  /\ ret[t] = "true" => remaining[t] = 0

(* The inductive invariant for FilledOnce. *)
FillInv == RandomTypeOK /\ \A t \in Threads : FilledSoFar(t)

(* A thread opens urandom only without a descriptor; one that has exited   *)
(* has given its descriptor up for lost.                                   *)
SlotPhase(t) ==
  /\ pc[t] = "open" => urandom[t] = None
  /\ pc[t] = "exited" /\ urandom[t] # None => urandom[t] \in lost

(* The inductive invariant for DescriptorsKept. *)
TableInv == RandomTypeOK /\ DescriptorsKept /\ \A t \in Threads : SlotPhase(t)

(* What the proofs use of the constants. *)
LEMMA Constants ==
  /\ \A n \in Lengths : n \in Nat
  /\ 0 \in 0 .. MaxCalls
  /\ \A c \in 0 .. MaxCalls : c < MaxCalls => c + 1 \in 0 .. MaxCalls
  /\ \A i \in Positions : i \in Int /\ ~ (i < 0)
  /\ None \notin Descriptors
<1>1. \A n \in Lengths : n \in Nat
  <2>1. \A n \in Lengths : n \in 0 .. MaxLength
    BY RandomAssumption
  <2>2. QED
    BY <2>1, RandomAssumption
<1>2. None \notin Descriptors
  <2>1. \A d \in Descriptors : d \in Nat
    BY RandomAssumption
  <2>2. QED
    BY <2>1 DEF None
<1>3. QED
  BY <1>1, <1>2, RandomAssumption DEF Positions

(* The types hold at the start. *)
LEMMA InitTypes == RandomInit => RandomTypeOK
  BY RandomAssumption DEF RandomInit, RandomTypeOK, Positions, None

(* Nothing has been filled at the start. *)
LEMMA InitFills == RandomInit => FillInv
<1> SUFFICES ASSUME RandomInit, NEW t \in Threads PROVE FilledSoFar(t)
  BY InitTypes DEF FillInv
<1>1. output[t] = 0 /\ remaining[t] = 0 /\ length[t] = 0
  BY DEF RandomInit
<1>2. ret[t] # "true"
  BY DEF RandomInit
<1>3. \A i \in Positions : filled[t][i] = 0
  BY DEF RandomInit
<1>4. QED
  BY <1>1, <1>2, <1>3, Constants DEF FilledSoFar

(* What Fill does to the types and to the progress of its thread. *)
LEMMA FillKeeps ==
  ASSUME FillInv,
         NEW t \in Threads, NEW count \in 1 .. remaining[t], Fill(t, count),
         UNCHANGED length
  PROVE  /\ output' \in [Threads -> Nat] /\ remaining' \in [Threads -> Nat]
         /\ filled' \in [Threads -> [Positions -> Nat]]
         /\ pc' \in [Threads -> {"idle", "getrandom", "check", "open", "read", "exited"}]
         /\ ret' \in [Threads -> {"none", "true", "false"}]
         /\ \A u \in Threads : FilledSoFar(u)'
<1> USE DEF FillInv, RandomTypeOK
<1>1. /\ output[t] \in Nat /\ remaining[t] \in Nat /\ count \in Nat
      /\ count >= 1 /\ count <= remaining[t]
  OBVIOUS
<1>2. /\ output' = [output EXCEPT ![t] = @ + count]
      /\ remaining' = [remaining EXCEPT ![t] = @ - count]
      /\ filled' = [filled EXCEPT ![t] = [i \in Positions |->
           IF i \in output[t] .. output[t] + count - 1 THEN filled[t][i] + 1 ELSE filled[t][i]]]
  BY DEF Fill
<1>3. /\ output' \in [Threads -> Nat] /\ remaining' \in [Threads -> Nat]
      /\ filled' \in [Threads -> [Positions -> Nat]]
  BY <1>1, <1>2
<1>4. /\ pc' \in [Threads -> {"idle", "getrandom", "check", "open", "read", "exited"}]
      /\ ret' \in [Threads -> {"none", "true", "false"}]
      /\ \A u \in Threads : u # t => ret'[u] = ret[u]
      /\ ret'[t] = "true" => count = remaining[t] \/ ret[t] = "true"
  BY DEF Fill, Returns, Moves
<1>5. ASSUME NEW u \in Threads PROVE FilledSoFar(u)'
  <2>1. CASE u # t
    BY <1>2, <1>4, <2>1 DEF FilledSoFar
  <2>2. CASE u = t
    <3>1. /\ output'[t] = output[t] + count /\ remaining'[t] = remaining[t] - count
          /\ length'[t] = length[t]
      BY <1>2
    <3>2. output[t] + remaining[t] = length[t] /\ (ret[t] = "true" => remaining[t] = 0)
      BY DEF FilledSoFar
    <3>3. \A i \in Positions : filled[t][i] = IF i < output[t] THEN 1 ELSE 0
      BY DEF FilledSoFar
    <3>4. ASSUME NEW i \in Positions PROVE filled'[t][i] = IF i < output'[t] THEN 1 ELSE 0
      <4>1. i \in Int
        BY RandomAssumption DEF Positions
      <4>2. filled'[t][i] = IF i \in output[t] .. output[t] + count - 1
                              THEN filled[t][i] + 1 ELSE filled[t][i]
        BY <1>2
      <4>3. QED
        BY <1>1, <3>1, <3>3, <4>1, <4>2
    <3>5. ret'[t] = "true" => remaining'[t] = 0
      BY <1>1, <1>4, <3>1, <3>2
    <3>6. length[t] \in Int
      <4>1. length[t] \in Lengths \/ length[t] = 0
        OBVIOUS
      <4>2. QED
        BY <4>1, Constants
    <3>7. output'[t] + remaining'[t] = length'[t]
      BY <1>1, <3>1, <3>2, <3>6
    <3>8. QED
      BY <2>2, <3>4, <3>5, <3>7 DEF FilledSoFar
  <2>3. QED
    BY <2>1, <2>2
<1>6. QED
  BY <1>3, <1>4, <1>5

(* Every step keeps the types and the progress of every thread. *)
LEMMA FillStep == FillInv /\ [RandomNext]_random_vars => FillInv'
<1> SUFFICES ASSUME FillInv, [RandomNext]_random_vars PROVE FillInv'
  OBVIOUS
<1> USE DEF FillInv
<1>1. CASE UNCHANGED random_vars
  BY <1>1 DEF RandomTypeOK, FilledSoFar, random_vars, call, table
<1>2. ASSUME NEW t \in Threads, NEW n \in Lengths, RandomBytes(t, n) PROVE FillInv'
  <2>1. n \in Nat /\ n \in Lengths /\ calls[t] \in Nat /\ calls[t] + 1 <= MaxCalls
    BY <1>2, RandomAssumption DEF RandomBytes, RandomTypeOK
  <2>2. /\ length' = [length EXCEPT ![t] = n] /\ output' = [output EXCEPT ![t] = 0]
        /\ remaining' = [remaining EXCEPT ![t] = n] /\ calls' = [calls EXCEPT ![t] = @ + 1]
        /\ filled' = [filled EXCEPT ![t] = [i \in Positions |-> 0]]
        /\ UNCHANGED <<urandom, open, lost>>
    BY <1>2 DEF RandomBytes, table
  <2>3. /\ pc' \in [Threads -> {"idle", "getrandom", "check", "open", "read", "exited"}]
        /\ ret' \in [Threads -> {"none", "true", "false"}]
        /\ ret'[t] = "true" => n = 0
        /\ \A u \in Threads : u # t => ret'[u] = ret[u]
    BY <1>2 DEF RandomBytes, Returns, Moves, RandomTypeOK
  <2>4. RandomTypeOK'
    <3>1. length' \in [Threads -> Lengths \cup {0}]
      BY <2>1, <2>2 DEF RandomTypeOK
    <3>2. output' \in [Threads -> Nat] /\ remaining' \in [Threads -> Nat]
      BY <2>1, <2>2 DEF RandomTypeOK
    <3>3. filled' \in [Threads -> [Positions -> Nat]]
      BY <2>2 DEF RandomTypeOK
    <3>4. calls' \in [Threads -> 0 .. MaxCalls]
      BY <1>2, <2>2, Constants DEF RandomBytes, RandomTypeOK
    <3>5. QED
      BY <2>2, <2>3, <3>1, <3>2, <3>3, <3>4 DEF RandomTypeOK
  <2>5. ASSUME NEW u \in Threads PROVE FilledSoFar(u)'
    <3>1. CASE u # t
      BY <2>2, <2>3, <3>1 DEF FilledSoFar, RandomTypeOK
    <3>2. CASE u = t
      <4>1. /\ length'[t] = n /\ output'[t] = 0 /\ remaining'[t] = n
            /\ \A i \in Positions : filled'[t][i] = 0
        BY <2>2 DEF RandomTypeOK
      <4>2. \A i \in Positions : i \in Int /\ ~ (i < 0)
        BY RandomAssumption DEF Positions
      <4>3. QED
        BY <2>1, <2>3, <3>2, <4>1, <4>2 DEF FilledSoFar
    <3>3. QED
      BY <3>1, <3>2
  <2>6. QED
    BY <2>4, <2>5
<1>3. ASSUME NEW t \in Threads, GetRandom(t) \/ ReadUrandom(t) PROVE FillInv'
  <2>1. UNCHANGED <<length, urandom, open, lost, calls>>
    BY <1>3 DEF GetRandom, ReadUrandom, table
  <2>2. CASE \E count \in 1 .. remaining[t] : Fill(t, count)
    <3>1. PICK count \in 1 .. remaining[t] : Fill(t, count)
      BY <2>2
    <3>2. QED
      BY <2>1, <3>1, FillKeeps DEF RandomTypeOK
  <2>3. CASE Returns(t, "false") /\ UNCHANGED <<output, remaining, filled>>
    BY <2>1, <2>3 DEF Returns, Moves, RandomTypeOK, FilledSoFar
  <2>4. QED
    BY <1>3, <2>2, <2>3 DEF GetRandom, ReadUrandom
<1>4. ASSUME NEW t \in Threads, GetRandomFails(t) \/ CheckUrandom(t) PROVE FillInv'
  BY <1>4 DEF GetRandomFails, CheckUrandom, Moves, RandomTypeOK, FilledSoFar, call, table
<1>5. ASSUME NEW t \in Threads, OpenUrandom(t) PROVE FillInv'
  <2>1. UNCHANGED <<length, output, remaining, filled, calls>>
    BY <1>5 DEF OpenUrandom, call
  <2>2. /\ pc' \in [Threads -> {"idle", "getrandom", "check", "open", "read", "exited"}]
        /\ ret' \in [Threads -> {"none", "true", "false"}]
        /\ \A u \in Threads : ret'[u] = "true" => ret[u] = "true"
    BY <1>5 DEF OpenUrandom, Returns, Moves, RandomTypeOK
  <2>3. /\ urandom' \in [Threads -> Descriptors \cup {None}]
        /\ open' \subseteq Descriptors /\ lost' \subseteq Descriptors
    BY <1>5 DEF OpenUrandom, RandomTypeOK, Slot, table
  <2>4. QED
    BY <2>1, <2>2, <2>3 DEF RandomTypeOK, FilledSoFar
<1>6. ASSUME NEW t \in Threads, Exit(t) \/ Start(t) PROVE FillInv'
  <2>1. UNCHANGED <<length, output, remaining, filled, ret, open>>
    BY <1>6 DEF Exit, Start, call
  <2>2. \A u \in Threads : FilledSoFar(u)'
    BY <2>1 DEF FilledSoFar
  <2>3. /\ pc' \in [Threads -> {"idle", "getrandom", "check", "open", "read", "exited"}]
        /\ urandom' \in [Threads -> Descriptors \cup {None}]
        /\ calls' \in [Threads -> 0 .. MaxCalls]
    <3>1. CASE Exit(t)
      BY <3>1 DEF Exit, Moves, RandomTypeOK
    <3>2. CASE Start(t)
      <4>1. urandom' \in [Threads -> Descriptors \cup {None}]
        BY <3>2 DEF Start, RandomTypeOK
      <4>2. calls' \in [Threads -> 0 .. MaxCalls]
        BY <3>2, Constants DEF Start, RandomTypeOK
      <4>3. QED
        BY <3>2, <4>1, <4>2 DEF Start, Moves, RandomTypeOK
    <3>3. QED
      BY <1>6, <3>1, <3>2
  <2>4. lost' \subseteq Descriptors
    BY <1>6 DEF Exit, Start, RandomTypeOK
  <2>5. QED
    BY <2>1, <2>2, <2>3, <2>4 DEF RandomTypeOK
<1>7. QED
  BY <1>1, <1>2, <1>3, <1>4, <1>5, <1>6 DEF RandomNext, Running, Interrupted

(***************************************************************************)
(* Type correctness of bc_io_random_bytes: in particular the output        *)
(* pointer and the remaining count never go below zero.                    *)
(***************************************************************************)
THEOREM RandomTypeCorrect == RandomSpec => []RandomTypeOK
<1>1. RandomInit => FillInv
  BY InitFills
<1>2. FillInv => RandomTypeOK
  BY DEF FillInv
<1>3. QED
  BY <1>1, <1>2, FillStep, PTL DEF RandomSpec

(***************************************************************************)
(* The loops of getrandom and read together fill the buffer once, and      *)
(* nothing behind it.                                                      *)
(***************************************************************************)
THEOREM BytesAreFilled == RandomSpec => []FilledOnce
<1>1. RandomInit => FillInv
  BY InitFills
<1>2. FillInv => FilledOnce
  <2> SUFFICES ASSUME FillInv, NEW t \in Threads, NEW i \in Positions
               PROVE  /\ i >= length[t] => filled[t][i] = 0
                      /\ i < length[t] => filled[t][i] <= 1
                      /\ ret[t] = "true" /\ i < length[t] => filled[t][i] = 1
    BY DEF FilledOnce
  <2>1. /\ i \in Int /\ output[t] \in Nat /\ remaining[t] \in Nat
        /\ output[t] + remaining[t] = length[t]
    BY RandomAssumption DEF FillInv, FilledSoFar, RandomTypeOK, Positions
  <2>2. /\ filled[t][i] = IF i < output[t] THEN 1 ELSE 0
        /\ ret[t] = "true" => remaining[t] = 0
    BY DEF FillInv, FilledSoFar
  <2>3. QED
    BY <2>1, <2>2
<1>3. QED
  BY <1>1, <1>2, FillStep, PTL DEF RandomSpec

(* Every step keeps the descriptors and where each thread stands. *)
LEMMA TableStep ==
  RandomTypeOK /\ RandomTypeOK' /\ TableInv /\ [RandomNext]_random_vars => TableInv'
<1> SUFFICES ASSUME RandomTypeOK, RandomTypeOK', TableInv, [RandomNext]_random_vars PROVE TableInv'
  OBVIOUS
<1> USE DEF TableInv
<1>1. CASE UNCHANGED random_vars
  BY <1>1 DEF DescriptorsKept, SlotPhase, random_vars, table
<1>3. ASSUME NEW t \in Threads, NEW to \in {"idle", "getrandom", "check", "read"},
             pc[t] # "exited", pc' = [pc EXCEPT ![t] = to] \/ pc' = pc,
             UNCHANGED <<urandom, open, lost>>
      PROVE  TableInv'
  BY <1>3 DEF DescriptorsKept, SlotPhase, RandomTypeOK
<1>4. ASSUME NEW t \in Threads, NEW n \in Lengths, RandomBytes(t, n) PROVE TableInv'
  BY <1>3, <1>4 DEF RandomBytes, Returns, Moves, table
<1>5. ASSUME NEW t \in Threads, GetRandom(t) \/ ReadUrandom(t) \/ GetRandomFails(t)
      PROVE  TableInv'
  BY <1>3, <1>5
  DEF GetRandom, ReadUrandom, GetRandomFails, Fill, Returns, Moves, table
<1>6. ASSUME NEW t \in Threads, CheckUrandom(t) PROVE TableInv'
  BY <1>6 DEF CheckUrandom, Moves, Slot, table, DescriptorsKept, SlotPhase, RandomTypeOK
<1>7. ASSUME NEW t \in Threads, OpenUrandom(t) PROVE TableInv'
  <2>1. CASE Returns(t, "false") /\ UNCHANGED table
    BY <1>3, <1>7, <2>1 DEF OpenUrandom, Returns, Moves, table
  <2>2. CASE \E d \in Descriptors \ open :
               open' = open \cup {d} /\ urandom' = [urandom EXCEPT ![Slot(t)] = d]
    <3>1. PICK d \in Descriptors \ open :
                 open' = open \cup {d} /\ urandom' = [urandom EXCEPT ![t] = d]
      BY <2>2 DEF Slot
    <3>2. /\ pc[t] = "open" /\ urandom[t] = None /\ d # None /\ lost' = lost
          /\ pc' \in {[pc EXCEPT ![t] = "read"], [pc EXCEPT ![t] = "idle"]}
      BY <1>7, RandomAssumption DEF OpenUrandom, Returns, Moves, SlotPhase, None, table
    <3>3. \A u \in Threads : u # t => urandom'[u] = urandom[u] /\ urandom[u] # d
      BY <3>1, <3>2 DEF DescriptorsKept, RandomTypeOK
    <3>4. urandom'[t] = d /\ d \notin lost
      BY <3>1 DEF DescriptorsKept, RandomTypeOK
    <3>5. DescriptorsKept'
      <4>1. /\ lost' \subseteq open'
            /\ \A u \in Threads : urandom'[u] # None => urandom'[u] \in open'
        BY <3>1, <3>2, <3>3, <3>4 DEF DescriptorsKept
      <4>2. ASSUME NEW v \in Threads, NEW u \in Threads, v # u, urandom'[v] # None
            PROVE  urandom'[v] # urandom'[u]
        BY <3>3, <3>4, <4>2 DEF DescriptorsKept
      <4>3. \A e \in open' \ lost' : \E u \in Threads : urandom'[u] = e
        <5> SUFFICES ASSUME NEW e \in open' \ lost', e # d
                     PROVE  \E u \in Threads : urandom'[u] = e
          BY <3>4
        <5>1. e \in open \ lost
          BY <3>1, <3>2
        <5>2. PICK u \in Threads : urandom[u] = e
          BY <5>1 DEF DescriptorsKept
        <5>3. e # None
          BY <5>1, Constants DEF RandomTypeOK
        <5>4. urandom'[u] = e
          BY <3>2, <3>3, <5>2, <5>3
        <5>5. QED
          BY <5>4
      <4>4. ASSUME NEW u \in Threads, pc'[u] # "exited" PROVE urandom'[u] \notin lost'
        <5>1. CASE u = t
          BY <3>2, <3>4, <5>1
        <5>2. CASE u # t
          <6>1. pc[u] # "exited"
            BY <3>2, <4>4, <5>2 DEF RandomTypeOK
          <6>2. QED
            BY <3>2, <3>3, <5>2, <6>1 DEF DescriptorsKept
        <5>3. QED
          BY <5>1, <5>2
      <4>5. QED
        BY <4>1, <4>2, <4>3, <4>4 DEF DescriptorsKept
    <3>6. \A u \in Threads : SlotPhase(u)'
      BY <3>2, <3>3, <3>4 DEF SlotPhase, RandomTypeOK
    <3>7. QED
      BY <3>5, <3>6
  <2>3. QED
    BY <1>7, <2>1, <2>2 DEF OpenUrandom
<1>8. ASSUME NEW t \in Threads, Exit(t) PROVE TableInv'
  <2>1. /\ pc' = [pc EXCEPT ![t] = "exited"] /\ UNCHANGED <<urandom, open>>
        /\ lost' = lost \cup ({urandom[t]} \ {None})
    BY <1>8 DEF Exit, Moves
  <2>2. None \notin lost'
    BY <2>1, RandomAssumption DEF RandomTypeOK, None
  <2>3. DescriptorsKept'
    BY <2>1, <2>2 DEF DescriptorsKept, RandomTypeOK
  <2>4. \A u \in Threads : SlotPhase(u)'
    BY <2>1 DEF SlotPhase, RandomTypeOK
  <2>5. QED
    BY <2>3, <2>4
<1>9. ASSUME NEW t \in Threads, Start(t) PROVE TableInv'
  <2>1. /\ pc[t] = "exited" /\ pc' = [pc EXCEPT ![t] = "idle"] /\ UNCHANGED <<open, lost>>
        /\ urandom' = [urandom EXCEPT ![t] = None]
    BY <1>9 DEF Start, Moves
  <2>2. None \notin lost
    BY RandomAssumption DEF RandomTypeOK, None
  <2>3. urandom[t] # None => urandom[t] \in lost
    BY <2>1 DEF SlotPhase
  <2>4. DescriptorsKept'
    BY <2>1, <2>2, <2>3 DEF DescriptorsKept, RandomTypeOK
  <2>5. \A u \in Threads : SlotPhase(u)'
    BY <2>1 DEF SlotPhase, RandomTypeOK
  <2>6. QED
    BY <2>4, <2>5
<1>10. QED
  BY <1>1, <1>4, <1>5, <1>6, <1>7, <1>8, <1>9 DEF RandomNext, Running, Interrupted

(***************************************************************************)
(* No thread takes the urandom descriptor of another or loses its own      *)
(* while it lives.                                                         *)
(***************************************************************************)
THEOREM DescriptorsAreKept == RandomSpec => []DescriptorsKept
<1>1. RandomInit => TableInv
  BY InitTypes DEF RandomInit, TableInv, DescriptorsKept, SlotPhase
<1>2. TableInv => DescriptorsKept
  BY DEF TableInv
<1>3. RandomTypeOK /\ RandomTypeOK' /\ TableInv /\ [RandomNext]_random_vars => TableInv'
  BY TableStep
<1>4. QED
  BY <1>1, <1>2, <1>3, RandomTypeCorrect, PTL DEF RandomSpec
=============================================================================
