-------------------------------- MODULE Perm --------------------------------
(***************************************************************************)
(* bc_io_perm: permissions as text, "rwxr-s--T" or octal, and back; users  *)
(* and groups by number and by name.  A text is a sequence of characters;  *)
(* octal digits are the numbers 0 .. 9.                                    *)
(*                                                                         *)
(* The state machine is a program that takes the mode of a file, or a text *)
(* that somebody typed, and formats and parses it any number of times.     *)
(***************************************************************************)
EXTENDS FileStat, Sequences

CONSTANTS
  FileModes,     \* st_mode of the files
  HumanTexts,    \* what people type as permissions
  OctalTexts,    \* and as octal numbers
  Accounts,      \* Accounts[id]: the name of a user or group
  Capacities,    \* of the buffers for texts and names
  NameBuffer,    \* sizeof(zero_terminated)
  SizeLimit      \* SIZE_MAX + 1

StModes == 0 .. 65535   \* a type and permissions have 16 bits

(* No two accounts have one name. *)
ASSUME PermAssumption ==
  /\ FileModes \subseteq StModes
  /\ HumanTexts \subseteq Seq(STRING) /\ OctalTexts \subseteq Seq(0 .. 9)
  /\ SizeLimit \in Nat \ {0} /\ NameBuffer \in Nat /\ Capacities \subseteq Nat
  /\ DOMAIN Accounts \subseteq Nat
  /\ \A i, j \in DOMAIN Accounts : Accounts[i] = Accounts[j] => i = j

VARIABLES
  step,    \* what the program has: "nothing", "stat", "human", ...
  st_mode, \* of the file
  st,      \* the bc_io_file_stat_t
  origin,  \* "file", or the text that was typed
  text,
  mode,    \* a mode that was parsed
  id       \* the account whose name is in text

vars == <<step, st_mode, st, origin, text, mode, id>>

-----------------------------------------------------------------------------
(* Formatting. *)

Bit(m, b) == (m \div b) % 2 = 1

(* One triple: x is its execute bit, special the bit that changes its sign. *)
Triple(m, x, special, with_exec, no_exec) ==
  << IF Bit(m, 4 * x) THEN "r" ELSE "-",
     IF Bit(m, 2 * x) THEN "w" ELSE "-",
     IF Bit(m, special) THEN (IF Bit(m, x) THEN with_exec ELSE no_exec)
                        ELSE (IF Bit(m, x) THEN "x" ELSE "-") >>

(* Variant: the sticky bit is shown like the others. *)
FormatSticky(m) ==
  <<FileTypeChar(m)>> \o Triple(m, 64, 2048, "s", "S") \o Triple(m, 8, 1024, "s", "S")
                      \o Triple(m, 1, 512, "s", "S")

FormatModeHuman(m) ==
  <<FileTypeChar(m)>> \o Triple(m, 64, 2048, "s", "S") \o Triple(m, 8, 1024, "s", "S")
                      \o Triple(m, 1, 512, "t", "T")

FormatModeOctal(m) == <<(m % 4096) \div 512, (m \div 64) % 8, (m \div 8) % 8, m % 8>>

-----------------------------------------------------------------------------
(* Parsing: the mode, or Invalid. *)

Invalid == -1

(* bc_io_perm_parse_rwx_triple *)
ParseRwxTriple(t, x, special, with_exec, no_exec) ==
  IF t[1] \notin {"r", "-"} \/ t[2] \notin {"w", "-"} \/ t[3] \notin {"x", "-", with_exec, no_exec}
    THEN Invalid
  ELSE (IF t[1] = "r" THEN 4 * x ELSE 0) + (IF t[2] = "w" THEN 2 * x ELSE 0)
       + (IF t[3] \in {"x", with_exec} THEN x ELSE 0)
       + (IF t[3] \in {with_exec, no_exec} THEN special ELSE 0)

(* Variant: any character passes for a type. *)
ParseAnyType(t) ==
  LET p == IF Len(t) = 10 THEN Tail(t) ELSE t
      user == ParseRwxTriple(SubSeq(p, 1, 3), 64, 2048, "s", "S")
      group == ParseRwxTriple(SubSeq(p, 4, 6), 8, 1024, "s", "S")
      other == ParseRwxTriple(SubSeq(p, 7, 9), 1, 512, "t", "T")
  IN  IF Len(p) # 9 \/ Invalid \in {user, group, other} THEN Invalid ELSE user + group + other

ParseModeHuman(t) ==
  LET base == IF Len(t) = 10 THEN 1 ELSE 0
      part(k, x, special, with_exec, no_exec) ==
        ParseRwxTriple(SubSeq(t, base + k, base + k + 2), x, special, with_exec, no_exec)
      user == part(1, 64, 2048, "s", "S")
      group == part(4, 8, 1024, "s", "S")
      other == part(7, 1, 512, "t", "T")
  IN  IF Len(t) \notin {9, 10} THEN Invalid
      ELSE IF Len(t) = 10 /\ t[1] \notin TypeChars THEN Invalid
      ELSE IF Invalid \in {user, group, other} THEN Invalid
      ELSE user + group + other

(* The loop over the digits. *)
OctalValue(t) ==
  LET value[n \in 0 .. Len(t)] == IF n = 0 THEN 0 ELSE value[n - 1] * 8 + t[n]
  IN  value[Len(t)]

(* Four digits carry the special bits above the permissions, fewer do not. *)
ParseModeOctal(t) ==
  IF Len(t) \notin 1 .. 4 \/ (\E i \in 1 .. Len(t) : t[i] > 7) THEN Invalid
  ELSE LET result == OctalValue(t) IN
       IF Len(t) = 4 THEN 512 * ((result \div 512) % 8) + (result % 512) ELSE result

-----------------------------------------------------------------------------
(* Names.  What the account database answers is modelled from its use. *)

(* bc_io_perm_copy_string: no zero is added, so the buffer may be full. *)
CopyString(source, capacity) ==
  IF Len(source) > capacity THEN [ok |-> FALSE] ELSE [ok |-> TRUE, text |-> source]

(* bc_io_perm_copy_to_zero_terminated *)
CopyToZeroTerminated(name, capacity) ==
  IF (Len(name) + 1) % SizeLimit > capacity THEN [ok |-> FALSE] ELSE [ok |-> TRUE, text |-> name]

-----------------------------------------------------------------------------
Init ==
  /\ step = "nothing" /\ st_mode = 0 /\ st = FillFromStructStat(0)
  /\ origin = <<>> /\ text = <<>> /\ mode = 0 /\ id = -1

Stat(m) ==
  /\ step' = "stat"
  /\ st_mode' = m /\ st' = FillFromStructStat(m) /\ mode' = m /\ origin' = <<"file">>
  /\ UNCHANGED <<text, id>>

TypeText(kind, t) ==
  /\ step' = kind /\ text' = t /\ origin' = <<kind, t>>
  /\ UNCHANGED <<st_mode, st, mode, id>>

(* The mode of the file with its type, or as bc_io_file_stat returned it;  *)
(* or a mode that was parsed.  Nothing happens if the buffer is too small. *)
Format(kind, capacity) ==
  /\ step \in {"stat", "mode"} /\ step' = kind
  /\ capacity >= IF kind = "human" THEN 10 ELSE 4
  /\ \E m \in {mode, IF step = "stat" THEN st.mode ELSE mode} :
       text' = IF kind = "human" THEN FormatModeHuman(m) ELSE FormatModeOctal(m)
  /\ UNCHANGED <<st_mode, st, origin, mode, id>>

(* The type is left out, as the parser allows. *)
DropType ==
  /\ step = "human" /\ origin = <<"file">> /\ Len(text) = 10 /\ text' = Tail(text)
  /\ UNCHANGED <<step, st_mode, st, origin, mode, id>>

Parse ==
  /\ step \in {"human", "octal"}
  /\ LET m == IF step = "human" THEN ParseModeHuman(text) ELSE ParseModeOctal(text) IN
       \/ m # Invalid /\ mode' = m /\ step' = "mode"
       \/ m = Invalid /\ step' = "refused" /\ UNCHANGED mode
  /\ UNCHANGED <<st_mode, st, origin, text, id>>

(* resolve_user_name and resolve_group_name; the lookup may fail. *)
ResolveName(i, capacity) ==
  /\ LET copied == CopyString(Accounts[i], capacity) IN
       \/ copied.ok /\ text' = copied.text /\ id' = i /\ step' = "name"
       \/ step' = "refused" /\ UNCHANGED <<text, id>>
  /\ UNCHANGED <<st_mode, st, origin, mode>>

(* resolve_user_id and resolve_group_id of the name that was found. *)
ResolveId ==
  /\ step = "name"
  /\ LET copied == CopyToZeroTerminated(text, NameBuffer) IN
       \/ /\ copied.ok
          /\ \E i \in DOMAIN Accounts : Accounts[i] = copied.text /\ mode' = i /\ step' = "account"
       \/ step' = "refused" /\ UNCHANGED mode
  /\ UNCHANGED <<st_mode, st, origin, text, id>>

(* The program may stop at any time, and cannot go on from some texts. *)
Stop == UNCHANGED vars

Begin ==
  /\ step = "nothing"
  /\ \/ \E m \in FileModes : Stat(m)
     \/ \E t \in HumanTexts : TypeText("human", t)
     \/ \E t \in OctalTexts : TypeText("octal", t)
     \/ \E i \in DOMAIN Accounts, capacity \in Capacities : ResolveName(i, capacity)

Next ==
  \/ Begin
  \/ \E capacity \in Capacities : Format("human", capacity) \/ Format("octal", capacity)
  \/ DropType \/ Parse
  \/ ResolveId \/ Stop

Spec == Init /\ [][Next]_vars

-----------------------------------------------------------------------------
Steps == {"nothing", "stat", "human", "octal", "mode", "name", "account", "refused"}

TypeOK ==
  /\ step \in Steps /\ st_mode \in StModes /\ mode \in Nat
  /\ st.flags \subseteq DOMAIN Types /\ st.mode \in 0 .. PermissionBits - 1
  /\ id \in DOMAIN Accounts \cup {-1}

(***************************************************************************)
(* The permissions of a file survive any sequence of formatting, as text   *)
(* or in octal, and parsing, of either form, with the type or without it:  *)
(* no text that the library wrote is refused or read as another mode.  And *)
(* a name that was found leads back to the account it is the name of.      *)
(***************************************************************************)
RoundTrips ==
  /\ TypeOK
  /\ origin = <<"file">> =>
       step # "refused" /\ (step = "mode" => mode = st_mode % PermissionBits)
  /\ step = "account" => mode = id /\ text = Accounts[id]

(* The characters and the triples that the formatter writes: the type does *)
(* not depend on the permissions, nor the bits of a triple on the others.  *)
FileTypes == 0 .. 15
TypesPrinted == {FileTypeChar(PermissionBits * type) : type \in FileTypes}
TriplesAt(k, x, special) ==
  {SubSeq(FormatModeHuman(x * bits + special * b), k, k + 2) : bits \in 0 .. 7, b \in 0 .. 1}

PermissionsPrintable(t) ==
  /\ Len(t) = 9
  /\ SubSeq(t, 1, 3) \in TriplesAt(2, 64, 2048)
  /\ SubSeq(t, 4, 6) \in TriplesAt(5, 8, 1024)
  /\ SubSeq(t, 7, 9) \in TriplesAt(8, 1, 512)

(* An octal number of at most four digits, with the zeros that are left out. *)
Padded(t) == [i \in 1 .. 4 |-> IF i + Len(t) <= 4 THEN 0 ELSE t[i + Len(t) - 4]]

(***************************************************************************)
(* Of what people type the parsers accept the texts that the formatters    *)
(* write, and no others: permissions with the character of a type or with  *)
(* none, and octal numbers, whose leading zeros may be left out.  The mode *)
(* that is made of a text is the permissions that are written like this.   *)
(***************************************************************************)
AcceptsPrintable ==
  /\ origin # <<>> /\ origin[1] = "human" =>
       LET typed == origin[2]
           permissions == IF Len(typed) = 10 THEN Tail(typed) ELSE typed
       IN  /\ step = "mode" =>
                /\ mode < PermissionBits
                /\ \/ typed = Tail(FormatModeHuman(mode))
                   \/ \E type \in FileTypes : typed = FormatModeHuman(PermissionBits * type + mode)
           /\ step = "refused" =>
                \/ ~ PermissionsPrintable(permissions)
                \/ Len(typed) = 10 /\ typed[1] \notin TypesPrinted
  /\ origin # <<>> /\ origin[1] = "octal" =>
       LET typed == origin[2] IN
       /\ step = "mode" =>
            mode < PermissionBits /\ Len(typed) \in 1 .. 4 /\ FormatModeOctal(mode) = Padded(typed)
       /\ step = "refused" =>
            Len(typed) \notin 1 .. 4 \/ \E i \in 1 .. Len(typed) : typed[i] \notin 0 .. 7

(***************************************************************************)
(* The flags of bc_io_file_stat_t, the character of a listing, and the     *)
(* type of a directory entry, made from d_type or from the mode, tell the  *)
(* same of a file; the mode in bc_io_file_stat_t does not tell the type.   *)
(***************************************************************************)
TypesAgree ==
  step = "stat" =>
    LET kind == CHOOSE k \in DOMAIN Types : k \in st.flags IN
    /\ DtypeToEntryType(TypeOf(st_mode)) = StatIfUnknown(st_mode)
    /\ FileTypeChar(st.mode) = "?"
    /\ IF st.flags = {} THEN FileTypeChar(st_mode) = "?"
       ELSE /\ st.flags = {kind}
            /\ FileTypeChar(st_mode) =
                 [fifo |-> "p", character_device |-> "c", directory |-> "d", block_device |-> "b",
                  regular |-> "-", symlink |-> "l", socket |-> "s"][kind]
            /\ StatIfUnknown(st_mode) =
                 IF kind = "regular" THEN "file"
                 ELSE IF kind \in {"directory", "symlink"} THEN kind ELSE "other"
=============================================================================
