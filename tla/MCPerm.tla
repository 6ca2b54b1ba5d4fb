------------------------------- MODULE MCPerm -------------------------------
(* Every mode of a regular file and some of every other type; every triple *)
(* in every place; names that fill the buffers.                            *)
EXTENDS Perm

MCFileModes == {4096 * 8 + bits : bits \in 0 .. 4095}
  \cup {4096 * t + bits : t \in {1, 2, 4, 6, 10, 12, 14}, bits \in {0, 420, 1517, 3072, 4095}}

Letters == {"r", "w", "x", "-", "s", "S", "t", "T", "?"}
All == <<"r", "w", "x">>
Triples == {<<a, b, c>> : a, b, c \in Letters}
Permissions == {t \o All \o All : t \in Triples} \cup {All \o t \o All : t \in Triples}
                 \cup {All \o All \o t : t \in Triples}
MCHumanTexts ==
  Permissions \cup {<<c>> \o t : c \in {"-", "d", "?", "x"}, t \in Permissions}
    \cup {<<c>> \o All \o All \o All : c \in TypeChars}
    \cup {All \o All, All \o All \o All \o <<"-", "-">>}
MCOctalTexts == UNION {[1 .. n -> 0 .. 8] : n \in 0 .. 3}
                  \cup {<<a, b, 7, c>> : a, b, c \in 0 .. 8} \cup {<<0, 0, 6, 4, 4>>}

Name(n) == [i \in 1 .. n |-> "a"]
MCAccounts == [i \in 1 .. 6 |-> Name(i)]
MCCapacities == 0 .. 10
=============================================================================
