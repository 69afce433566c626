----------------------------- MODULE MCTransfer -----------------------------
(* Small instances of Transfer for TLC. *)
EXTENDS Transfer, TLC

CONSTANTS c1, c2, f1, f2, a, b

OneClient == {c1}
TwoClients == {c1, c2}
TwoFiles == {f1, f2}
TwoNames == {a, b}

(* Clients are interchangeable and so are inodes and the files of the      *)
(* package; used by safety runs only.                                      *)
Sym == Permutations(Clients) \cup Permutations(Files) \cup Permutations(Names)

=============================================================================
