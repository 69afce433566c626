---------------------------- MODULE MCClientTui ----------------------------
(* Small instances of ClientTui for TLC. *)
EXTENDS ClientTui, TLC

CONSTANTS n1, n2, s1, r1, r2

TwoNames == {n1, n2}
OneServer == {s1}
OneRepo == {r1}
TwoRepos == {r1, r2}
Places == (n1 :> 1) @@ (n2 :> 2) @@ (s1 :> 3) @@ (r1 :> 4) @@ (r2 :> 5)
Alphabetic == [x \in Names \cup Sources |-> Places[x]]

=============================================================================
