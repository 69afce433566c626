----------------------------- MODULE MCClientDB -----------------------------
EXTENDS ClientDB, TLC

(* Packages, servers and repositories have no order. *)
Symmetry ==
  Permutations(Names) \cup Permutations(Servers) \cup Permutations(Repos)

=============================================================================
