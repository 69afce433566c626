----------------------------- MODULE MCInstall ------------------------------
(* Small instances of Install for TLC, and of Versions. *)
EXTENDS Install, Versions, TLC

(* Processes, packages and inodes have no order. *)
Symmetry == Permutations(Procs) \cup Permutations(Names) \cup Permutations(Files)

SmallVersions == UNION {[1..n -> -1..1] : n \in 0..3}

(* Each package has its own name, or all have one. *)
OwnOrShared == {[n \in Names |-> n]} \cup {[n \in Names |-> m] : m \in Names}

(* The loop computes the order that the theorems are about. *)
ASSUME LoopIsOrder ==
  \A a, b \in SmallVersions :
    CompareVersions(a, b) = IF Before(a, b) THEN -1 ELSE IF Same(a, b) THEN 0 ELSE 1

=============================================================================
