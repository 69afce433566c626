----------------------------- MODULE MCRegistry -----------------------------
(* Small instances of Registry for TLC. *)
EXTENDS Registry, TLC

CONSTANTS p1, p2, t1, a, b

TwoCommands == {p1, p2}
CommandAndTui == {p1, t1}
NoTui == {}
OneTui == {t1}
TwoNames == {a, b}

Sym == Permutations(Names) \cup Permutations(Procs \ Tuis)

SilentAndFull == {[version |-> 0, script |-> 2], [version |-> 2, script |-> 2]}

=============================================================================
