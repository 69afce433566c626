----------------------------- MODULE MCConsole -----------------------------
(* Small instances of Console for TLC. *)
EXTENDS Console, TLC

CONSTANTS p1, t1, a, b

CommandAndTui == {p1, t1}
OneTui == {t1}
TwoNames == {a, b}
Alphabetic == [n \in {a, b} |-> IF n = a THEN 1 ELSE 2]

SilentAndFull == {[version |-> 0, script |-> 2], [version |-> 2, script |-> 2]}

=============================================================================
