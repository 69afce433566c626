----------------------------- MODULE PackageSet -----------------------------
(* What the operator of a server is promised: a catalogue of packages that *)
(* the commands change one whole command at a time.  A package just        *)
(* presented is Plain; attaching a manifest makes the entry what the       *)
(* manifest says, but the version stays when the manifest has none.        *)
EXTENDS Naturals

CONSTANTS Names, Manifests, None, Plain, Unsaid

VARIABLE entry

Init == entry = [n \in Names |-> None]

Present(n) ==
  /\ entry[n] = None
  /\ entry' = [entry EXCEPT ![n] = Plain]

Attach(n, m) ==
  /\ entry[n] # None
  /\ \E v \in IF m.version = Unsaid THEN {entry[n].version} ELSE {m.version} :
       entry' = [entry EXCEPT ![n] = [m EXCEPT !.version = v]]

Remove(n) ==
  /\ entry[n] # None
  /\ entry' = [entry EXCEPT ![n] = None]

Clear == entry' = [n \in Names |-> None]

Next ==
  \/ \E n \in Names : Present(n) \/ Remove(n)
  \/ \E n \in Names, m \in Manifests : Attach(n, m)
  \/ Clear

Spec == Init /\ [][Next]_entry

=============================================================================
