------------------------------ MODULE Versions -------------------------------
(***************************************************************************)
(* What pkg_parser and install_tar make of a manifest: how versions are    *)
(* compared, when a dependency's constraint is satisfied, which platforms  *)
(* a package is for, and how its reading ends.                             *)
(*                                                                         *)
(* A version is the sequence of the numbers between its dots (stoi also    *)
(* takes signs, and an empty part is 0).  A dependency is a name and a     *)
(* constraint: its first character is the relation, the rest a version, or *)
(* odd if stoi does not take it for numbers.  An operating system is the   *)
(* set of families it is a member of, and "any" the empty set.             *)
(***************************************************************************)
EXTENDS Integers, Sequences

Version == Seq(Int)

(* The shorter version is filled up with zeros. *)
Part(v, i) == IF i \in DOMAIN v THEN v[i] ELSE 0

(* compare_versions: a loop over the parts. *)
CompareVersions(a, b) ==
  LET n == IF Len(a) > Len(b) THEN Len(a) ELSE Len(b)
      from[i \in 1..(n + 1)] ==
        IF i > n THEN 0
        ELSE IF Part(a, i) < Part(b, i) THEN -1
        ELSE IF Part(a, i) > Part(b, i) THEN 1
        ELSE from[i + 1]
  IN from[1]

(* What it says: the first part in which they differ decides. *)
FirstLess(a, b, i) ==
  /\ Part(a, i) < Part(b, i)
  /\ \A j \in 1..(i - 1) : Part(a, j) = Part(b, j)

Before(a, b) == \E i \in DOMAIN a \cup DOMAIN b : FirstLess(a, b, i)
Same(a, b) == \A i \in DOMAIN a \cup DOMAIN b : Part(a, i) = Part(b, i)

(* satisfies: the operator is the first character between the parentheses; *)
(* another one, such as the digit of "(1.0)", is never satisfied.          *)
Satisfies(v, c) ==
  \/ c.relation = "none"
  \/ c.relation = "=" /\ CompareVersions(v, c.version) = 0
  \/ c.relation = "<" /\ CompareVersions(v, c.version) < 0
  \/ c.relation = ">" /\ CompareVersions(v, c.version) > 0

(* Of "(>=1.0)" and "(==1.0)" the version is "=1.0", of "( >1.0)" it is    *)
(* ">1.0", of "(>v1)" it is "v1": odd ones make stoi throw, as does an     *)
(* installed version that is odd, and whatever the relation; but nothing   *)
(* is compared when there is no constraint.                                *)
Throws(c, odd) == c.relation # "none" /\ (odd \/ c.odd)

(* pkg_compatible: an architecture nobody knows is taken for any. *)
Compatible(arch, os, host) ==
  /\ arch \in {"any", "unknown", host.arch}
  /\ (os = {} \/ os \cap host.os # {})

(* From parse_pkg to the question whether to proceed: how the reading of   *)
(* manifest m may end when packages in installed are, those in odd with a  *)
(* version that is no sequence of numbers.  An installed rival is a        *)
(* question too.                                                           *)
Reading(m, host, installed, odd) ==
  IF ~Compatible(m.arch, m.os, host) THEN {"returns"}
  ELSE (IF m.rival \in installed THEN {"returns"} ELSE {}) \cup
       (IF \E d \in m.dependencies :
             d.name \in installed /\ Throws(d, d.name \in odd)
          THEN {"throws"} ELSE {"returns", "proceeds"})

=============================================================================
