--------------------------- MODULE MCCollections ---------------------------
(* Instances of Collections for TLC. *)
EXTENDS Collections, TLC

CONSTANTS u1, u2, c1, c2, q1, q2, v1, v2, s1, s2

UsersDef == {u1, u2}
Symmetry == Permutations({c1, c2}) \cup Permutations({q1, q2})
            \cup Permutations({v1, v2}) \cup Permutations({s1, s2})
SymmetryReversal == Permutations({u1, u2}) \cup Permutations({q1, q2}) \cup Permutations({s1, s2})
=============================================================================
