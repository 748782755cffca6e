---------------------------- MODULE MCTransfers ----------------------------
(* Instances of Transfers for TLC. *)
EXTENDS Transfers, TLC

CONSTANTS t1, q1, q2, b1, b2, u1, u2, s1, s2, j1, j2

TableOfReference == [r \in References |-> IF r \in Transfers THEN "out_request" ELSE "quotation"]

Symmetry ==
    Permutations({q1, q2}) \cup Permutations(Users) \cup Permutations(Slots) \cup Permutations(Jobs)

FirstContent == [t \in Transfers |-> b1]
=============================================================================
