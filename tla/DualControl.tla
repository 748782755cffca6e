---------------------------- MODULE DualControl ----------------------------
(***************************************************************************)
(* What the receipts desk promises about money: a receipt reduces the      *)
(* customer's debt once; its effect can be cancelled once, and only by     *)
(* someone other than a person who asked for it.  The states of vouchers,  *)
(* of the cash desk and of the handlers do not appear.                     *)
(***************************************************************************)
CONSTANTS Users, Colls

VARIABLES counted,  \* receipts that reduce a debt
          asked,    \* who has asked for the reversal of what
          cancels   \* who has cancelled what

vars == <<counted, asked, cancels>>

Init == counted = {} /\ asked = {} /\ cancels = {}

Record(c) ==
    /\ c \notin counted
    /\ counted' = counted \cup {c}
    /\ UNCHANGED <<asked, cancels>>

Ask(c, u) ==
    /\ c \in counted
    /\ asked' = asked \cup {<<c, u>>}
    /\ UNCHANGED <<counted, cancels>>

Cancel(c, u) ==
    /\ c \in counted
    /\ \A w \in Users : <<c, w>> \notin cancels
    /\ \E r \in Users : r # u /\ <<c, r>> \in asked
    /\ cancels' = cancels \cup {<<c, u>>}
    /\ UNCHANGED <<counted, asked>>

Next == \E c \in Colls : Record(c) \/ \E u \in Users : Ask(c, u) \/ Cancel(c, u)

Spec == Init /\ [][Next]_vars
=============================================================================
