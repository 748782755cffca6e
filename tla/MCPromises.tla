----------------------------- MODULE MCPromises -----------------------------
(* Instances of Promises for TLC. *)
EXTENDS Promises, TLC

CONSTANTS p1, p2, s1, s2

Row(k, a, t, prec) ==
    [key |-> k, customer |-> "c", currency |-> "YER", amount |-> a, at |-> t, precision |-> prec]

\* A receipt of the mirror, known to the day only.
MirrorReceipt == {Row(1, 2, 1, "day")}
\* The same corrected to one unit, and a local receipt that is more than a promise.
Corrected == MirrorReceipt \cup {Row(1, 1, 1, "day"), Row(2, 3, 1, "timestamp")}

VARIABLE part

\* Promises made with nobody deciding by hand: edited, with receipts corrected,
\* vanishing and returning; or with the customers merged and local receipts coming
\* and going; or with reminders, while nothing is settled and assignments change.
SettlementNext ==
    \/ \E s \in Slots : Editing(s)
    \/ part = "receipts" /\ (Settling \/ Books)
    \/ part = "merges" /\ (Settling \/ Merging \/ Books)
    \/ part = "reminders" /\ (Books \/ \E s \in Slots : Reminding(s))

SettlementFrame ==
    /\ part = "receipts" => \A s \in Slots : op[s].phase = "create" => op[s].customer = "c"
    /\ part = "merges" => (\A r \in rows : Local(r)) /\ \A s \in Slots : op[s].phase # "update"
    /\ part = "reminders" => rows = {}
AssignmentsRest == part # "reminders" => assigned' = assigned \/ merges' # merges

SettlementInit == Init /\ part \in {"receipts", "merges", "reminders"}
SettlementSpec ==
    SettlementInit /\ [][UNCHANGED part /\ SettlementNext /\ SettlementFrame' /\ AssignmentsRest]_<<vars, part>>

\* The same with sweeps, decisions and the work on the tasks instead of reminders.
DeskNext == (\E s \in Slots : Editing(s) \/ Deciding(s) \/ Sweeping(s)) \/ Working \/ Settling \/ Books

DeskInit == Init /\ part = "desk"
DeskSpec == DeskInit /\ [][DeskNext /\ UNCHANGED part]_<<vars, part>>

\* All of it.
WholeInit == Init /\ part = "all"
WholeSpec == WholeInit /\ [][Next /\ UNCHANGED part]_<<vars, part>>

SymmetryPromises == Permutations({p1, p2})
SymmetrySlots == Permutations({s1, s2})
=============================================================================
