----------------------------- MODULE MCRecords -----------------------------
(***************************************************************************)
(* The records that come from Oracle and from files.  The mirror of the    *)
(* inventory, the published movements, merged customers and imports share  *)
(* nothing, so a behaviour runs one of them and leaves the others at rest. *)
(***************************************************************************)
EXTENDS InventoryMirror, OracleMovements, CustomerMerges, Imports, TLC

CONSTANTS l1, l2, l3,      \* movements
          c1, c2,          \* commands
          k1, k2, k3,      \* customers
          f1, f2, a1, a2   \* imports

Worths == [l \in Lines |-> IF l = l3 THEN 2 ELSE 1]
Nothing == [k \in Customers |-> 0]
FilesOverlap == [f \in ImportJobs |-> IF f = f1 THEN {a1} ELSE {a1, a2}]

\* Customers who have both come first, then those with a policy, then those with a
\* balance: their names make no difference.
Rank(k) == (IF credit[k] THEN 2 ELSE 0) + (IF owner[k] = Nobody THEN 0 ELSE 1)
Sorted == Rank(k1) >= Rank(k2) /\ Rank(k2) >= Rank(k3)

\* Neither do those of the commands.
CommandsAlike == Permutations({c1, c2})

VARIABLE running

Worlds == {"mirror", "movements", "merges", "imports"}

RecordsInit ==
    /\ running \in Worlds
    /\ MirrorInit
    /\ MovementsInit /\ (running # "movements" => live = {} /\ known)
    /\ MergesInit /\ Sorted /\ (running # "merges" => \A k \in Customers : owner[k] = Nobody /\ ~ credit[k])
    /\ ImportsInit /\ (running # "imports" => \A c \in Codes : customer[c] = "none")

RecordsNext ==
    /\ UNCHANGED running
    /\ \/ running = "mirror" /\ MirrorNext
       \/ running # "mirror" /\ UNCHANGED mirrorVars
    /\ \/ running = "movements" /\ MovementsNext
       \/ running # "movements" /\ UNCHANGED movementVars
    /\ \/ running = "merges" /\ MergesNext
       \/ running # "merges" /\ UNCHANGED mergeVars
    /\ \/ running = "imports" /\ ImportsNext
       \/ running # "imports" /\ UNCHANGED importVars
    \* A request goes to the first at rest: their names make no difference.
    /\ work["w2"] = NoWork /\ work'["w2"] # NoWork => work["w1"] # NoWork

RecordsSpec == RecordsInit /\ [][RecordsNext]_<<running, mirrorVars, movementVars, mergeVars, importVars>>
=============================================================================
