--------------------------- MODULE CustomerMerges ---------------------------
(***************************************************************************)
(* Duplicate customers.  A pair of similar names is reviewed, or one of    *)
(* the two is merged into the other: its records move, the balances add    *)
(* up, and for a day the merge can be taken back from what it saved.       *)
(*                                                                         *)
(* Merging and taking back are serializable transactions, one step each.   *)
(* Balances are of one currency.  Aliases, and the closing of the source's *)
(* assignment when both customers have one, are left out.                  *)
(***************************************************************************)
EXTENDS Naturals, FiniteSetsExt

CONSTANTS Customers, Nobody,
          Opening,     \* the balance each customer may start with
          MaxBookings, \* bound on the changes of balances in between
          MaxAmount    \* bound on what a row is worth

ASSUME MergesAssumption ==
    Nobody \notin Customers /\ Opening \in [Customers -> Nat] /\ MaxBookings \in Nat /\ MaxAmount \in Nat

VARIABLES mergedInto,  \* customers.merged_into_id
          owner,       \* whose the balance row first opened for a customer is
          amount,      \*   and its accounting balance
          home,        \* whose the records first made for a customer are
          credit,      \* whether a customer has a credit policy
          review,      \* potential_duplicate_customers.review_status, by pair
          reviewing,   \* the pair a reviewer has looked at, if any
          merge,       \* customer_merges: the active merge of each pair
          booked       \* what imports and receipts added to the balances

mergeVars == <<mergedInto, owner, amount, home, credit, review, reviewing, merge, booked>>

Pairs == {p \in SUBSET Customers : Cardinality(p) = 2}
Rows == Customers
ReviewStatus == {"none", "pending", "separate", "merged"}
NoMerge == [status |-> "none"]

Unmerged == {c \in Customers : mergedInto[c] = Nobody}
RowsOf(c) == {r \in Rows : owner[r] = c}
Sum(rows) == MapThenSumSet(LAMBDA r : amount[r], rows)

MergesInit ==
    /\ mergedInto = [c \in Customers |-> Nobody]
    /\ owner \in {f \in [Rows -> Customers \cup {Nobody}] : \A r \in Rows : f[r] \in {r, Nobody}}
    /\ amount = Opening
    /\ home = [c \in Customers |-> c]
    /\ \E holders \in SUBSET Customers : credit = [c \in Customers |-> c \in holders]
    /\ review = [p \in Pairs |-> "none"] /\ reviewing = {}
    /\ merge = [p \in Pairs |-> NoMerge]
    /\ booked = 0

-----------------------------------------------------------------------------
(* What happens around merges.                                             *)

\* An import, or a customer created by hand, finds two similar names.
PairFound(p) ==
    /\ review[p] = "none" /\ review' = [review EXCEPT ![p] = "pending"]
    /\ UNCHANGED <<mergedInto, owner, amount, home, credit, reviewing, merge, booked>>

ReviewRead(p) ==
    /\ reviewing = {} /\ review[p] = "pending" /\ reviewing' = {p}
    /\ UNCHANGED <<mergedInto, owner, amount, home, credit, review, merge, booked>>

\* What became of the pair since is not looked at.
ReviewCommit(p) ==
    /\ p \in reviewing /\ reviewing' = {}
    /\ review' = [review EXCEPT ![p] = "separate"]
    /\ UNCHANGED <<mergedInto, owner, amount, home, credit, merge, booked>>

\* An import writes a customer's balance.
BalanceChanges(r) ==
    /\ booked < MaxBookings /\ amount[r] < MaxAmount /\ owner[r] \in Unmerged
    /\ amount' = [amount EXCEPT ![r] = @ + 1] /\ booked' = booked + 1
    /\ UNCHANGED <<mergedInto, owner, home, credit, review, reviewing, merge>>

\* The 24 hours are over, and what was saved is of no more use.
GraceEnds(p) ==
    /\ merge[p].status = "active"
    /\ merge' = [merge EXCEPT ![p] = [status |-> "final", master |-> @.master, source |-> @.source]]
    /\ UNCHANGED <<mergedInto, owner, amount, home, credit, review, reviewing, booked>>

-----------------------------------------------------------------------------
(* Merging.                                                                *)

\* Mutant of Mergeable: a record merged before may be merged again.
AnyPair(m, s) == TRUE

Mergeable(m, s) == mergedInto[m] = Nobody /\ mergedInto[s] = Nobody

\* Mutant of RecordsOf: only what was first made for the customer moves.
OwnRecords(c) == {r \in Customers : r = c /\ home[r] = c}

RecordsOf(c) == {r \in Customers : home[r] = c}

PendingWith(c) == {p \in Pairs : c \in p /\ review[p] = "pending"}

\* The source's balance is added to the master's row of the currency; without one,
\* the source's row moves.
Merge(p, m) ==
    LET s == CHOOSE c \in p : c # m
        moves == RowsOf(m) = {}
        sum == Sum(RowsOf(m)) + Sum(RowsOf(s))
        touched == IF RowsOf(s) = {} THEN {} ELSE IF moves THEN RowsOf(s) ELSE RowsOf(m)
    IN /\ review[p] = "pending" /\ m \in p
       /\ Mergeable(m, s) /\ ~ (credit[m] /\ credit[s]) /\ sum <= MaxAmount
       /\ owner' = [r \in Rows |-> IF moves /\ r \in RowsOf(s) THEN m ELSE owner[r]]
       /\ amount' = [r \in Rows |-> IF r \in touched THEN sum ELSE amount[r]]
       /\ home' = [r \in Customers |-> IF r \in RecordsOf(s) THEN m ELSE home[r]]
       /\ credit' = [credit EXCEPT ![m] = @ \/ credit[s], ![s] = FALSE]
       /\ review' = [q \in Pairs |-> IF q \in PendingWith(s) THEN "merged" ELSE review[q]]
       /\ merge' = [merge EXCEPT ![p] =
            [status |-> "active", master |-> m, source |-> s,
             records |-> RecordsOf(s), pairs |-> PendingWith(s), credit |-> credit[s],
             rows |-> IF moves THEN RowsOf(s) ELSE {},
             before |-> [r \in RowsOf(m) |-> amount[r]], expected |-> [r \in touched |-> sum]]]
       /\ mergedInto' = [mergedInto EXCEPT ![s] = m]
       /\ UNCHANGED <<reviewing, booked>>

-----------------------------------------------------------------------------
(* Taking a merge back.                                                    *)

\* The rows the merge changed must be worth what it left, and a moved policy be
\* where it was moved.
Restorable(g) ==
    /\ \A r \in DOMAIN g.expected : amount[r] = g.expected[r]
    /\ g.credit => credit[g.master] /\ ~ credit[g.source]
    /\ g.rows # {} => RowsOf(g.source) \subseteq g.rows   \* one row per currency

\* Every balance the master had is put back, changed by the merge or not.
ReverseMerge(p) ==
    LET g == merge[p] IN
    /\ g.status = "active" /\ Restorable(g)
    /\ home' = [r \in Customers |-> IF r \in g.records THEN g.source ELSE home[r]]
    /\ owner' = [r \in Rows |-> IF r \in g.rows THEN g.source ELSE owner[r]]
    /\ amount' = [r \in Rows |-> IF r \in DOMAIN g.before THEN g.before[r] ELSE amount[r]]
    /\ credit' = [c \in Customers |-> IF ~ g.credit THEN credit[c]
                                      ELSE IF c = g.master THEN FALSE ELSE c = g.source \/ credit[c]]
    /\ review' = [q \in Pairs |-> IF q \in g.pairs THEN "pending" ELSE review[q]]
    /\ mergedInto' = [mergedInto EXCEPT ![g.source] = Nobody]
    /\ merge' = [merge EXCEPT ![p] = NoMerge]   \* reversed: nothing reads it again
    /\ UNCHANGED <<reviewing, booked>>

-----------------------------------------------------------------------------
MergesNext ==
    \/ \E p \in Pairs : \/ PairFound(p) \/ ReviewRead(p) \/ ReviewCommit(p) \/ GraceEnds(p) \/ ReverseMerge(p)
                        \/ \E m \in Customers : Merge(p, m)
    \/ \E r \in Rows : BalanceChanges(r)

MergesSpec == MergesInit /\ [][MergesNext]_mergeVars

-----------------------------------------------------------------------------
(* Properties.                                                             *)

\* Whatever is merged, taken back and merged again through reopened pairs, a merged
\* customer is the source of exactly one active merge, the one that names its
\* master: the merge that reverseMerge needs to bring the customer back.
MergedByOneMerge ==
    \A c \in Customers :
        LET active == {p \in Pairs : merge[p] # NoMerge /\ merge[p].source = c} IN
        IF mergedInto[c] = Nobody THEN active = {}
        ELSE Cardinality(active) = 1 /\ \A p \in active : merge[p].master = mergedInto[c]

\* No chain of merges, nor taking one of them back, leaves records with a customer
\* that is itself merged, where nobody would look for them.
RecordsInSight == \A r \in Customers : home[r] \in Unmerged

\* reverseMerge refuses "when the master's balance changed after the merge": so what
\* the customers in use are worth together is what they opened with and what was
\* booked since.
MergesKeepWorth ==
    [][LET worth == Sum({r \in Rows : owner[r] \in Unmerged}) IN worth' - booked' = worth - booked]_mergeVars
=============================================================================
