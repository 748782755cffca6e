-------------------------- MODULE InventoryMirror --------------------------
(***************************************************************************)
(* Snapshots of Oracle's inventory: a run is created, loaded in one        *)
(* transaction, validated and published; readers follow the active run,    *)
(* and rollback swaps it with the previous one.  Retention drops the rows  *)
(* of old runs, by a daily cleanup or by a compaction in two steps.        *)
(*                                                                         *)
(* Publication, rollback and retention lock the organization's row, so     *)
(* each is one step after its reads.  Runs are numbered as they start.     *)
(***************************************************************************)
EXTENDS Naturals, FiniteSets

CONSTANTS MaxRuns,    \* bound on the runs ever started
          Keep,       \* published runs retention keeps; at least 2
          Publishers  \* publications at work at once

ASSUME MirrorAssumption == MaxRuns \in Nat /\ Keep \in Nat \ {0, 1}

VARIABLES runStatus,   \* oracle_inventory_sync_runs.status
          holdsRows,   \* whether the mirror tables hold the run's rows
          valid,       \* whether those rows pass the validation
          young,       \* started less than two hours ago
          active,      \* oracle_inventory_active_snapshots, 0 for none
          previous,
          publishing,  \* the run each publication has looked at, 0 for none
          staged       \* the copy a compaction will start from

mirrorVars == <<runStatus, holdsRows, valid, young, active, previous, publishing, staged>>

Runs == 1 .. MaxRuns
RunStatus == {"none", "extracting", "validating", "published", "rejected", "failed", "retired"}
NoStage == [kept |-> {}, rows |-> {}, expired |-> {}]

MirrorTypeOK ==
    /\ runStatus \in [Runs -> RunStatus]
    /\ holdsRows \in [Runs -> BOOLEAN] /\ valid \in [Runs -> BOOLEAN]
    /\ young \in [Runs -> BOOLEAN]
    /\ active \in 0 .. MaxRuns /\ previous \in 0 .. MaxRuns
    /\ publishing \in [Publishers -> 0 .. MaxRuns]
    /\ staged \in [kept : SUBSET Runs, rows : SUBSET Runs, expired : SUBSET Runs]

MirrorInit ==
    /\ runStatus = [r \in Runs |-> "none"]
    /\ holdsRows = [r \in Runs |-> FALSE] /\ valid = [r \in Runs |-> FALSE]
    /\ young = [r \in Runs |-> FALSE]
    /\ active = 0 /\ previous = 0
    /\ publishing = [p \in Publishers |-> 0]
    /\ staged = NoStage

SetRun(r, s) == runStatus' = [runStatus EXCEPT ![r] = s]

-----------------------------------------------------------------------------
(* Loading.                                                                *)

CreateRun(r) ==
    /\ runStatus[r] = "none" /\ \A q \in Runs : q < r => runStatus[q] # "none"
    /\ SetRun(r, "extracting") /\ young' = [young EXCEPT ![r] = TRUE]
    /\ UNCHANGED <<holdsRows, valid, active, previous, publishing, staged>>

\* The transaction ends within minutes of the run's start.
Load(r) ==
    /\ runStatus[r] = "extracting" /\ young[r]
    /\ SetRun(r, "validating") /\ holdsRows' = [holdsRows EXCEPT ![r] = TRUE]
    /\ \E v \in BOOLEAN : valid' = [valid EXCEPT ![r] = v]
    /\ UNCHANGED <<young, active, previous, publishing, staged>>

\* A loader that dies instead leaves the run extracting.
LoadFails(r) ==
    /\ runStatus[r] = "extracting" /\ young[r] /\ SetRun(r, "failed")
    /\ UNCHANGED <<holdsRows, valid, young, active, previous, publishing, staged>>

TwoHoursPass(r) ==
    /\ young[r] /\ young' = [young EXCEPT ![r] = FALSE]
    /\ UNCHANGED <<runStatus, holdsRows, valid, active, previous, publishing, staged>>

-----------------------------------------------------------------------------
(* Publication and rollback.                                               *)

\* The status is looked at before the locks are taken.
PublishRead(p, r) ==
    /\ publishing[p] = 0 /\ runStatus[r] = "validating"
    /\ publishing' = [publishing EXCEPT ![p] = r]
    /\ UNCHANGED <<runStatus, holdsRows, valid, young, active, previous, staged>>

\* The validation under the locks counts the rows again.
Passes(r) == holdsRows[r] /\ valid[r]

\* The deferred trigger on the pair of pointers.
PointersAllowed(a, b) == runStatus'[a] = "published" /\ (b # 0 => runStatus'[b] = "published")

PublishCommit(p) ==
    /\ publishing[p] # 0
    /\ publishing' = [publishing EXCEPT ![p] = 0]
    /\ LET r == publishing[p] IN
       IF runStatus[r] \notin {"validating", "published"}
       THEN UNCHANGED <<runStatus, active, previous>>
       ELSE IF Passes(r)
       THEN /\ SetRun(r, "published") /\ active' = r /\ previous' = active
            /\ PointersAllowed(r, active)
       ELSE SetRun(r, "rejected") /\ UNCHANGED <<active, previous>>
    /\ UNCHANGED <<holdsRows, valid, young, staged>>

\* The process or the transaction dies.
PublishFails(p) ==
    /\ publishing[p] # 0 /\ publishing' = [publishing EXCEPT ![p] = 0]
    /\ UNCHANGED <<runStatus, holdsRows, valid, young, active, previous, staged>>

Rollback ==
    /\ active # 0 /\ previous # 0 /\ runStatus[previous] = "published"
    /\ active' = previous /\ previous' = active
    /\ runStatus[active] = "published"
    /\ UNCHANGED <<runStatus, holdsRows, valid, young, publishing, staged>>

-----------------------------------------------------------------------------
(* Retention.                                                              *)

Published == {r \in Runs : runStatus[r] = "published"}
LatestPublished == {r \in Published : Cardinality({q \in Published : q > r}) < Keep}
LatestPending == {r \in Runs : /\ runStatus[r] \in {"validating", "extracting"}
                               /\ \A q \in Runs : q > r => runStatus[q] # runStatus[r]}

\* Mutant of Pointed: what a rollback would restore is not kept.
PointedNow == {active}

Pointed == {active, previous}

Started == {r \in Runs : runStatus[r] # "none"}

\* The run of the last heartbeat is kept as well; leaving that out, more expires.
Expired == {r \in Started : runStatus[r] # "retired" /\ ~ young[r]}
              \ (LatestPublished \cup LatestPending \cup Pointed)
Kept == Started \ Expired

Retire(runs) == runStatus' = [r \in Runs |-> IF r \in runs THEN "retired" ELSE runStatus[r]]

\* The cleanup deletes rows, which the trigger on the mirror tables forbids: it
\* only goes through when what expires has none.
Cleanup ==
    /\ Expired # {} /\ \A r \in Expired : ~ holdsRows[r]
    /\ Retire(Expired)
    /\ UNCHANGED <<holdsRows, valid, young, active, previous, publishing, staged>>

Stage ==
    /\ staged' = [kept |-> Kept, rows |-> {r \in Kept : holdsRows[r]}, expired |-> Expired]
    /\ staged' # staged
    /\ UNCHANGED <<runStatus, holdsRows, valid, young, active, previous, publishing>>

\* Mutant of SameProtection: the staged sets are believed.
AnyProtection == TRUE

\* "Protected run set changed; create a fresh backup".
SameProtection == Kept \subseteq staged.kept

\* The tables are truncated and filled from the copy.
Compact ==
    /\ staged # NoStage /\ SameProtection
    /\ holdsRows' = [r \in Runs |-> r \in staged.rows]
    /\ Retire(staged.expired)
    /\ UNCHANGED <<valid, young, active, previous, publishing, staged>>

-----------------------------------------------------------------------------
MirrorNext ==
    \/ \E r \in Runs : CreateRun(r) \/ Load(r) \/ LoadFails(r) \/ TwoHoursPass(r)
    \/ \E p \in Publishers : PublishCommit(p) \/ PublishFails(p) \/ \E r \in Runs : PublishRead(p, r)
    \/ Rollback \/ Cleanup \/ Stage \/ Compact

MirrorSpec == MirrorInit /\ [][MirrorNext]_mirrorVars

-----------------------------------------------------------------------------
(* Properties.                                                             *)

\* "Preserve the last usable snapshot": however publications and rollbacks fall
\* between the staging of a copy and its compaction, neither the active run nor the
\* one a rollback would restore is ever retired.
PointersNotRetired == \A r \in {active, previous} \ {0} : runStatus[r] # "retired"
=============================================================================
