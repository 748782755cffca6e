------------------------------ MODULE Imports ------------------------------
(***************************************************************************)
(* Imports of the customers' balances.  A file uploaded as a dry run is    *)
(* executed row by row, outside any transaction, between two pictures of   *)
(* what it touches; the latest completed import can be reversed from those *)
(* pictures, in one serializable transaction.                              *)
(*                                                                         *)
(* A balance is named by the import that wrote it: last_import_job_id, and *)
(* with it the amounts of that file's row.                                 *)
(***************************************************************************)
EXTENDS Naturals, FiniteSets

CONSTANTS ImportJobs, Codes,   \* the files, and the customers' codes
          FileRows,            \* the codes of each file
          Workers,             \* requests at work at once
          MaxExecutions              \* bound on the executions and the reversals

ASSUME ImportsAssumption ==
    FileRows \in [ImportJobs -> SUBSET Codes] /\ {"none", "old"} \cap ImportJobs = {}

VARIABLES jobStatus,   \* import_jobs.status
          doneAt,      \* import_jobs.imported_at, 0 for never
          rollback,    \* import_jobs.rollback_state: the pictures
          balance,     \* who wrote each customer's balance
          deleted,     \* balance rows deleted so far: the row's identity
          customer,    \* customers.status, "none" before the first import
          createdByImportJob,   \* customers.created_by_import_job
          busy,        \* the customer has receipts, promises, tasks...
          work,        \* what each request is doing
          runs         \* executions and reversals so far

importVars == <<jobStatus, doneAt, rollback, balance, deleted, customer, createdByImportJob, busy, work, runs>>

Writers == {"none", "old"} \cup ImportJobs
JobStatus == {"dry_run", "running", "completed", "failed", "reversed"}
NoWork == [does |-> "nothing"]
NoPictures == [before |-> "none", after |-> "none"]

ImportsInit ==
    /\ jobStatus = [j \in ImportJobs |-> "dry_run"] /\ doneAt = [j \in ImportJobs |-> 0]
    /\ rollback = [j \in ImportJobs |-> NoPictures]
    /\ \E known \in SUBSET Codes :
          /\ customer = [c \in Codes |-> IF c \in known THEN "active" ELSE "none"]
          /\ balance = [c \in Codes |-> IF c \in known THEN "old" ELSE "none"]
    /\ deleted = [c \in Codes |-> 0]
    /\ createdByImportJob = [c \in Codes |-> "none"] /\ busy = [c \in Codes |-> FALSE]
    /\ work = [w \in Workers |-> NoWork] /\ runs = 0

\* The customers of the file with their status, and their balances.
Picture(j) ==
    [c \in FileRows[j] |-> [customer |-> customer[c], balance |-> balance[c], row |-> deleted[c]]]

Does(w, step) == work[w].does = step
Turn(w, next) == work' = [work EXCEPT ![w] = next]

-----------------------------------------------------------------------------
(* Execution.                                                              *)

ExecuteRead(w, j) ==
    /\ runs < MaxExecutions /\ runs' = runs + 1
    /\ Does(w, "nothing") /\ jobStatus[j] = "dry_run"
    /\ Turn(w, [does |-> "look", job |-> j])
    /\ UNCHANGED <<jobStatus, doneAt, rollback, balance, deleted, customer, createdByImportJob, busy>>

CaptureBefore(w) ==
    /\ Does(w, "look")
    /\ Turn(w, [does |-> "start", job |-> work[w].job, before |-> Picture(work[w].job)])
    /\ UNCHANGED <<jobStatus, doneAt, rollback, balance, deleted, customer, createdByImportJob, busy, runs>>

\* The status read first is not looked at again.
StartRows(w) ==
    /\ Does(w, "start")
    /\ LET j == work[w].job IN
         /\ jobStatus' = [jobStatus EXCEPT ![j] = "running"]
         /\ rollback' = [rollback EXCEPT ![j] = [before |-> work[w].before, after |-> "none"]]
         /\ Turn(w, [does |-> "rows", job |-> j, before |-> work[w].before, left |-> FileRows[j]])
    /\ UNCHANGED <<doneAt, balance, deleted, customer, createdByImportJob, busy, runs>>

\* The customer is created, or brought back, and the balance overwritten.
WriteRow(w, c) ==
    /\ Does(w, "rows") /\ c \in work[w].left
    /\ LET j == work[w].job IN
         /\ balance' = [balance EXCEPT ![c] = j]
         /\ customer' = [customer EXCEPT ![c] = "active"]
         /\ createdByImportJob' = [createdByImportJob EXCEPT ![c] = IF customer[c] = "none" THEN j ELSE @]
    /\ Turn(w, [work[w] EXCEPT !.left = @ \ {c}])
    /\ UNCHANGED <<jobStatus, doneAt, rollback, deleted, busy, runs>>

\* An error in a row is noted, and the rows go on.
SkipRow(w, c) ==
    /\ Does(w, "rows") /\ c \in work[w].left
    /\ Turn(w, [work[w] EXCEPT !.left = @ \ {c}])
    /\ UNCHANGED <<jobStatus, doneAt, rollback, balance, deleted, customer, createdByImportJob, busy, runs>>

CaptureAfter(w) ==
    /\ Does(w, "rows") /\ work[w].left = {}
    /\ Turn(w, [does |-> "finish", job |-> work[w].job, before |-> work[w].before,
                after |-> Picture(work[w].job)])
    /\ UNCHANGED <<jobStatus, doneAt, rollback, balance, deleted, customer, createdByImportJob, busy, runs>>

Latest(time) == \A j \in ImportJobs : jobStatus[j] = "completed" => doneAt[j] <= time
Now == CHOOSE t \in 1 .. 2 * MaxExecutions :
           /\ \A j \in ImportJobs : doneAt[j] < t
           /\ (t = 1 \/ \E j \in ImportJobs : doneAt[j] = t - 1)

Complete(w) ==
    /\ Does(w, "finish")
    /\ LET j == work[w].job IN
         /\ jobStatus' = [jobStatus EXCEPT ![j] = "completed"]
         /\ doneAt' = [doneAt EXCEPT ![j] = Now]
         /\ rollback' = [rollback EXCEPT ![j] = [before |-> work[w].before, after |-> work[w].after]]
    /\ Turn(w, NoWork)
    /\ UNCHANGED <<balance, deleted, customer, createdByImportJob, busy, runs>>

Executing(w) == work[w].does \in {"look", "start", "rows", "finish"}

ExecuteFails(w) ==
    /\ Executing(w) /\ Turn(w, NoWork)
    /\ jobStatus' = [jobStatus EXCEPT ![work[w].job] = "failed"]
    /\ UNCHANGED <<doneAt, rollback, balance, deleted, customer, createdByImportJob, busy, runs>>

\* The process dies, and the job stays as it is.
WorkerDies(w) ==
    /\ ~ Does(w, "nothing") /\ Turn(w, NoWork)
    /\ UNCHANGED <<jobStatus, doneAt, rollback, balance, deleted, customer, createdByImportJob, busy, runs>>

-----------------------------------------------------------------------------
(* Reversal.                                                               *)

\* Only what the import left as it is now may be taken back, and a customer it
\* created only while nothing was done with the customer.  A balance row it is to
\* restore must still be there.
Reversible(j) ==
    LET before == rollback[j].before
        after == rollback[j].after
    IN /\ jobStatus[j] = "completed" /\ Latest(doneAt[j])
       /\ \A c \in FileRows[j] :
             /\ after[c].customer # "none" => customer[c] = after[c].customer
             /\ after[c].balance # "none" => balance[c] = after[c].balance
             /\ before[c].balance # "none" => balance[c] # "none" /\ deleted[c] = before[c].row
             /\ before[c].customer = "none" => ~ busy[c]

\* The transaction reads its snapshot.
ReverseRead(w, j) ==
    /\ runs < MaxExecutions /\ runs' = runs + 1
    /\ Does(w, "nothing") /\ Reversible(j)
    /\ Turn(w, [does |-> "reverse", job |-> j, seen |-> Picture(j), pictures |-> rollback[j]])
    /\ UNCHANGED <<jobStatus, doneAt, rollback, balance, deleted, customer, createdByImportJob, busy>>

\* Mutant of SameRows: the transaction overwrites what was written since it began.
AnyRows(w) == TRUE

\* What the reversal writes: it restores what was there before, deletes the balances
\* the import created and archives the customers it created.
Restored(w) == {c \in FileRows[work[w].job] : work[w].pictures.before[c].balance # "none"}
Deleted(w) == {c \in FileRows[work[w].job] \ Restored(w) :
                 work[w].pictures.after[c].balance # "none" /\ work[w].seen[c].balance = work[w].job}
KnownBefore(w) == {c \in FileRows[work[w].job] : work[w].pictures.before[c].customer # "none"}
Archived(w) == {c \in FileRows[work[w].job] \ KnownBefore(w) : createdByImportJob[c] = work[w].job}

\* A serializable transaction fails on a row changed since its snapshot.
SameRows(w) ==
    LET j == work[w].job IN
    /\ jobStatus[j] = "completed" /\ rollback[j] = work[w].pictures
    /\ \A c \in Restored(w) \cup Deleted(w) :
          balance[c] = work[w].seen[c].balance /\ deleted[c] = work[w].seen[c].row
    /\ \A c \in KnownBefore(w) \cup Archived(w) : customer[c] = work[w].seen[c].customer

ReverseCommit(w) ==
    /\ Does(w, "reverse") /\ SameRows(w) /\ Turn(w, NoWork)
    /\ jobStatus' = [jobStatus EXCEPT ![work[w].job] = "reversed"]
    /\ balance' = [c \in Codes |-> IF c \in Restored(w) THEN work[w].pictures.before[c].balance
                                   ELSE IF c \in Deleted(w) THEN "none" ELSE balance[c]]
    /\ deleted' = [c \in Codes |-> IF c \in Deleted(w) THEN deleted[c] + 1 ELSE deleted[c]]
    /\ customer' = [c \in Codes |-> IF c \in KnownBefore(w) THEN work[w].pictures.before[c].customer
                                    ELSE IF c \in Archived(w) THEN "import_reversed" ELSE customer[c]]
    /\ UNCHANGED <<doneAt, rollback, createdByImportJob, busy, runs>>

-----------------------------------------------------------------------------
\* A receipt, a promise, a task... is written for the customer.
Activity(c) ==
    /\ customer[c] = "active" /\ ~ busy[c] /\ busy' = [busy EXCEPT ![c] = TRUE]
    /\ UNCHANGED <<jobStatus, doneAt, rollback, balance, deleted, customer, createdByImportJob, work, runs>>

ImportsNext ==
    \/ \E w \in Workers :
          \/ CaptureBefore(w) \/ StartRows(w) \/ CaptureAfter(w) \/ Complete(w)
          \/ ExecuteFails(w) \/ WorkerDies(w) \/ ReverseCommit(w)
          \/ \E j \in ImportJobs : ExecuteRead(w, j) \/ ReverseRead(w, j)
          \/ \E c \in Codes : WriteRow(w, c) \/ SkipRow(w, c)
    \/ \E c \in Codes : Activity(c)

ImportsSpec == ImportsInit /\ [][ImportsNext]_importVars

-----------------------------------------------------------------------------
(* Properties.                                                             *)

\* However its transaction interleaves with executions that write row by row, the
\* reversal of an import changes a balance only where the balance is still what the
\* import's closing picture shows: nothing written later is taken back with it.
ReversalSparesOthers ==
    [][\A j \in ImportJobs : (jobStatus[j] = "completed" /\ jobStatus'[j] = "reversed") =>
          \A c \in Codes : balance'[c] # balance[c] => balance[c] = rollback[j].after[c].balance]_importVars
=============================================================================
