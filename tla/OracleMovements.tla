-------------------------- MODULE OracleMovements --------------------------
(***************************************************************************)
(* Automatic publication of Oracle's customer movements.  Snapshots of the *)
(* movements arrive; a baseline marks the lines already known; from then   *)
(* on each publication takes the lines of the latest snapshot that the     *)
(* ledger does not settle, and a batch can be rolled back.                 *)
(*                                                                         *)
(* The module follows the lines of ONE document of one customer: lines of  *)
(* different documents never meet in the code.  A line is its fingerprint, *)
(* so an edited line is another line.  A command reads before it takes the *)
(* advisory lock.  Under it a publication reads the statement and books    *)
(* later; the imports of accounting files take no lock and fall anywhere.  *)
(***************************************************************************)
EXTENDS Naturals, FiniteSetsExt

CONSTANTS Lines, Amount,   \* the lines of the document and what each is worth
          Malformed,       \* those without an amount on exactly one side
          Chunks,          \* what of the document a file may bring at once
          Commands,        \* runs of the command line at work at once
          MaxSnapshots, MaxBatches   \* bounds on the snapshots and the batches

ASSUME MovementsAssumption ==
    Amount \in [Lines -> Nat] /\ Malformed \subseteq Lines /\ Chunks \subseteq SUBSET Lines
    /\ MaxSnapshots \in Nat /\ MaxBatches \in Nat

VARIABLES oracleLines,  \* the lines of each snapshot
          latest,       \* the latest validated snapshot, 0 for none
          baseline,     \* the switch: whether the baseline was taken,
          enabled,      \*   and whether publication is on
          known,        \* whether the platform has the customer
          live,         \* imported_transactions not reversed: origin and line
          ledger,       \* oracle_movement_publication_ledger: status by line
          batchOf,      \*   and the batch that settled it
          batchStatus,  \* oracle_movement_publication_batches
          command       \* what each command has read

movementVars == <<oracleLines, latest, baseline, enabled, known, live, ledger,
                  batchOf, batchStatus, command>>

Snapshots == 1 .. MaxSnapshots
Batches == 1 .. MaxBatches
\* Rows of accounting files, rows approved by hand, and rows of this service.
Origins == {"file", "approved", "auto"}
LedgerStatus == {"none", "baseline", "published", "ignored", "quarantined", "reversed"}
NoCommand == [does |-> "nothing", on |-> 0]
Works == {NoCommand} \cup [does : {"baseline", "publish"}, on : Snapshots]
         \cup [does : {"rollback"}, on : Batches]
         \cup [does : {"settle"}, on : Snapshots, platform : {"none", "same", "other"}, knew : BOOLEAN]

MovementsTypeOK ==
    /\ oracleLines \in [Snapshots -> SUBSET Lines] /\ latest \in 0 .. MaxSnapshots
    /\ baseline \in BOOLEAN /\ enabled \in BOOLEAN /\ known \in BOOLEAN
    /\ live \in SUBSET (Origins \X Lines)
    /\ ledger \in [Lines -> LedgerStatus] /\ batchOf \in [Lines -> 0 .. MaxBatches]
    /\ batchStatus \in [Batches -> {"none", "completed", "reversed"}]
    /\ command \in [Commands -> Works]

\* What the platform knows of the document was approved by hand before the baseline.
MovementsInit ==
    /\ oracleLines = [s \in Snapshots |-> {}] /\ latest = 0
    /\ baseline = FALSE /\ enabled = FALSE /\ known \in BOOLEAN
    /\ \E approved \in SUBSET Lines :
          (approved # {} => known) /\ live = {"approved"} \X approved
    /\ ledger = [f \in Lines |-> "none"] /\ batchOf = [f \in Lines |-> 0]
    /\ batchStatus = [b \in Batches |-> "none"]
    /\ command = [c \in Commands |-> NoCommand]

Worth(lines) == MapThenSumSet(LAMBDA f : Amount[f], lines)
RowsWorth(rows) == MapThenSumSet(LAMBDA row : Amount[row[2]], rows)

\* The advisory lock is held from a publication's reading to its end.
Unlocked == \A c \in Commands : command[c].does # "settle"

Begin(c, what, on) ==
    /\ command[c] = NoCommand /\ command' = [command EXCEPT ![c] = [does |-> what, on |-> on]]
    /\ UNCHANGED <<oracleLines, latest, baseline, enabled, known, live, ledger, batchOf, batchStatus>>

Done(c) == command' = [command EXCEPT ![c] = NoCommand]

-----------------------------------------------------------------------------
(* The mirror.  A snapshot appears whole, with its transaction's commit.   *)

TakeSnapshot ==
    /\ latest < MaxSnapshots
    /\ latest' = latest + 1
    /\ \E lines \in SUBSET Lines : oracleLines' = [oracleLines EXCEPT ![latest + 1] = lines]
    /\ UNCHANGED <<baseline, enabled, known, live, ledger, batchOf, batchStatus, command>>

-----------------------------------------------------------------------------
(* Accounting files.  A row is known by the hash of the file's own line,   *)
(* unique among the rows not reversed, and nothing relates it to a         *)
(* fingerprint: a line this service or an approval booked is booked again. *)
(* The customer is created first; the rows follow chunk by chunk in no     *)
(* common transaction, and those already there are skipped.                *)

FileImport(lines) ==
    /\ known' = TRUE
    /\ live' = live \cup ({"file"} \X lines)
    /\ UNCHANGED <<oracleLines, latest, baseline, enabled, ledger, batchOf, batchStatus, command>>

\* An import taken back reverses its rows; the module Imports says when it may.
FileReversed(lines) ==
    /\ {"file"} \X lines \subseteq live
    /\ live' = live \ ({"file"} \X lines)
    /\ UNCHANGED <<oracleLines, latest, baseline, enabled, known, ledger, batchOf, batchStatus, command>>

-----------------------------------------------------------------------------
(* The baseline and the switch.                                            *)

BaselineRead(c) == ~ baseline /\ latest # 0 /\ Begin(c, "baseline", latest)

\* A line approved by hand is published already, any other is history.  The
\* insertion leaves the lines the ledger has.
BaselineCommit(c) ==
    /\ command[c].does = "baseline" /\ Unlocked /\ Done(c)
    /\ IF baseline THEN UNCHANGED <<baseline, enabled, ledger>>
       ELSE /\ baseline' = TRUE /\ enabled' = FALSE
            /\ ledger' = [f \in Lines |->
                 IF f \notin oracleLines[command[c].on] \/ ledger[f] # "none" THEN ledger[f]
                 ELSE IF <<"approved", f>> \in live THEN "published" ELSE "baseline"]
    /\ UNCHANGED <<oracleLines, latest, known, live, batchOf, batchStatus>>

\* The read before the lock decides; what it writes back has not changed since.
Configure(e) ==
    /\ baseline /\ enabled # e /\ Unlocked /\ enabled' = e
    /\ UNCHANGED <<oracleLines, latest, baseline, known, live, ledger, batchOf, batchStatus, command>>

-----------------------------------------------------------------------------
(* Publication.                                                            *)

PublishReads(c) == baseline /\ enabled /\ Begin(c, "publish", latest)

\* The document's live rows beside Oracle's lines of it, both summed.
Platform(s) ==
    IF live = {} THEN "none" ELSE IF RowsWorth(live) = Worth(oracleLines[s]) THEN "same" ELSE "other"

\* The switch is read again under the lock; customers of the latest mirror are
\* created; then the lines are classified by the rows that are live now.
PublishClassifies(c) ==
    /\ command[c].does = "publish" /\ Unlocked
    /\ IF enabled
       THEN \E knew \in {known, TRUE} : command' =
              [command EXCEPT ![c] = [does |-> "settle", on |-> command[c].on,
                                          platform |-> Platform(command[c].on), knew |-> knew]]
       ELSE Done(c)
    /\ UNCHANGED <<oracleLines, latest, baseline, enabled, known, live, ledger, batchOf, batchStatus>>

\* Mutant of Candidates: every line whose row is not live is offered again.
NotLive(s) == {f \in oracleLines[s] : \A o \in Origins : <<o, f>> \notin live}

Candidates(s) == {f \in oracleLines[s] : ledger[f] \in {"none", "quarantined"}}

\* Mutant of Override: an edited document is added to what is there.
NoOverride(w) == FALSE

Override(w) == w.platform = "other"

\* Nothing of an unknown customer is booked and no malformed line; the sums that
\* are compared are of the whole document.
Verdict(w, f) ==
    IF ~ w.knew \/ f \in Malformed THEN "quarantined"
    ELSE IF w.platform = "same" THEN "ignored"
    ELSE "published"

Booked(w) == {f \in Candidates(w.on) : Verdict(w, f) = "published"}

NextBatch == 1 + Cardinality({b \in Batches : batchStatus[b] # "none"})

\* The first line an override books reverses every row that is live by then.
Settle(w) ==
    /\ live' = IF Booked(w) # {} /\ Override(w) THEN {"auto"} \X Booked(w)
               ELSE live \cup ({"auto"} \X Booked(w))
    /\ IF Candidates(w.on) = {} THEN UNCHANGED <<ledger, batchOf, batchStatus>>
       ELSE /\ NextBatch \in Batches
            /\ ledger' = [f \in Lines |-> IF f \in Candidates(w.on) THEN Verdict(w, f) ELSE ledger[f]]
            /\ batchOf' = [f \in Lines |-> IF f \in Candidates(w.on) THEN NextBatch ELSE batchOf[f]]
            /\ batchStatus' = [batchStatus EXCEPT ![NextBatch] = "completed"]

PublishCommits(c) ==
    /\ command[c].does = "settle" /\ Done(c)
    /\ known' = (known \/ command[c].knew) /\ Settle(command[c])
    /\ UNCHANGED <<oracleLines, latest, baseline, enabled>>

-----------------------------------------------------------------------------
(* Rollback of a batch: its rows are reversed, and its lines with them.    *)

PublishedBy(b) == {f \in Lines : batchOf[f] = b /\ ledger[f] = "published"}

\* The lines of a completed batch are published or reversed together, so the rows
\* read before the lock are those of the batch's published lines.
RollbackRead(c, b) == batchStatus[b] = "completed" /\ Begin(c, "rollback", b)

RollbackCommit(c) ==
    /\ command[c].does = "rollback" /\ Unlocked /\ Done(c)
    /\ LET b == command[c].on IN
         /\ live' = live \ ({"auto"} \X PublishedBy(b))
         /\ ledger' = [f \in Lines |-> IF f \in PublishedBy(b) THEN "reversed" ELSE ledger[f]]
         /\ batchStatus' = [batchStatus EXCEPT ![b] = "reversed"]
    /\ UNCHANGED <<oracleLines, latest, baseline, enabled, known, batchOf>>

\* The process or its transaction dies.
CommandFails(c) ==
    /\ command[c] # NoCommand /\ Done(c)
    /\ UNCHANGED <<oracleLines, latest, baseline, enabled, known, live, ledger, batchOf, batchStatus>>

-----------------------------------------------------------------------------
MovementsNext ==
    \/ TakeSnapshot \/ \E e \in BOOLEAN : Configure(e)
    \/ \E lines \in Chunks : FileImport(lines) \/ FileReversed(lines)
    \/ \E c \in Commands :
          \/ BaselineRead(c) \/ BaselineCommit(c)
          \/ PublishReads(c) \/ PublishClassifies(c) \/ PublishCommits(c)
          \/ (\E b \in Batches : RollbackRead(c, b)) \/ RollbackCommit(c) \/ CommandFails(c)

MovementsSpec == MovementsInit /\ [][MovementsNext]_movementVars

-----------------------------------------------------------------------------
(* Properties.                                                             *)

Twice(f) == \E o, p \in Origins : o # p /\ <<o, f>> \in live /\ <<p, f>> \in live

\* Only an accounting file puts a line on the customer's statement twice: at the
\* step after which the line is there twice, the file's row either arrives or is
\* one the publication that books the line had not seen, as it had found the
\* document without any row when it classified it.  No publication books a line
\* beside rows it saw, be they of a file, of an approval or of a publication,
\* however edits, overrides, reversals and rollbacks follow.
DoubledOnlyByFile ==
    [][\A f \in Lines : Twice(f)' /\ ~ Twice(f) =>
          /\ <<"file", f>> \in live'
          /\ \/ <<"file", f>> \notin live
             \/ \E c \in Commands : /\ command[c].does = "settle" /\ command'[c] = NoCommand
                                    /\ command[c].platform = "none"]_movementVars

\* "All existing mirror movements are blocked from future automatic publication",
\* and a rolled back batch stays out: a line the ledger holds as baseline or as
\* reversed keeps that status and never gets a live row of this service.
BlockedStaysOut ==
    [][\A f \in Lines : ledger[f] \in {"baseline", "reversed"} =>
          ledger'[f] = ledger[f] /\ <<"auto", f>> \notin live']_movementVars
=============================================================================
