---------------------------- MODULE RecordsProofs ----------------------------
(***************************************************************************)
(* Proofs about the records the backend keeps of others: the mirror of the *)
(* Oracle inventory, the movements copied from Oracle and published, the   *)
(* customers that were found to be one, and the imports of accounting      *)
(* files.  Each stands alone.                                              *)
(***************************************************************************)
EXTENDS InventoryMirror, OracleMovements, CustomerMerges, Imports, FiniteSetTheorems, TLAPS

-----------------------------------------------------------------------------
(* The inventory mirror.  Retention never retires the run readers follow,  *)
(* nor the one a rollback would restore, for any number of runs,           *)
(* publishers and kept snapshots.                                          *)
(*                                                                         *)
(* What is published need not stay so: a second publication of the active  *)
(* run may find its rows gone and reject it.  So the invariant asks less   *)
(* of a pointer, that its run was started and is not retired, and more of  *)
(* a staged copy, that it does not keep what it will retire.               *)

PointersKept == \A r \in {active, previous} \ {0} : runStatus[r] \notin {"none", "retired"}

StageConsistent == staged.kept \cap staged.expired = {}

MirrorInv == MirrorTypeOK /\ PointersKept /\ StageConsistent

\* An empty mirror has no run to point at.
LEMMA MirrorInitially == MirrorInit => MirrorInv
BY MirrorAssumption DEF MirrorInit, MirrorInv, MirrorTypeOK, PointersKept, StageConsistent,
     NoStage, RunStatus, Runs

\* Changing the status of one run, to anything but 'none' or 'retired', spares the
\* pointers.
LEMMA SetRunSpares ==
    ASSUME MirrorInv, NEW r \in Runs, NEW s \in RunStatus \ {"none", "retired"}, SetRun(r, s),
           UNCHANGED <<active, previous>>
    PROVE  runStatus' \in [Runs -> RunStatus] /\ PointersKept'
<1>1. active \in 0 .. MaxRuns /\ previous \in 0 .. MaxRuns /\ runStatus \in [Runs -> RunStatus]
  BY DEF MirrorInv, MirrorTypeOK
<1>2. {active, previous} \ {0} \subseteq Runs
  BY <1>1, MirrorAssumption DEF Runs
<1> QED
  BY <1>1, <1>2 DEF SetRun, PointersKept, MirrorInv

\* What expires is started, and no pointer's run.
LEMMA ExpiredSpares == Expired \subseteq Started /\ Expired \cap {active, previous} = {}
BY DEF Expired, Pointed

\* No load, publication, rollback or cleanup breaks the invariant.
LEMMA MirrorNextInvariant == MirrorInv /\ [MirrorNext]_mirrorVars => MirrorInv'
<1> SUFFICES ASSUME MirrorInv, [MirrorNext]_mirrorVars PROVE MirrorInv'
  OBVIOUS
<1>t. MirrorTypeOK /\ PointersKept /\ StageConsistent
  BY DEF MirrorInv
<1>r. Runs \subseteq 1 .. MaxRuns /\ 0 \notin Runs /\ MaxRuns \in Nat
  BY MirrorAssumption DEF Runs
<1> USE DEF MirrorInv
<1>1. ASSUME NEW r \in Runs, CreateRun(r) PROVE MirrorInv'
  BY <1>1, <1>t, SetRunSpares DEF CreateRun, MirrorTypeOK, StageConsistent, RunStatus
<1>2. ASSUME NEW r \in Runs, Load(r) PROVE MirrorInv'
  BY <1>2, <1>t, SetRunSpares DEF Load, MirrorTypeOK, StageConsistent, RunStatus
<1>3. ASSUME NEW r \in Runs, LoadFails(r) PROVE MirrorInv'
  BY <1>3, <1>t, SetRunSpares DEF LoadFails, MirrorTypeOK, StageConsistent, RunStatus
<1>4. ASSUME NEW r \in Runs, TwoHoursPass(r) PROVE MirrorInv'
  BY <1>4, <1>t DEF TwoHoursPass, MirrorTypeOK, StageConsistent, PointersKept
<1>5. ASSUME NEW p \in Publishers, NEW r \in Runs, PublishRead(p, r) PROVE MirrorInv'
  BY <1>5, <1>t, <1>r DEF PublishRead, MirrorTypeOK, StageConsistent, PointersKept
<1>6. ASSUME NEW p \in Publishers, PublishFails(p) PROVE MirrorInv'
  BY <1>6, <1>t, <1>r DEF PublishFails, MirrorTypeOK, StageConsistent, PointersKept
<1>7. ASSUME NEW p \in Publishers, PublishCommit(p) PROVE MirrorInv'
  <2> DEFINE r == publishing[p]
  <2>1. r \in Runs
    BY <1>7, <1>t DEF PublishCommit, MirrorTypeOK, Runs
  <2>2. publishing' \in [Publishers -> 0 .. MaxRuns] /\ UNCHANGED <<holdsRows, valid, young, staged>>
    BY <1>7, <1>t, <1>r DEF PublishCommit, MirrorTypeOK
  <2>3. runStatus' \in [Runs -> RunStatus] /\ PointersKept' /\ active' \in 0 .. MaxRuns /\ previous' \in 0 .. MaxRuns
    <3>1. CASE runStatus[r] \notin {"validating", "published"}
      BY <1>7, <1>t, <3>1 DEF PublishCommit, MirrorTypeOK, PointersKept
    <3>2. CASE runStatus[r] \in {"validating", "published"} /\ Passes(r)
      <4>1. SetRun(r, "published") /\ active' = r /\ previous' = active
        BY <1>7, <3>2 DEF PublishCommit
      <4>2. runStatus' \in [Runs -> RunStatus]
        BY <1>t, <2>1, <4>1 DEF SetRun, MirrorTypeOK, RunStatus
      <4>3. \A q \in {active, previous} \ {0} : q \in Runs
        BY <1>t, <1>r DEF MirrorTypeOK, Runs
      <4>4. PointersKept'
        BY <1>t, <2>1, <4>1, <4>3 DEF SetRun, MirrorTypeOK, PointersKept
      <4> QED
        BY <1>t, <2>1, <4>1, <4>2, <4>4 DEF MirrorTypeOK, Runs
    <3>3. CASE runStatus[r] \in {"validating", "published"} /\ ~ Passes(r)
      <4>1. SetRun(r, "rejected") /\ UNCHANGED <<active, previous>>
        BY <1>7, <3>3 DEF PublishCommit
      <4> QED
        BY <1>t, <2>1, <4>1, SetRunSpares DEF RunStatus, MirrorTypeOK
    <3> QED
      BY <3>1, <3>2, <3>3
  <2> QED
    BY <1>t, <2>2, <2>3 DEF MirrorTypeOK, StageConsistent
<1>8. CASE Rollback
  BY <1>8, <1>t DEF Rollback, MirrorTypeOK, StageConsistent, PointersKept
<1>9. CASE Cleanup
  <2>1. runStatus' = [r \in Runs |-> IF r \in Expired THEN "retired" ELSE runStatus[r]]
    BY <1>9 DEF Cleanup, Retire
  <2>2. runStatus' \in [Runs -> RunStatus]
    BY <2>1, <1>t DEF MirrorTypeOK, RunStatus
  <2>3. \A r \in {active, previous} \ {0} : r \in Runs /\ r \notin Expired
    BY <1>t, <1>r, ExpiredSpares DEF MirrorTypeOK, Runs
  <2>4. PointersKept'
    BY <1>9, <1>t, <2>1, <2>3 DEF Cleanup, PointersKept
  <2> QED
    BY <1>9, <1>t, <2>2, <2>4 DEF Cleanup, MirrorTypeOK, StageConsistent
<1>10. CASE Stage
  <2>1. Kept \subseteq Runs /\ Expired \subseteq Runs /\ Kept \cap Expired = {}
    BY ExpiredSpares DEF Kept, Started
  <2>2. staged' = [kept |-> Kept, rows |-> {r \in Kept : holdsRows[r]}, expired |-> Expired]
    BY <1>10 DEF Stage
  <2>3. staged' \in [kept : SUBSET Runs, rows : SUBSET Runs, expired : SUBSET Runs] /\ StageConsistent'
    BY <2>1, <2>2 DEF StageConsistent
  <2> QED
    BY <1>10, <1>t, <2>3 DEF Stage, MirrorTypeOK, PointersKept
<1>11. CASE Compact
  <2>1. \A r \in {active, previous} \ {0} : r \in Kept
    BY <1>t, <1>r, ExpiredSpares DEF Kept, Started, PointersKept, MirrorTypeOK, Runs
  <2>2. \A r \in {active, previous} \ {0} : r \notin staged.expired
    BY <1>11, <1>t, <2>1 DEF Compact, SameProtection, StageConsistent
  <2>3. runStatus' \in [Runs -> RunStatus] /\ holdsRows' \in [Runs -> BOOLEAN]
    BY <1>11, <1>t DEF Compact, Retire, MirrorTypeOK, RunStatus
  <2>4. PointersKept'
    BY <1>11, <1>t, <1>r, <2>2 DEF Compact, Retire, PointersKept, MirrorTypeOK, Runs
  <2> QED
    BY <1>11, <1>t, <2>3, <2>4 DEF Compact, MirrorTypeOK, StageConsistent
<1>12. CASE UNCHANGED mirrorVars
  BY <1>12, <1>t DEF mirrorVars, MirrorTypeOK, PointersKept, StageConsistent
<1> QED
  BY <1>1, <1>2, <1>3, <1>4, <1>5, <1>6, <1>7, <1>8, <1>9, <1>10, <1>11, <1>12 DEF MirrorNext

\* The invariant of the mirror's pointers and of a staged copy (publish,
\* rollbackToPrevious, oracle-mirror-retention.cjs).
THEOREM MirrorInvariance == MirrorSpec => []MirrorInv
BY MirrorInitially, MirrorNextInvariant, PTL DEF MirrorSpec

\* Neither the active run nor the one a rollback would restore is ever retired,
\* however publications and rollbacks fall between the staging of a copy and its
\* compaction (plan, SameProtection, retireRuns).
THEOREM PointersNeverRetired == MirrorSpec => []PointersNotRetired
<1>1. MirrorInv => PointersNotRetired
  BY DEF MirrorInv, PointersKept, PointersNotRetired
<1> QED
  BY <1>1, MirrorInvariance, PTL

-----------------------------------------------------------------------------
(* The movements.  Only an accounting file puts a line on the statement    *)
(* twice, and what the ledger settled as baseline or as reversed stays     *)
(* out, for any lines, amounts, commands and bounds on snapshots, batches. *)
(*                                                                         *)
(* The ledger alone decides what is offered, so the invariant must tie it  *)
(* to the statement: a live row of this service is of a published line.    *)
(* That nothing of the document is live when a publication books is not an *)
(* invariant but follows from the verdict: rows of the same worth make it  *)
(* ignore, and rows of another worth are reversed first.  It is the rows   *)
(* the publication read that the verdict is about; that behind its back    *)
(* only rows of files appear is what the advisory lock is for.             *)

AutoIsPublished == \A f \in Lines : <<"auto", f>> \in live => ledger[f] = "published"

\* Whoever publishes has a snapshot to publish.
SnapshotFirst == baseline \/ (\E c \in Commands : command[c].does = "baseline") => latest # 0

\* The advisory lock has one holder.
OneHolder == \A c, d \in Commands : command[c].does = "settle" /\ command[d].does = "settle" => c = d

BehindOnlyFiles ==
    \A c \in Commands : command[c].does = "settle" /\ command[c].platform = "none" =>
        \A row \in live : row[1] = "file"

MovementsInv == MovementsTypeOK /\ AutoIsPublished /\ SnapshotFirst /\ OneHolder /\ BehindOnlyFiles

\* Before the first snapshot nothing is published.
LEMMA MovementsInitially == MovementsInit => MovementsInv
<1> SUFFICES ASSUME MovementsInit PROVE MovementsInv
  OBVIOUS
<1>1. PICK approved \in SUBSET Lines : live = {"approved"} \X approved
  BY DEF MovementsInit
<1>2. live \in SUBSET (Origins \X Lines) /\ AutoIsPublished
  BY <1>1 DEF Origins, AutoIsPublished
<1>3. /\ oracleLines \in [Snapshots -> SUBSET Lines] /\ latest \in 0 .. MaxSnapshots
      /\ ledger \in [Lines -> LedgerStatus] /\ batchOf \in [Lines -> 0 .. MaxBatches]
      /\ batchStatus \in [Batches -> {"none", "completed", "reversed"}]
  BY MovementsAssumption DEF MovementsInit, LedgerStatus
<1>4. baseline \in BOOLEAN /\ enabled \in BOOLEAN /\ known \in BOOLEAN
  BY DEF MovementsInit
<1>5. command \in [Commands -> Works]
  BY DEF MovementsInit, Works
<1>6. \A c \in Commands : command[c].does = "nothing"
  BY DEF MovementsInit, NoCommand
<1>7. SnapshotFirst /\ OneHolder /\ BehindOnlyFiles
  BY <1>6 DEF MovementsInit, SnapshotFirst, OneHolder, BehindOnlyFiles
<1> QED
  BY <1>2, <1>3, <1>4, <1>5, <1>7 DEF MovementsInv, MovementsTypeOK

\* A command that ends leaves the others at their work, and gives the lock to none.
LEMMA CommandEnds ==
    ASSUME MovementsInv, NEW c \in Commands, Done(c)
    PROVE  /\ command' \in [Commands -> Works]
           /\ \A d \in Commands : command'[d] = command[d] \/ command'[d] = NoCommand
           /\ command'[c] = NoCommand /\ OneHolder'
<1>1. command \in [Commands -> Works] /\ command' = [command EXCEPT ![c] = NoCommand]
  BY DEF MovementsInv, MovementsTypeOK, Done
<1>2. \A d \in Commands : command'[d] = command[d] \/ command'[d] = NoCommand
  BY <1>1
<1>3. command'[c] = NoCommand /\ command' \in [Commands -> Works]
  BY <1>1 DEF Works
<1>4. \A d \in Commands : command'[d].does = "settle" => command[d].does = "settle"
  BY <1>2 DEF NoCommand
<1> QED
  BY <1>2, <1>3, <1>4 DEF MovementsInv, OneHolder

\* What a publication writes: the next batch is one of the batches.
LEMMA SettleSettles ==
    ASSUME MovementsInv, NEW w, w.on \in Snapshots, Settle(w)
    PROVE  /\ live' \in SUBSET (Origins \X Lines)
           /\ ledger' \in [Lines -> LedgerStatus]
           /\ batchOf' \in [Lines -> 0 .. MaxBatches]
           /\ batchStatus' \in [Batches -> {"none", "completed", "reversed"}]
           /\ AutoIsPublished'
           /\ \A f \in Lines : ledger[f] \notin {"none", "quarantined"} =>
                  ledger'[f] = ledger[f] /\ (<<"auto", f>> \in live' => <<"auto", f>> \in live)
<1>t. MovementsTypeOK /\ AutoIsPublished
  BY DEF MovementsInv
<1> DEFINE todo == Candidates(w.on)
           books == Booked(w)
<1>1. \A f \in todo : f \in Lines /\ ledger[f] \in {"none", "quarantined"}
  BY <1>t DEF Candidates, MovementsTypeOK
<1>2. \A f \in books : f \in todo /\ Verdict(w, f) = "published"
  BY DEF Booked
<1>3. \A f : Verdict(w, f) \in {"published", "ignored", "quarantined"}
  BY DEF Verdict
<1>4. live' = {"auto"} \X books \/ live' = live \cup ({"auto"} \X books)
  BY DEF Settle
<1>5. \/ todo = {} /\ UNCHANGED <<ledger, batchOf, batchStatus>>
      \/ /\ NextBatch \in Batches
         /\ ledger' = [f \in Lines |-> IF f \in todo THEN Verdict(w, f) ELSE ledger[f]]
         /\ batchOf' = [f \in Lines |-> IF f \in todo THEN NextBatch ELSE batchOf[f]]
         /\ batchStatus' = [batchStatus EXCEPT ![NextBatch] = "completed"]
  BY DEF Settle
<1> HIDE DEF todo, books
<1>6. live' \in SUBSET (Origins \X Lines)
  BY <1>t, <1>1, <1>2, <1>4 DEF MovementsTypeOK, Origins
<1>7. /\ ledger' \in [Lines -> LedgerStatus]
      /\ \A f \in Lines : /\ f \notin todo => ledger'[f] = ledger[f]
                          /\ f \in todo => ledger'[f] = Verdict(w, f)
  <2>1. CASE todo = {} /\ UNCHANGED <<ledger, batchOf, batchStatus>>
    BY <1>t, <2>1 DEF MovementsTypeOK
  <2>2. CASE ledger' = [f \in Lines |-> IF f \in todo THEN Verdict(w, f) ELSE ledger[f]]
    BY <1>t, <1>3, <2>2 DEF MovementsTypeOK, LedgerStatus
  <2> QED
    BY <1>5, <2>1, <2>2
<1>8. /\ batchOf' \in [Lines -> 0 .. MaxBatches]
      /\ batchStatus' \in [Batches -> {"none", "completed", "reversed"}]
  <2>1. NextBatch \in Batches => NextBatch \in 0 .. MaxBatches
    BY MovementsAssumption DEF Batches
  <2>2. CASE UNCHANGED <<batchOf, batchStatus>>
    BY <1>t, <2>2 DEF MovementsTypeOK
  <2>3. CASE /\ NextBatch \in Batches
             /\ batchOf' = [f \in Lines |-> IF f \in todo THEN NextBatch ELSE batchOf[f]]
             /\ batchStatus' = [batchStatus EXCEPT ![NextBatch] = "completed"]
    BY <1>t, <2>1, <2>3 DEF MovementsTypeOK
  <2> QED
    BY <1>5, <2>2, <2>3
<1>9. AutoIsPublished'
  <2> SUFFICES ASSUME NEW f \in Lines, <<"auto", f>> \in live' PROVE ledger'[f] = "published"
    BY DEF AutoIsPublished
  <2>1. CASE f \in books
    BY <1>2, <1>7, <2>1
  <2>2. CASE f \notin books
    <3>1. <<"auto", f>> \in live
      BY <1>4, <2>2
    <3>2. ledger[f] = "published"
      BY <1>t, <3>1 DEF AutoIsPublished
    <3> QED
      BY <1>1, <1>7, <3>2
  <2> QED
    BY <2>1, <2>2
<1>10. ASSUME NEW f \in Lines, ledger[f] \notin {"none", "quarantined"}
       PROVE  ledger'[f] = ledger[f] /\ (<<"auto", f>> \in live' => <<"auto", f>> \in live)
  <2>1. f \notin todo /\ f \notin books
    BY <1>1, <1>2, <1>10
  <2> QED
    BY <1>4, <1>7, <2>1
<1> QED
  BY <1>6, <1>7, <1>8, <1>9, <1>10

\* No snapshot, file, publication, override or rollback breaks the invariant.
LEMMA MovementsNextInvariant == MovementsInv /\ [MovementsNext]_movementVars => MovementsInv'
<1> SUFFICES ASSUME MovementsInv, [MovementsNext]_movementVars PROVE MovementsInv'
  OBVIOUS
<1>t. MovementsTypeOK /\ AutoIsPublished /\ SnapshotFirst /\ OneHolder /\ BehindOnlyFiles
  BY DEF MovementsInv
<1>s. ASSUME NEW c \in Commands, Done(c), latest' = latest,
             baseline' => baseline \/ command[c].does = "baseline"
      PROVE SnapshotFirst'
  <2>1. \A d \in Commands : command'[d].does = "baseline" => command[d].does = "baseline"
    BY <1>s, CommandEnds DEF NoCommand
  <2> QED
    BY <1>s, <1>t, <2>1 DEF SnapshotFirst
<1>u. ASSUME NEW c \in Commands, Done(c), live' \subseteq live
      PROVE BehindOnlyFiles'
  BY <1>t, <1>u, CommandEnds DEF BehindOnlyFiles, NoCommand
<1>b. ASSUME NEW c \in Commands, NEW what, NEW on, Begin(c, what, on), [does |-> what, on |-> on] \in Works,
             what = "baseline" => latest # 0, what # "settle"
      PROVE MovementsInv'
  <2>1. command' \in [Commands -> Works]
    BY <1>b, <1>t DEF Begin, MovementsTypeOK
  <2>2. \A d \in Commands : \/ command'[d] = command[d]
                            \/ command'[d] = [does |-> what, on |-> on]
    BY <1>b, <1>t DEF Begin, MovementsTypeOK
  <2>3. \A d \in Commands : /\ command'[d].does = "baseline" => command[d].does = "baseline" \/ latest # 0
                            /\ command'[d].does = "settle" => command'[d] = command[d]
    BY <1>b, <2>2
  <2>4. SnapshotFirst' /\ OneHolder' /\ BehindOnlyFiles'
    BY <1>b, <1>t, <2>3 DEF Begin, SnapshotFirst, OneHolder, BehindOnlyFiles
  <2> QED
    BY <1>b, <1>t, <2>1, <2>4 DEF Begin, MovementsInv, MovementsTypeOK, AutoIsPublished
<1>1. CASE TakeSnapshot
  <2>1. latest + 1 \in Snapshots /\ latest + 1 \in 0 .. MaxSnapshots
    BY <1>1, <1>t, MovementsAssumption DEF TakeSnapshot, MovementsTypeOK, Snapshots
  <2> QED
    BY <1>1, <1>t, <2>1 DEF TakeSnapshot, MovementsInv, MovementsTypeOK, AutoIsPublished, SnapshotFirst, OneHolder, BehindOnlyFiles
<1>2. ASSUME NEW e \in BOOLEAN, Configure(e) PROVE MovementsInv'
  BY <1>2, <1>t DEF Configure, MovementsInv, MovementsTypeOK, AutoIsPublished, SnapshotFirst, OneHolder, BehindOnlyFiles
<1>9. ASSUME NEW lines \in Chunks, FileImport(lines) PROVE MovementsInv'
  <2>1. live' = live \cup ({"file"} \X lines) /\ UNCHANGED <<oracleLines, latest, baseline, enabled, ledger, batchOf, batchStatus, command>>
    BY <1>9 DEF FileImport
  <2>2. live' \in SUBSET (Origins \X Lines) /\ known' \in BOOLEAN
    BY <1>9, <1>t, <2>1, MovementsAssumption DEF FileImport, MovementsTypeOK, Origins
  <2>3. AutoIsPublished' /\ BehindOnlyFiles'
    BY <1>t, <2>1 DEF AutoIsPublished, BehindOnlyFiles
  <2> QED
    BY <1>t, <2>1, <2>2, <2>3 DEF MovementsInv, MovementsTypeOK, SnapshotFirst, OneHolder
<1>11. ASSUME NEW lines \in Chunks, FileReversed(lines) PROVE MovementsInv'
  <2>1. live' \subseteq live /\ UNCHANGED <<oracleLines, latest, baseline, enabled, known, ledger, batchOf, batchStatus, command>>
    BY <1>11 DEF FileReversed
  <2> QED
    BY <1>t, <2>1 DEF MovementsInv, MovementsTypeOK, AutoIsPublished, SnapshotFirst, OneHolder, BehindOnlyFiles
<1>3. ASSUME NEW c \in Commands, BaselineRead(c) \/ PublishReads(c) \/ \E b \in Batches : RollbackRead(c, b)
      PROVE MovementsInv'
  <2>1. latest # 0 => latest \in Snapshots
    BY <1>t, MovementsAssumption DEF MovementsTypeOK, Snapshots
  <2>2. CASE BaselineRead(c)
    BY <2>1, <2>2, <1>b DEF BaselineRead, Works
  <2>3. CASE PublishReads(c)
    BY <1>t, <2>1, <2>3, <1>b DEF PublishReads, Works, SnapshotFirst
  <2>4. ASSUME NEW b \in Batches, RollbackRead(c, b) PROVE MovementsInv'
    BY <2>4, <1>b DEF RollbackRead, Works
  <2> QED
    BY <1>3, <2>2, <2>3, <2>4
<1>4. ASSUME NEW c \in Commands, BaselineCommit(c) PROVE MovementsInv'
  <2>1. command' \in [Commands -> Works] /\ OneHolder' /\ BehindOnlyFiles'
    BY <1>4, <1>u, CommandEnds DEF BaselineCommit
  <2>2. \A f \in Lines : ledger[f] = "published" => ledger'[f] = "published"
    BY <1>4, <1>t DEF BaselineCommit, MovementsTypeOK
  <2>3. ledger' \in [Lines -> LedgerStatus] /\ baseline' \in BOOLEAN /\ enabled' \in BOOLEAN
    BY <1>4, <1>t DEF BaselineCommit, MovementsTypeOK, LedgerStatus
  <2>4. SnapshotFirst'
    BY <1>4, <1>s DEF BaselineCommit
  <2> QED
    BY <1>4, <1>t, <2>1, <2>2, <2>3, <2>4 DEF BaselineCommit, MovementsInv, MovementsTypeOK, AutoIsPublished
<1>10. ASSUME NEW c \in Commands, PublishClassifies(c) PROVE MovementsInv'
  <2>0. UNCHANGED <<oracleLines, latest, baseline, enabled, known, live, ledger, batchOf, batchStatus>>
    BY <1>10 DEF PublishClassifies
  <2>1. CASE ~ enabled
    <3>1. Done(c)
      BY <1>10, <2>1 DEF PublishClassifies
    <3>2. command' \in [Commands -> Works] /\ OneHolder' /\ BehindOnlyFiles' /\ SnapshotFirst'
      BY <2>0, <3>1, <1>s, <1>u, CommandEnds
    <3> QED
      BY <1>t, <2>0, <3>2 DEF MovementsInv, MovementsTypeOK, AutoIsPublished
  <2>2. CASE enabled
    <3>1. PICK knew \in {known, TRUE} : command' =
            [command EXCEPT ![c] = [does |-> "settle", on |-> command[c].on,
                                    platform |-> Platform(command[c].on), knew |-> knew]]
      BY <1>10, <2>2 DEF PublishClassifies
    <3>2. command[c] \in Works /\ command[c].does = "publish"
      BY <1>10, <1>t DEF PublishClassifies, MovementsTypeOK
    <3>3. command[c].on \in Snapshots
      BY <3>2 DEF Works, NoCommand
    <3>4. knew \in BOOLEAN
      BY <1>t DEF MovementsTypeOK
    <3> DEFINE w == [does |-> "settle", on |-> command[c].on, platform |-> Platform(command[c].on), knew |-> knew]
    <3>12. Platform(command[c].on) \in {"none", "same", "other"} /\ (Platform(command[c].on) = "none" => live = {})
      BY DEF Platform
    <3>5. w \in Works /\ w.does = "settle" /\ (w.platform = "none" => live = {})
      BY <3>3, <3>4, <3>12 DEF Works
    <3>6. command' = [command EXCEPT ![c] = w]
      BY <3>1
    <3> HIDE DEF w
    <3>7. command' \in [Commands -> Works]
      BY <1>t, <3>5, <3>6 DEF MovementsTypeOK
    <3>8. \A d \in Commands : command'[d] = IF d = c THEN w ELSE command[d]
      BY <1>t, <3>6 DEF MovementsTypeOK
    <3>9. \A d \in Commands : command[d].does # "settle"
      BY <1>10 DEF PublishClassifies, Unlocked
    <3>10. OneHolder' /\ BehindOnlyFiles'
      BY <2>0, <3>5, <3>8, <3>9 DEF OneHolder, BehindOnlyFiles
    <3>11. SnapshotFirst'
      BY <1>t, <2>0, <3>5, <3>8 DEF SnapshotFirst
    <3> QED
      BY <1>t, <2>0, <3>7, <3>10, <3>11 DEF MovementsInv, MovementsTypeOK, AutoIsPublished
  <2> QED
    BY <2>1, <2>2
<1>5. ASSUME NEW c \in Commands, PublishCommits(c) PROVE MovementsInv'
  <2> DEFINE w == command[c]
  <2>0. /\ w.does = "settle" /\ Done(c) /\ Settle(w) /\ known' = (known \/ w.knew)
        /\ UNCHANGED <<oracleLines, latest, baseline, enabled>>
    BY <1>5 DEF PublishCommits
  <2>1. w \in Works
    BY <1>t DEF MovementsTypeOK
  <2>2. w.on \in Snapshots /\ w.knew \in BOOLEAN
    BY <2>0, <2>1 DEF Works, NoCommand
  <2> HIDE DEF w
  <2>3. command' \in [Commands -> Works] /\ OneHolder' /\ SnapshotFirst'
    BY <2>0, <1>s, CommandEnds
  <2>4. \A d \in Commands : command'[d].does # "settle"
    BY <2>0, <1>t, CommandEnds DEF w, OneHolder, NoCommand
  <2>5. BehindOnlyFiles'
    BY <2>4 DEF BehindOnlyFiles
  <2>6. known' \in BOOLEAN
    BY <1>t, <2>0, <2>2 DEF MovementsTypeOK
  <2> QED
    BY <1>t, <2>0, <2>2, <2>3, <2>5, <2>6, SettleSettles DEF MovementsInv, MovementsTypeOK
<1>6. ASSUME NEW c \in Commands, RollbackCommit(c) PROVE MovementsInv'
  <2> DEFINE b == command[c].on
  <2>2. /\ live' = live \ ({"auto"} \X PublishedBy(b))
        /\ ledger' = [f \in Lines |-> IF f \in PublishedBy(b) THEN "reversed" ELSE ledger[f]]
        /\ batchStatus' = [batchStatus EXCEPT ![b] = "reversed"]
    BY <1>6 DEF RollbackCommit
  <2> HIDE DEF b
  <2>1. command' \in [Commands -> Works] /\ OneHolder' /\ BehindOnlyFiles'
    BY <1>6, <2>2, <1>u, CommandEnds DEF RollbackCommit
  <2>3. AutoIsPublished'
    BY <1>t, <2>2 DEF AutoIsPublished
  <2>4. ledger' \in [Lines -> LedgerStatus] /\ live' \in SUBSET (Origins \X Lines)
    BY <1>t, <2>2 DEF MovementsTypeOK, LedgerStatus
  <2>5. batchStatus' \in [Batches -> {"none", "completed", "reversed"}]
    BY <1>t, <2>2 DEF MovementsTypeOK
  <2>6. SnapshotFirst'
    BY <1>6, <1>s DEF RollbackCommit
  <2> QED
    BY <1>6, <1>t, <2>1, <2>3, <2>4, <2>5, <2>6 DEF RollbackCommit, MovementsInv, MovementsTypeOK
<1>7. ASSUME NEW c \in Commands, CommandFails(c) PROVE MovementsInv'
  <2>1. command' \in [Commands -> Works] /\ OneHolder' /\ BehindOnlyFiles' /\ SnapshotFirst'
    BY <1>7, <1>s, <1>u, CommandEnds DEF CommandFails
  <2> QED
    BY <1>7, <1>t, <2>1 DEF CommandFails, MovementsInv, MovementsTypeOK, AutoIsPublished
<1>8. CASE UNCHANGED movementVars
  BY <1>8, <1>t DEF movementVars, MovementsInv, MovementsTypeOK, AutoIsPublished, SnapshotFirst, OneHolder, BehindOnlyFiles
<1> QED
  BY <1>1, <1>2, <1>3, <1>4, <1>5, <1>6, <1>7, <1>8, <1>9, <1>10, <1>11 DEF MovementsNext

\* The invariant of the publication ledger, the statement it feeds and the lock
\* around both (saveLedger, publish, rollback).
THEOREM MovementsInvariance == MovementsSpec => []MovementsInv
BY MovementsInitially, MovementsNextInvariant, PTL DEF MovementsSpec

\* A publication that doubles a line had seen no row of the document, and the row
\* it did not see is a file's.
LEMMA UnseenIsFile ==
    ASSUME MovementsInv, NEW c \in Commands, PublishCommits(c), NEW f \in Lines, Twice(f)', ~ Twice(f)
    PROVE  <<"file", f>> \in live' /\ command[c].platform = "none"
<1> DEFINE w == command[c]
<1>1. w.does = "settle" /\ Settle(w)
  BY DEF PublishCommits
<1>2. w.platform = "none" => \A row \in live : row[1] = "file"
  BY <1>1 DEF MovementsInv, BehindOnlyFiles
<1> HIDE DEF w
<1>3. ~ (Booked(w) # {} /\ Override(w))
  <2> SUFFICES ASSUME Booked(w) # {} /\ Override(w) PROVE FALSE
    OBVIOUS
  <2>1. live' = {"auto"} \X Booked(w)
    BY <1>1 DEF Settle
  <2>2. ~ Twice(f)'
    BY <2>1 DEF Twice
  <2> QED
    BY <2>2
<1>4. live' = live \cup ({"auto"} \X Booked(w))
  BY <1>1, <1>3 DEF Settle
<1>5. f \in Booked(w) /\ \E o \in Origins \ {"auto"} : <<o, f>> \in live
  BY <1>4 DEF Twice
<1>6. Verdict(w, f) = "published"
  BY <1>5 DEF Booked
<1>7. w.platform = "none"
  <2>1. w.platform # "same"
    BY <1>6 DEF Verdict
  <2>2. w.platform # "other"
    BY <1>3, <1>5 DEF Override
  <2>3. w.platform \in {"none", "same", "other"}
    <3>1. w \in Works
      BY DEF w, MovementsInv, MovementsTypeOK
    <3> QED
      BY <1>1, <3>1 DEF Works, NoCommand
  <2> QED
    BY <2>1, <2>2, <2>3
<1>8. <<"file", f>> \in live
  BY <1>2, <1>5, <1>7
<1> QED
  BY <1>4, <1>7, <1>8 DEF w

\* Only an accounting file puts a line on the customer's statement twice, whatever
\* commands overlap and however edits, overrides and rollbacks follow each other:
\* its row arrives, or the publication could not have seen it (publish, applyImport).
THEOREM OnlyFilesDouble == MovementsSpec => DoubledOnlyByFile
<1>1. MovementsInv /\ [MovementsNext]_movementVars =>
        [\A f \in Lines : Twice(f)' /\ ~ Twice(f) =>
            /\ <<"file", f>> \in live'
            /\ \/ <<"file", f>> \notin live
               \/ \E c \in Commands : /\ command[c].does = "settle" /\ command'[c] = NoCommand
                                      /\ command[c].platform = "none"]_movementVars
  <2> SUFFICES ASSUME MovementsInv, MovementsNext, NEW f \in Lines, Twice(f)', ~ Twice(f)
               PROVE  /\ <<"file", f>> \in live'
                      /\ \/ <<"file", f>> \notin live
                         \/ \E c \in Commands : /\ command[c].does = "settle" /\ command'[c] = NoCommand
                                                /\ command[c].platform = "none"
    OBVIOUS
  <2>0. live' # live /\ ~ live' \subseteq live
    BY DEF Twice
  <2>1. ASSUME NEW lines \in Chunks, FileImport(lines)
        PROVE  <<"file", f>> \in live' /\ <<"file", f>> \notin live
    <3>1. live' = live \cup ({"file"} \X lines)
      BY <2>1 DEF FileImport
    <3> QED
      BY <3>1 DEF Twice
  <2>2. ASSUME NEW c \in Commands, PublishCommits(c)
        PROVE  /\ <<"file", f>> \in live' /\ command[c].platform = "none"
               /\ command[c].does = "settle" /\ command'[c] = NoCommand
    <3>1. command[c].does = "settle" /\ Done(c)
      BY <2>2 DEF PublishCommits
    <3> QED
      BY <2>2, <3>1, UnseenIsFile, CommandEnds
  <2>3. /\ ~ TakeSnapshot /\ \A e \in BOOLEAN : ~ Configure(e)
        /\ \A lines \in Chunks : ~ FileReversed(lines)
    BY <2>0 DEF TakeSnapshot, Configure, FileReversed
  <2>4. ASSUME NEW c \in Commands
        PROVE  /\ ~ BaselineRead(c) /\ ~ PublishReads(c) /\ ~ PublishClassifies(c) /\ ~ BaselineCommit(c)
               /\ (\A b \in Batches : ~ RollbackRead(c, b)) /\ ~ RollbackCommit(c) /\ ~ CommandFails(c)
    BY <2>0 DEF BaselineRead, PublishReads, PublishClassifies, BaselineCommit, RollbackRead, RollbackCommit,
                CommandFails, Begin
  <2> QED
    BY <2>1, <2>2, <2>3, <2>4 DEF MovementsNext
<1> QED
  BY <1>1, MovementsInvariance, PTL DEF MovementsSpec, DoubledOnlyByFile

\* A line the ledger holds as baseline or as reversed keeps that status and never
\* gets a live row of this service (saveLedger, customerCandidates).
THEOREM BlockedNeverPublished == MovementsSpec => BlockedStaysOut
<1>1. MovementsInv /\ [MovementsNext]_movementVars =>
        [\A f \in Lines : ledger[f] \in {"baseline", "reversed"} =>
            ledger'[f] = ledger[f] /\ <<"auto", f>> \notin live']_movementVars
  <2> SUFFICES ASSUME MovementsInv, MovementsNext, NEW f \in Lines, ledger[f] \in {"baseline", "reversed"}
               PROVE  ledger'[f] = ledger[f] /\ <<"auto", f>> \notin live'
    OBVIOUS
  <2>0. <<"auto", f>> \notin live /\ MovementsInv
    BY DEF MovementsInv, AutoIsPublished
  <2>1. CASE TakeSnapshot \/ \E e \in BOOLEAN : Configure(e)
    BY <2>0, <2>1 DEF TakeSnapshot, Configure
  <2>6. ASSUME NEW lines \in Chunks, FileImport(lines) \/ FileReversed(lines)
        PROVE  ledger'[f] = ledger[f] /\ <<"auto", f>> \notin live'
    BY <2>0, <2>6 DEF FileImport, FileReversed
  <2>2. ASSUME NEW c \in Commands,
               \/ BaselineRead(c) \/ PublishReads(c) \/ PublishClassifies(c)
               \/ (\E b \in Batches : RollbackRead(c, b)) \/ CommandFails(c)
        PROVE  ledger'[f] = ledger[f] /\ <<"auto", f>> \notin live'
    BY <2>0, <2>2 DEF BaselineRead, PublishReads, PublishClassifies, RollbackRead, CommandFails, Begin
  <2>3. ASSUME NEW c \in Commands, BaselineCommit(c) PROVE ledger'[f] = ledger[f] /\ <<"auto", f>> \notin live'
    BY <2>0, <2>3 DEF BaselineCommit
  <2>4. ASSUME NEW c \in Commands, PublishCommits(c) PROVE ledger'[f] = ledger[f] /\ <<"auto", f>> \notin live'
    <3> DEFINE w == command[c]
    <3>1. w.does = "settle" /\ Settle(w) /\ w \in Works
      BY <2>0, <2>4 DEF PublishCommits, MovementsInv, MovementsTypeOK
    <3>2. w.on \in Snapshots
      BY <3>1 DEF Works, NoCommand
    <3> HIDE DEF w
    <3> QED
      BY <2>0, <3>1, <3>2, SettleSettles
  <2>5. ASSUME NEW c \in Commands, RollbackCommit(c) PROVE ledger'[f] = ledger[f] /\ <<"auto", f>> \notin live'
    BY <2>0, <2>5 DEF RollbackCommit, PublishedBy
  <2> QED
    BY <2>1, <2>2, <2>3, <2>4, <2>5, <2>6 DEF MovementsNext
<1> QED
  BY <1>1, MovementsInvariance, PTL DEF MovementsSpec, BlockedStaysOut

-----------------------------------------------------------------------------
(* Duplicate customers.                                                    *)

MergesTyped ==
    /\ mergedInto \in [Customers -> Customers \cup {Nobody}]
    /\ home \in [Customers -> Customers]
    /\ review \in [Pairs -> ReviewStatus]
    /\ DOMAIN merge = Pairs

Stands(p) == merge[p] # NoMerge

\* A merge that stands is of the two of its pair.
OfItsPair ==
    \A p \in Pairs : Stands(p) =>
       /\ merge[p].status \in {"active", "final"}
       /\ merge[p].source \in p /\ merge[p].master \in p
       /\ merge[p].status = "active" => merge[p].pairs \subseteq Pairs

\* A customer is merged where the one merge it is the source of says.
MergedBy ==
    /\ \A p \in Pairs : Stands(p) => mergedInto[merge[p].source] = merge[p].master
    /\ \A p, q \in Pairs : Stands(p) /\ Stands(q) /\ merge[p].source = merge[q].source => p = q
    /\ \A c \in Customers : mergedInto[c] # Nobody => \E p \in Pairs : Stands(p) /\ merge[p].source = c

\* A pair not yet reviewed has no merge, and neither has one that taking a merge back
\* would reopen, which no second merge would.
Unreviewed == {"none", "pending"}
Reopening(p) == IF Stands(p) /\ merge[p].status = "active" THEN merge[p].pairs ELSE {}
PendingApart ==
    /\ \A p \in Pairs : review[p] \in Unreviewed => ~ Stands(p)
    /\ \A p \in Pairs : \A q \in Reopening(p) : review[q] \notin Unreviewed /\ (q = p \/ ~ Stands(q))
    /\ \A p, q \in Pairs : p # q => Reopening(p) \cap Reopening(q) = {}

MergesInv == MergesTyped /\ OfItsPair /\ MergedBy /\ PendingApart /\ RecordsInSight

\* A pair is of customers, and has another than the one.
LEMMA PairHasOther ==
    ASSUME NEW p \in Pairs, NEW m \in p
    PROVE  /\ p \subseteq Customers
           /\ (CHOOSE c \in p : c # m) \in p
           /\ (CHOOSE c \in p : c # m) # m
<1>1. p \subseteq Customers /\ Cardinality(p) = 2
  BY DEF Pairs
<1>2. Cardinality({m}) = 1
  BY FS_Singleton
<1>3. p # {m}
  BY <1>1, <1>2
<1>4. \E c \in p : c # m
  BY <1>3
<1> QED
  BY <1>1, <1>4

LEMMA MergesInitially == MergesInit => MergesInv
BY MergesAssumption DEF MergesInit, MergesInv, MergesTyped, OfItsPair, MergedBy, PendingApart, RecordsInSight,
     Stands, Reopening, Unmerged, ReviewStatus

\* A review opened or closed, or a balance written, changes no merge.
LEMMA MergesFrame ==
    ASSUME MergesInv, UNCHANGED <<mergedInto, home, merge>>,
           review' \in [Pairs -> ReviewStatus],
           \A p \in Pairs : review'[p] \in Unreviewed => review[p] \in Unreviewed
    PROVE  MergesInv'
<1>1. MergesTyped' /\ OfItsPair' /\ MergedBy' /\ RecordsInSight'
  BY DEF MergesInv, MergesTyped, OfItsPair, MergedBy, RecordsInSight, Stands, Unmerged
<1>2. PendingApart'
  <2>1. \A p \in Pairs : Stands(p)' = Stands(p) /\ Reopening(p)' = Reopening(p)
    BY DEF Stands, Reopening
  <2>2. \A p \in Pairs : Reopening(p) \subseteq Pairs
    BY DEF MergesInv, OfItsPair, Reopening
  <2> QED
    BY <2>1, <2>2 DEF MergesInv, PendingApart
<1> QED
  BY <1>1, <1>2 DEF MergesInv

\* The grace of a merge ends: it stands, and reopens nothing.
LEMMA GraceEndsKeeps == ASSUME MergesInv, NEW p \in Pairs, GraceEnds(p) PROVE MergesInv'
<1>1. /\ UNCHANGED <<mergedInto, home, review>> /\ DOMAIN merge = Pairs
      /\ merge' = [merge EXCEPT ![p] = [status |-> "final", master |-> merge[p].master, source |-> merge[p].source]]
      /\ merge[p].status = "active"
  BY DEF GraceEnds, MergesInv, MergesTyped
<1>2. merge'[p].status = "final" /\ merge'[p].master = merge[p].master /\ merge'[p].source = merge[p].source
  BY <1>1
<1>3. Stands(p) /\ Stands(p)'
  BY <1>1, <1>2 DEF Stands, NoMerge
<1>4. \A q \in Pairs : /\ Stands(q)' = Stands(q)
                       /\ merge'[q].source = merge[q].source /\ merge'[q].master = merge[q].master
                       /\ q # p => merge'[q] = merge[q]
  BY <1>1, <1>2, <1>3 DEF Stands
<1>5. OfItsPair'
  BY <1>1, <1>2, <1>4 DEF MergesInv, OfItsPair
<1>6. MergesTyped' /\ RecordsInSight'
  BY <1>1 DEF MergesInv, MergesTyped, RecordsInSight, Unmerged
<1>7. MergedBy'
  BY <1>1, <1>4 DEF MergesInv, MergedBy
<1>8. \A q \in Pairs : Reopening(q)' = IF q = p THEN {} ELSE Reopening(q)
  BY <1>2, <1>4 DEF Reopening, Stands
<1>9. \A q \in Pairs : Reopening(q) \subseteq Pairs
  BY DEF MergesInv, OfItsPair, Reopening
<1>10. PendingApart'
  BY <1>1, <1>4, <1>8, <1>9 DEF MergesInv, PendingApart
<1> QED
  BY <1>5, <1>6, <1>7, <1>10 DEF MergesInv

\* A merge of a reviewed pair: the source was merged nowhere, so it is the source of
\* no other merge, and what is reopened by this merge was pending until now.
LEMMA MergeKeeps ==
    ASSUME MergesInv, NEW p \in Pairs, NEW m \in Customers, Merge(p, m)
    PROVE  MergesInv'
<1> DEFINE s == CHOOSE c \in p : c # m
<1>1. m \in p /\ review[p] = "pending" /\ mergedInto[m] = Nobody /\ mergedInto[s] = Nobody
  BY DEF Merge, Mergeable
<1>2. s \in p /\ s # m /\ s \in Customers
  BY <1>1, PairHasOther
<1>t. MergesTyped /\ OfItsPair /\ MergedBy /\ PendingApart /\ RecordsInSight
  BY DEF MergesInv
<1>e. \E g : /\ merge' = [merge EXCEPT ![p] = g]
             /\ g.status = "active" /\ g.master = m /\ g.source = s
             /\ g.pairs = PendingWith(s)
  <2> DEFINE moves == RowsOf(m) = {}
             sum == Sum(RowsOf(m)) + Sum(RowsOf(s))
             touched == IF RowsOf(s) = {} THEN {} ELSE IF moves THEN RowsOf(s) ELSE RowsOf(m)
             saved == [status |-> "active", master |-> m, source |-> s,
                       records |-> RecordsOf(s), pairs |-> PendingWith(s), credit |-> credit[s],
                       rows |-> IF moves THEN RowsOf(s) ELSE {},
                       before |-> [r \in RowsOf(m) |-> amount[r]], expected |-> [r \in touched |-> sum]]
  <2>1. merge' = [merge EXCEPT ![p] = saved]
    BY DEF Merge
  <2>2. saved.status = "active" /\ saved.master = m /\ saved.source = s /\ saved.pairs = PendingWith(s)
    OBVIOUS
  <2> QED
    BY <2>1, <2>2
<1>4. /\ mergedInto' = [mergedInto EXCEPT ![s] = m]
      /\ home' = [r \in Customers |-> IF r \in RecordsOf(s) THEN m ELSE home[r]]
      /\ review' = [q \in Pairs |-> IF q \in PendingWith(s) THEN "merged" ELSE review[q]]
  BY DEF Merge
<1> HIDE DEF s
<1>3. PICK g : /\ merge' = [merge EXCEPT ![p] = g]
               /\ g.status = "active" /\ g.master = m /\ g.source = s
               /\ g.pairs = PendingWith(s)
  BY <1>e
<1>5. ~ Stands(p) /\ p \in PendingWith(s)
  BY <1>1, <1>2, <1>t DEF PendingApart, Unreviewed, PendingWith
<1>6. merge'[p] = g /\ \A q \in Pairs : q # p => merge'[q] = merge[q]
  BY <1>3, <1>t DEF MergesTyped
<1>7. g # NoMerge
  BY <1>3 DEF NoMerge
<1>8. \A q \in Pairs : Stands(q)' <=> q = p \/ Stands(q)
  BY <1>5, <1>6, <1>7 DEF Stands
<1>9. MergesTyped'
  BY <1>3, <1>4, <1>t, <1>2 DEF MergesTyped, ReviewStatus
<1>10. OfItsPair'
  BY <1>1, <1>2, <1>3, <1>6, <1>8, <1>t DEF OfItsPair, PendingWith
<1>11. MergedBy'
  <2>0. \A q \in Pairs : Stands(q) => merge[q].source \in Customers /\ merge[q].source # s
    <3> SUFFICES ASSUME NEW q \in Pairs, Stands(q)
                 PROVE  merge[q].source \in Customers /\ merge[q].source # s
      OBVIOUS
    <3>1. merge[q].source \in Customers /\ merge[q].master \in Customers
      BY <1>t DEF OfItsPair, Pairs
    <3>2. mergedInto[merge[q].source] # Nobody
      BY <3>1, <1>t, MergesAssumption DEF MergedBy
    <3> QED
      BY <3>1, <3>2, <1>1
  <2>1. \A q \in Pairs : Stands(q)' => mergedInto'[merge'[q].source] = merge'[q].master
    BY <2>0, <1>2, <1>3, <1>4, <1>6, <1>8, <1>t DEF MergesTyped, MergedBy
  <2>2. \A q, r \in Pairs : Stands(q)' /\ Stands(r)' /\ merge'[q].source = merge'[r].source => q = r
    BY <2>0, <1>3, <1>6, <1>8, <1>t DEF MergedBy
  <2>3. \A c \in Customers : mergedInto'[c] # Nobody => \E q \in Pairs : Stands(q)' /\ merge'[q].source = c
    <3> SUFFICES ASSUME NEW c \in Customers, mergedInto'[c] # Nobody
                 PROVE  \E q \in Pairs : Stands(q)' /\ merge'[q].source = c
      OBVIOUS
    <3>1. CASE c = s
      BY <3>1, <1>3, <1>6, <1>8
    <3>2. CASE c # s
      <4>1. PICK q \in Pairs : Stands(q) /\ merge[q].source = c
        BY <3>2, <1>4, <1>t DEF MergesTyped, MergedBy
      <4> QED
        BY <4>1, <1>5, <1>6, <1>8
    <3> QED
      BY <3>1, <3>2
  <2> QED
    BY <2>1, <2>2, <2>3 DEF MergedBy
<1>12. PendingApart'
  <2>1. \A q \in Pairs : Reopening(q)' = IF q = p THEN PendingWith(s) ELSE Reopening(q)
    BY <1>3, <1>6, <1>8 DEF Reopening, Stands
  <2>2. \A q \in PendingWith(s) : q \in Pairs /\ review[q] \in Unreviewed /\ ~ Stands(q)
    BY <1>t DEF PendingWith, Unreviewed, PendingApart
  <2>3. Reopening(p) = {}
    BY <1>5 DEF Reopening
  <2>4. \A q \in Pairs : Reopening(q) \subseteq Pairs /\ Reopening(q) \cap PendingWith(s) = {}
    BY <2>2, <1>t DEF OfItsPair, Reopening, PendingApart
  <2>5. \A q \in Pairs : review'[q] \in Unreviewed => review[q] \in Unreviewed /\ q \notin PendingWith(s)
    BY <1>4 DEF Unreviewed
  <2>6. \A q \in Pairs : review'[q] \in Unreviewed => ~ Stands(q)'
    BY <2>5, <1>5, <1>8, <1>t DEF PendingApart
  <2>7. \A q \in Pairs : \A r \in Reopening(q)' : review'[r] \notin Unreviewed /\ (r = q \/ ~ Stands(r)')
    <3> SUFFICES ASSUME NEW q \in Pairs, NEW r \in Reopening(q)'
                 PROVE  review'[r] \notin Unreviewed /\ (r = q \/ ~ Stands(r)')
      OBVIOUS
    <3>1. CASE q = p
      BY <3>1, <2>1, <2>2, <2>5, <1>8
    <3>2. CASE q # p
      <4>1. r \in Reopening(q) /\ r \in Pairs /\ r \notin PendingWith(s)
        BY <3>2, <2>1, <2>4
      <4> QED
        BY <4>1, <2>5, <1>5, <1>8, <1>t DEF PendingApart
    <3> QED
      BY <3>1, <3>2
  <2>8. \A q, r \in Pairs : q # r => Reopening(q)' \cap Reopening(r)' = {}
    BY <2>1, <2>4, <1>t DEF PendingApart
  <2> QED
    BY <2>6, <2>7, <2>8 DEF PendingApart
<1>13. RecordsInSight'
  <2> SUFFICES ASSUME NEW r \in Customers PROVE home'[r] \in Customers /\ mergedInto'[home'[r]] = Nobody
    BY DEF RecordsInSight, Unmerged
  <2>1. home[r] \in Customers /\ mergedInto[home[r]] = Nobody
    BY <1>t DEF RecordsInSight, Unmerged, MergesTyped
  <2>2. CASE home[r] = s
    BY <2>2, <1>1, <1>2, <1>4, <1>t DEF RecordsOf, MergesTyped
  <2>3. CASE home[r] # s
    BY <2>1, <2>3, <1>4, <1>t DEF RecordsOf, MergesTyped
  <2> QED
    BY <2>2, <2>3
<1> QED
  BY <1>9, <1>10, <1>11, <1>12, <1>13 DEF MergesInv

\* A merge taken back: the pairs it reopens stand nowhere else, and the customer it
\* brings back is the source of no other merge.
LEMMA ReverseMergeKeeps == ASSUME MergesInv, NEW p \in Pairs, ReverseMerge(p) PROVE MergesInv'
<1> DEFINE g == merge[p]
<1>t. MergesTyped /\ OfItsPair /\ MergedBy /\ PendingApart /\ RecordsInSight
  BY DEF MergesInv
<1>1. /\ g.status = "active"
      /\ home' = [r \in Customers |-> IF r \in g.records THEN g.source ELSE home[r]]
      /\ review' = [q \in Pairs |-> IF q \in g.pairs THEN "pending" ELSE review[q]]
      /\ mergedInto' = [mergedInto EXCEPT ![g.source] = Nobody]
      /\ merge' = [merge EXCEPT ![p] = NoMerge]
  BY DEF ReverseMerge
<1>2. Stands(p) /\ g.pairs = Reopening(p)
  BY <1>1 DEF Stands, NoMerge, Reopening
<1>3. g.source \in p /\ g.source \in Customers /\ g.pairs \subseteq Pairs
  BY <1>1, <1>2, <1>t DEF OfItsPair, Pairs
<1>4. \A q \in Pairs : merge'[q] = IF q = p THEN NoMerge ELSE merge[q]
  BY <1>1, <1>t DEF MergesTyped
<1>5. \A q \in Pairs : Stands(q)' <=> q # p /\ Stands(q)
  BY <1>4 DEF Stands
<1>6. \A q \in Pairs : Reopening(q)' = IF q = p THEN {} ELSE Reopening(q)
  BY <1>4 DEF Reopening, Stands
<1>7. MergesTyped'
  BY <1>1, <1>3, <1>t DEF MergesTyped, ReviewStatus
<1>8. OfItsPair'
  BY <1>4, <1>5, <1>t DEF OfItsPair
<1>9. MergedBy'
  <2>1. \A q \in Pairs : q # p /\ Stands(q) => merge[q].source \in Customers /\ merge[q].source # g.source
    BY <1>2, <1>t DEF OfItsPair, MergedBy, Pairs
  <2>2. \A q \in Pairs : Stands(q)' => mergedInto'[merge'[q].source] = merge'[q].master
    BY <2>1, <1>1, <1>4, <1>5, <1>t DEF MergesTyped, MergedBy
  <2>3. \A q, r \in Pairs : Stands(q)' /\ Stands(r)' /\ merge'[q].source = merge'[r].source => q = r
    BY <1>4, <1>5, <1>t DEF MergedBy
  <2>4. \A c \in Customers : mergedInto'[c] # Nobody => \E q \in Pairs : Stands(q)' /\ merge'[q].source = c
    <3> SUFFICES ASSUME NEW c \in Customers, mergedInto'[c] # Nobody
                 PROVE  \E q \in Pairs : Stands(q)' /\ merge'[q].source = c
      OBVIOUS
    <3>1. c # g.source /\ mergedInto[c] # Nobody
      BY <1>1, <1>3, <1>t DEF MergesTyped
    <3>2. PICK q \in Pairs : Stands(q) /\ merge[q].source = c
      BY <3>1, <1>t DEF MergedBy
    <3> QED
      BY <3>1, <3>2, <1>4, <1>5
  <2> QED
    BY <2>2, <2>3, <2>4 DEF MergedBy
<1>10. PendingApart'
  <2>1. \A q \in Pairs : review'[q] \in Unreviewed => q \in Reopening(p) \/ review[q] \in Unreviewed
    BY <1>1, <1>2 DEF Unreviewed
  <2>2. \A q \in Pairs : review'[q] \in Unreviewed => ~ Stands(q)'
    BY <2>1, <1>5, <1>t DEF PendingApart
  <2>3. \A q \in Pairs : q # p => Reopening(q) \cap Reopening(p) = {} /\ Reopening(q) \subseteq Pairs
    BY <1>t DEF PendingApart, Reopening, OfItsPair
  <2>4. \A q \in Pairs : \A r \in Reopening(q)' : review'[r] \notin Unreviewed /\ (r = q \/ ~ Stands(r)')
    BY <2>1, <2>3, <1>5, <1>6, <1>t DEF PendingApart
  <2>5. \A q, r \in Pairs : q # r => Reopening(q)' \cap Reopening(r)' = {}
    BY <1>6, <1>t DEF PendingApart
  <2> QED
    BY <2>2, <2>4, <2>5 DEF PendingApart
<1>11. RecordsInSight'
  BY <1>1, <1>3, <1>t DEF RecordsInSight, Unmerged, MergesTyped
<1> QED
  BY <1>7, <1>8, <1>9, <1>10, <1>11 DEF MergesInv

\* No review, booking, merge or reversal breaks the invariant.
LEMMA MergesNextInvariant == MergesInv /\ [MergesNext]_mergeVars => MergesInv'
<1> SUFFICES ASSUME MergesInv, [MergesNext]_mergeVars PROVE MergesInv'
  OBVIOUS
<1>t. review \in [Pairs -> ReviewStatus]
  BY DEF MergesInv, MergesTyped
<1>1. ASSUME NEW p \in Pairs, PairFound(p) PROVE MergesInv'
  BY <1>1, <1>t, MergesFrame DEF PairFound, ReviewStatus, Unreviewed
<1>2. ASSUME NEW p \in Pairs, ReviewRead(p) PROVE MergesInv'
  BY <1>2, <1>t, MergesFrame DEF ReviewRead
<1>3. ASSUME NEW p \in Pairs, ReviewCommit(p) PROVE MergesInv'
  BY <1>3, <1>t, MergesFrame DEF ReviewCommit, ReviewStatus, Unreviewed
<1>4. ASSUME NEW r \in Rows, BalanceChanges(r) PROVE MergesInv'
  BY <1>4, <1>t, MergesFrame DEF BalanceChanges
<1>5. CASE UNCHANGED mergeVars
  BY <1>5, <1>t, MergesFrame DEF mergeVars
<1> QED
  BY <1>1, <1>2, <1>3, <1>4, <1>5, GraceEndsKeeps, MergeKeeps, ReverseMergeKeeps DEF MergesNext

\* The invariant of customers, their merges and the pairs under review (merge,
\* reverseMerge, reviewDuplicate of customers.service.ts).
THEOREM MergesInvariance == MergesSpec => []MergesInv
BY MergesInitially, MergesNextInvariant, PTL DEF MergesSpec

\* A merged customer is the source of exactly one merge, the one that names its master,
\* for any customers and any sequence of merges and reversals: reverseMerge finds the
\* one row it needs.
THEOREM MergedOnce == MergesSpec => []MergedByOneMerge
<1>1. MergesInv => MergedByOneMerge
  <2> SUFFICES ASSUME MergesInv, NEW c \in Customers
               PROVE  LET ofC == {p \in Pairs : merge[p] # NoMerge /\ merge[p].source = c} IN
                      IF mergedInto[c] = Nobody THEN ofC = {}
                      ELSE Cardinality(ofC) = 1 /\ \A p \in ofC : merge[p].master = mergedInto[c]
    BY DEF MergedByOneMerge
  <2> DEFINE ofC == {p \in Pairs : merge[p] # NoMerge /\ merge[p].source = c}
  <2>t. OfItsPair /\ MergedBy
    BY DEF MergesInv
  <2>1. \A p \in ofC : mergedInto[c] = merge[p].master /\ merge[p].master \in Customers
    BY <2>t DEF OfItsPair, MergedBy, Stands, Pairs
  <2>2. CASE mergedInto[c] = Nobody
    BY <2>1, <2>2, MergesAssumption
  <2>3. CASE mergedInto[c] # Nobody
    <3>1. PICK p \in Pairs : Stands(p) /\ merge[p].source = c
      BY <2>3, <2>t DEF MergedBy
    <3>2. ofC = {p}
      BY <3>1, <2>t DEF MergedBy, Stands
    <3>3. Cardinality(ofC) = 1
      BY <3>2, FS_Singleton
    <3> QED
      BY <2>1, <2>3, <3>3
  <2> QED
    BY <2>2, <2>3
<1> QED
  BY <1>1, MergesInvariance, PTL

\* No record is left with a merged customer, whichever chain of merges is taken back in
\* whichever order.
THEOREM RecordsStayInSight == MergesSpec => []RecordsInSight
<1>1. MergesInv => RecordsInSight
  BY DEF MergesInv
<1> QED
  BY <1>1, MergesInvariance, PTL

-----------------------------------------------------------------------------
(* The imports.  Rows are written outside any transaction, so that a       *)
(* reversal spares what others wrote rests on the pictures: between two of *)
(* them a balance that was there can only vanish with its row, and the     *)
(* count of the rows deleted tells.                                        *)

PictureRows == [customer : {"none", "active", "import_reversed"}, balance : Writers, row : Nat]
PicturesOf(j) == [FileRows[j] -> PictureRows]
AnyPicture == UNION {PicturesOf(j) : j \in ImportJobs}
PicturePairs == [before : AnyPicture \cup {"none"}, after : AnyPicture \cup {"none"}]

ImportWorks ==
    {NoWork}
    \cup [does : {"look"}, job : ImportJobs]
    \cup [does : {"start"}, job : ImportJobs, before : AnyPicture]
    \cup [does : {"rows"}, job : ImportJobs, before : AnyPicture, left : SUBSET Codes]
    \cup [does : {"finish"}, job : ImportJobs, before : AnyPicture, after : AnyPicture]
    \cup [does : {"reverse"}, job : ImportJobs, seen : AnyPicture, pictures : PicturePairs]

ImportsTyped ==
    /\ jobStatus \in [ImportJobs -> JobStatus]
    /\ rollback \in [ImportJobs -> PicturePairs]
    /\ balance \in [Codes -> Writers] /\ deleted \in [Codes -> Nat]
    /\ customer \in [Codes -> {"none", "active", "import_reversed"}]
    /\ work \in [Workers -> ImportWorks]

\* Balances and deletions may have come from picture p: a balance of p whose row was
\* not deleted since is still there.
Since(p, j, bal, del) ==
    /\ p \in PicturesOf(j)
    /\ \A c \in FileRows[j] :
          /\ p[c].row <= del[c]
          /\ p[c].balance # "none" /\ p[c].row = del[c] => bal[c] # "none"

\* So may picture q.
Before(p, q, j) ==
    /\ p \in PicturesOf(j) /\ q \in PicturesOf(j)
    /\ \A c \in FileRows[j] :
          /\ p[c].row <= q[c].row
          /\ p[c].balance # "none" /\ p[c].row = q[c].row => q[c].balance # "none"

\* A balance that the import found or left is still the one it left when its reversal
\* has read it.
Agrees(pictures, seen, j) ==
    \A c \in FileRows[j] :
       pictures.before[c].balance # "none" \/ pictures.after[c].balance # "none" =>
          seen[c].balance = pictures.after[c].balance

\* What a request holds was there before what there is.
Holds(k, bal, del) ==
    /\ k.does \in {"start", "rows"} => Since(k.before, k.job, bal, del)
    /\ k.does = "finish" => Before(k.before, k.after, k.job) /\ Since(k.after, k.job, bal, del)
    /\ k.does = "reverse" => Agrees(k.pictures, k.seen, k.job)

\* So were the pictures kept for a reversal.
Pictured(j, status, pictures, bal, del) ==
    status = "completed" => Before(pictures.before, pictures.after, j) /\ Since(pictures.after, j, bal, del)

ImportsInv ==
    /\ ImportsTyped
    /\ \A w \in Workers : Holds(work[w], balance, deleted)
    /\ \A j \in ImportJobs : Pictured(j, jobStatus[j], rollback[j], balance, deleted)

\* What a step may do to balances: one that is there goes only with its row.
Moves ==
    /\ balance' \in [Codes -> Writers] /\ deleted' \in [Codes -> Nat]
    /\ \A c \in Codes : /\ deleted[c] <= deleted'[c]
                        /\ balance[c] # "none" /\ deleted'[c] = deleted[c] => balance'[c] # "none"

\* A picture stays older than what there is.
LEMMA SinceStays ==
    ASSUME ImportsTyped, Moves, NEW j \in ImportJobs, NEW p, Since(p, j, balance, deleted)
    PROVE  Since(p, j, balance', deleted')
<1> SUFFICES ASSUME NEW c \in FileRows[j]
             PROVE  /\ p[c].row <= deleted'[c]
                    /\ p[c].balance # "none" /\ p[c].row = deleted'[c] => balance'[c] # "none"
  BY DEF Since
<1>1. c \in Codes /\ p[c].row \in Nat
  BY ImportsAssumption DEF Since, PicturesOf, PictureRows
<1>2. deleted[c] \in Nat /\ deleted'[c] \in Nat /\ deleted[c] <= deleted'[c]
  BY <1>1 DEF ImportsTyped, Moves
<1> QED BY <1>1, <1>2 DEF Since, Moves

\* A picture is as old as what it shows, and what it shows is as old as another
\* picture if what there is is.
LEMMA PictureIs ==
    ASSUME ImportsTyped, NEW j \in ImportJobs
    PROVE  /\ Picture(j) \in PicturesOf(j) /\ Picture(j) \in AnyPicture
           /\ Since(Picture(j), j, balance, deleted)
           /\ \A p : Since(p, j, balance, deleted) => Before(p, Picture(j), j)
           /\ \A c \in FileRows[j] : /\ Picture(j)[c].balance = balance[c]
                                     /\ Picture(j)[c].row = deleted[c]
<1>1. \A c \in FileRows[j] : c \in Codes
  BY ImportsAssumption
<1>2. Picture(j) \in PicturesOf(j)
  BY <1>1 DEF ImportsTyped, Picture, PicturesOf, PictureRows
<1>3. \A c \in FileRows[j] : Picture(j)[c].balance = balance[c] /\ Picture(j)[c].row = deleted[c]
  BY DEF Picture
<1>4. \A c \in FileRows[j] : deleted[c] \in Nat
  BY <1>1 DEF ImportsTyped
<1> QED BY <1>2, <1>3, <1>4 DEF AnyPicture, Since, Before

\* What a request holds, and what is kept of a job, outlives the others' steps.
LEMMA HoldsStays ==
    ASSUME ImportsInv, Moves
    PROVE  /\ \A w \in Workers : Holds(work[w], balance', deleted')
           /\ \A j \in ImportJobs : Pictured(j, jobStatus[j], rollback[j], balance', deleted')
<1>1. ASSUME NEW w \in Workers PROVE Holds(work[w], balance', deleted')
  <2>1. work[w].does \in {"start", "rows", "finish"} => work[w].job \in ImportJobs
    BY DEF ImportsInv, ImportsTyped, ImportWorks, NoWork
  <2> QED BY <2>1, SinceStays DEF ImportsInv, Holds
<1>2. ASSUME NEW j \in ImportJobs PROVE Pictured(j, jobStatus[j], rollback[j], balance', deleted')
  BY SinceStays DEF ImportsInv, Pictured
<1> QED BY <1>1, <1>2

\* A step of one request keeps the invariant if it does for what that request holds
\* then, and for the jobs it writes.
LEMMA RequestStep ==
    ASSUME ImportsInv, Moves, ImportsTyped', NEW w \in Workers,
           \A v \in Workers \ {w} : work'[v] = work[v],
           Holds(work'[w], balance', deleted'),
           \A j \in ImportJobs : \/ jobStatus'[j] # "completed"
                                 \/ jobStatus'[j] = jobStatus[j] /\ rollback'[j] = rollback[j]
                                 \/ Pictured(j, jobStatus'[j], rollback'[j], balance', deleted')
    PROVE  ImportsInv'
<1>1. \A v \in Workers : Holds(work'[v], balance', deleted')
  BY HoldsStays
<1>2. \A j \in ImportJobs : Pictured(j, jobStatus'[j], rollback'[j], balance', deleted')
  BY HoldsStays DEF Pictured
<1> QED BY <1>1, <1>2 DEF ImportsInv

\* Balances that nobody touches.
LEMMA Untouched == ImportsTyped /\ UNCHANGED <<balance, deleted>> => Moves
BY DEF ImportsTyped, Moves

\* The shapes of work.
LEMMA WorkIs ==
    ASSUME ImportsTyped, NEW w \in Workers
    PROVE  /\ work[w].does \in {"nothing", "look", "start", "rows", "finish", "reverse"}
           /\ work[w].does # "nothing" => work[w].job \in ImportJobs
           /\ work[w].does \in {"start", "rows", "finish"} => work[w].before \in AnyPicture
           /\ work[w].does = "rows" => work[w].left \subseteq Codes
                 /\ work[w] \in [does : {"rows"}, job : ImportJobs, before : AnyPicture, left : SUBSET Codes]
           /\ work[w].does = "finish" => work[w].after \in AnyPicture
           /\ work[w].does = "reverse" => work[w].pictures \in PicturePairs
BY DEF ImportsTyped, ImportWorks, NoWork

\* A request turns to something else, and the others do not.
LEMMA Turns ==
    ASSUME ImportsTyped, NEW w \in Workers, NEW k \in ImportWorks, Turn(w, k)
    PROVE  /\ work' \in [Workers -> ImportWorks] /\ work'[w] = k
           /\ \A v \in Workers \ {w} : work'[v] = work[v]
BY DEF ImportsTyped, Turn

\* A request reads, rests, fails or dies: balances and customers are not touched, and
\* no job is completed.
LEMMA QuietRequest ==
    ASSUME ImportsInv, NEW w \in Workers, NEW k \in ImportWorks, Turn(w, k),
           UNCHANGED <<balance, deleted, customer>>, Holds(k, balance, deleted),
           jobStatus' \in [ImportJobs -> JobStatus], rollback' \in [ImportJobs -> PicturePairs],
           \A j \in ImportJobs : \/ jobStatus'[j] # "completed"
                                 \/ jobStatus'[j] = jobStatus[j] /\ rollback'[j] = rollback[j]
                                 \/ Pictured(j, jobStatus'[j], rollback'[j], balance, deleted)
    PROVE  ImportsInv'
<1>1. ImportsTyped /\ Moves
  BY Untouched DEF ImportsInv
<1>2. /\ work' \in [Workers -> ImportWorks] /\ work'[w] = k
      /\ \A v \in Workers \ {w} : work'[v] = work[v]
  BY <1>1, Turns
<1>3. ImportsTyped'
  BY <1>1, <1>2 DEF ImportsTyped
<1> QED BY <1>1, <1>2, <1>3, RequestStep

\* The steps of an execution but the writing of a row.
LEMMA ExecutionKeeps ==
    ASSUME ImportsInv, NEW w \in Workers,
           \/ \E j \in ImportJobs : ExecuteRead(w, j)
           \/ CaptureBefore(w) \/ StartRows(w) \/ CaptureAfter(w) \/ Complete(w)
           \/ ExecuteFails(w) \/ WorkerDies(w) \/ \E c \in Codes : SkipRow(w, c)
    PROVE  ImportsInv'
<1> DEFINE j == work[w].job
<1>0. /\ ImportsTyped /\ Holds(work[w], balance, deleted) /\ NoWork \in ImportWorks
      /\ Holds(NoWork, balance, deleted)
      /\ jobStatus \in [ImportJobs -> JobStatus] /\ rollback \in [ImportJobs -> PicturePairs]
  BY DEF ImportsInv, ImportsTyped, ImportWorks, Holds, NoWork
<1>1. CASE \E i \in ImportJobs : ExecuteRead(w, i)
  <2> PICK i \in ImportJobs : ExecuteRead(w, i)
    BY <1>1
  <2> DEFINE k == [does |-> "look", job |-> i]
  <2>1. Turn(w, k) /\ UNCHANGED <<balance, deleted, customer, jobStatus, rollback>>
    BY DEF ExecuteRead
  <2>2. k \in ImportWorks /\ Holds(k, balance, deleted)
    BY DEF ImportWorks, Holds
  <2> HIDE DEF k
  <2> QED BY <1>0, <2>1, <2>2, QuietRequest
<1>2. CASE CaptureBefore(w)
  <2> DEFINE k == [does |-> "start", job |-> j, before |-> Picture(j)]
  <2>1. j \in ImportJobs /\ Turn(w, k) /\ UNCHANGED <<balance, deleted, customer, jobStatus, rollback>>
    BY <1>0, <1>2, WorkIs DEF CaptureBefore, Does
  <2>2. Picture(j) \in AnyPicture /\ Since(Picture(j), j, balance, deleted)
    BY <1>0, <2>1, PictureIs
  <2>3. k \in ImportWorks /\ Holds(k, balance, deleted)
    BY <2>1, <2>2 DEF ImportWorks, Holds
  <2> HIDE DEF k
  <2> QED BY <1>0, <2>1, <2>3, QuietRequest
<1>3. CASE StartRows(w)
  <2> DEFINE k == [does |-> "rows", job |-> j, before |-> work[w].before, left |-> FileRows[j]]
             p == [before |-> work[w].before, after |-> "none"]
  <2>1. /\ j \in ImportJobs /\ work[w].before \in AnyPicture /\ work[w].does = "start"
        /\ Turn(w, k) /\ UNCHANGED <<balance, deleted, customer>>
        /\ jobStatus' = [jobStatus EXCEPT ![j] = "running"] /\ rollback' = [rollback EXCEPT ![j] = p]
    BY <1>0, <1>3, WorkIs DEF StartRows, Does
  <2>2. k \in ImportWorks /\ Holds(k, balance, deleted)
    BY <1>0, <2>1, ImportsAssumption DEF ImportWorks, Holds
  <2>3. p \in PicturePairs
    BY <2>1 DEF PicturePairs
  <2> HIDE DEF k, p
  <2>4. /\ jobStatus' \in [ImportJobs -> JobStatus] /\ rollback' \in [ImportJobs -> PicturePairs]
        /\ \A i \in ImportJobs : jobStatus'[i] # "completed" \/ (jobStatus'[i] = jobStatus[i] /\ rollback'[i] = rollback[i])
    BY <1>0, <2>1, <2>3 DEF JobStatus
  <2> QED BY <1>0, <2>1, <2>2, <2>4, QuietRequest
<1>4. CASE CaptureAfter(w)
  <2> DEFINE k == [does |-> "finish", job |-> j, before |-> work[w].before, after |-> Picture(j)]
  <2>1. /\ j \in ImportJobs /\ work[w].before \in AnyPicture /\ work[w].does = "rows"
        /\ Turn(w, k) /\ UNCHANGED <<balance, deleted, customer, jobStatus, rollback>>
    BY <1>0, <1>4, WorkIs DEF CaptureAfter, Does
  <2>2. Picture(j) \in AnyPicture /\ Since(Picture(j), j, balance, deleted) /\ Before(work[w].before, Picture(j), j)
    <3>1. Since(work[w].before, j, balance, deleted)
      BY <1>0, <2>1 DEF Holds
    <3> QED BY <1>0, <2>1, <3>1, PictureIs
  <2>3. k \in ImportWorks /\ Holds(k, balance, deleted)
    BY <2>1, <2>2 DEF ImportWorks, Holds
  <2> HIDE DEF k
  <2> QED BY <1>0, <2>1, <2>3, QuietRequest
<1>5. CASE Complete(w)
  <2> DEFINE p == [before |-> work[w].before, after |-> work[w].after]
  <2>1. /\ j \in ImportJobs /\ work[w].before \in AnyPicture /\ work[w].after \in AnyPicture
        /\ work[w].does = "finish" /\ Turn(w, NoWork) /\ UNCHANGED <<balance, deleted, customer>>
        /\ jobStatus' = [jobStatus EXCEPT ![j] = "completed"] /\ rollback' = [rollback EXCEPT ![j] = p]
    BY <1>0, <1>5, WorkIs DEF Complete, Does
  <2>2. p \in PicturePairs /\ Pictured(j, "completed", p, balance, deleted)
    BY <1>0, <2>1 DEF PicturePairs, Pictured, Holds
  <2> HIDE DEF p
  <2>3. /\ jobStatus' \in [ImportJobs -> JobStatus] /\ rollback' \in [ImportJobs -> PicturePairs]
        /\ \A i \in ImportJobs : \/ jobStatus'[i] = jobStatus[i] /\ rollback'[i] = rollback[i]
                                 \/ Pictured(i, jobStatus'[i], rollback'[i], balance, deleted)
    BY <1>0, <2>1, <2>2 DEF JobStatus
  <2> QED BY <1>0, <2>1, <2>3, QuietRequest
<1>6. CASE ExecuteFails(w) \/ WorkerDies(w)
  <2>1. /\ Turn(w, NoWork) /\ UNCHANGED <<balance, deleted, customer, rollback>>
        /\ jobStatus' = jobStatus \/ jobStatus' = [jobStatus EXCEPT ![j] = "failed"]
    BY <1>6 DEF ExecuteFails, WorkerDies
  <2>2. /\ jobStatus' \in [ImportJobs -> JobStatus]
        /\ \A i \in ImportJobs : jobStatus'[i] # "completed" \/ jobStatus'[i] = jobStatus[i]
    BY <1>0, <2>1 DEF JobStatus
  <2> QED BY <1>0, <2>1, <2>2, QuietRequest
<1>7. CASE \E c \in Codes : SkipRow(w, c)
  <2> PICK c \in Codes : SkipRow(w, c)
    BY <1>7
  <2> DEFINE k == [work[w] EXCEPT !.left = work[w].left \ {c}]
  <2>1. Turn(w, k) /\ UNCHANGED <<balance, deleted, customer, jobStatus, rollback>> /\ work[w].does = "rows"
    BY DEF SkipRow, Does
  <2>2. work[w] \in [does : {"rows"}, job : ImportJobs, before : AnyPicture, left : SUBSET Codes]
    BY <1>0, <2>1, WorkIs
  <2>3. /\ k \in [does : {"rows"}, job : ImportJobs, before : AnyPicture, left : SUBSET Codes]
        /\ k.does = "rows" /\ k.job = j /\ k.before = work[w].before
    BY <2>2
  <2> HIDE DEF k
  <2>4. k \in ImportWorks /\ Holds(k, balance, deleted)
    BY <1>0, <2>1, <2>3 DEF ImportWorks, Holds
  <2> QED BY <1>0, <2>1, <2>4, QuietRequest
<1> QED BY <1>1, <1>2, <1>3, <1>4, <1>5, <1>6, <1>7

\* A row is written where the customer may have had none.
LEMMA WriteRowKeeps ==
    ASSUME ImportsInv, NEW w \in Workers, NEW c \in Codes, WriteRow(w, c)
    PROVE  ImportsInv'
<1> DEFINE j == work[w].job
           k == [work[w] EXCEPT !.left = work[w].left \ {c}]
<1>1. /\ Turn(w, k) /\ work[w].does = "rows" /\ UNCHANGED <<jobStatus, rollback, deleted>>
      /\ balance' = [balance EXCEPT ![c] = j] /\ customer' = [customer EXCEPT ![c] = "active"]
  BY DEF WriteRow, Does
<1>2. /\ ImportsTyped /\ Holds(work[w], balance, deleted) /\ j \in ImportJobs
      /\ work[w] \in [does : {"rows"}, job : ImportJobs, before : AnyPicture, left : SUBSET Codes]
  BY <1>1, WorkIs DEF ImportsInv
<1>3. Moves
  <2>1. j \in Writers /\ j # "none"
    BY <1>2, ImportsAssumption DEF Writers
  <2> QED BY <1>1, <1>2, <2>1 DEF ImportsTyped, Moves
<1>4. /\ k \in [does : {"rows"}, job : ImportJobs, before : AnyPicture, left : SUBSET Codes]
      /\ k.does = "rows" /\ k.job = j /\ k.before = work[w].before
  BY <1>2
<1> HIDE DEF k
<1>5. k \in ImportWorks
  BY <1>4 DEF ImportWorks
<1>6. /\ work' \in [Workers -> ImportWorks] /\ work'[w] = k
      /\ \A v \in Workers \ {w} : work'[v] = work[v]
  BY <1>1, <1>2, <1>5, Turns
<1>7. ImportsTyped'
  BY <1>1, <1>2, <1>3, <1>6 DEF ImportsTyped, Moves
<1>8. Since(work[w].before, j, balance', deleted')
  BY <1>1, <1>2, <1>3, SinceStays DEF Holds
<1>9. Holds(work'[w], balance', deleted')
  BY <1>4, <1>6, <1>8 DEF Holds
<1> QED BY <1>1, <1>3, <1>6, <1>7, <1>9, RequestStep

\* What a reversal may take back is what the closing picture shows.
LEMMA ReverseReadKeeps ==
    ASSUME ImportsInv, NEW w \in Workers, NEW j \in ImportJobs, ReverseRead(w, j)
    PROVE  ImportsInv'
<1> DEFINE p == rollback[j]
           k == [does |-> "reverse", job |-> j, seen |-> Picture(j), pictures |-> p]
<1>1. /\ Turn(w, k) /\ UNCHANGED <<jobStatus, rollback, balance, deleted, customer>>
      /\ Reversible(j) /\ jobStatus[j] = "completed"
  BY DEF ReverseRead, Reversible
<1>2. /\ ImportsTyped /\ p \in PicturePairs /\ Picture(j) \in AnyPicture
      /\ Before(p.before, p.after, j) /\ Since(p.after, j, balance, deleted)
  BY <1>1, PictureIs DEF ImportsInv, ImportsTyped, Pictured
<1>3. Agrees(p, Picture(j), j)
  <2> SUFFICES ASSUME NEW c \in FileRows[j], p.before[c].balance # "none" \/ p.after[c].balance # "none"
               PROVE  balance[c] = p.after[c].balance
    BY <1>2, PictureIs DEF Agrees
  <2>1. p.after[c].balance # "none" => balance[c] = p.after[c].balance
    BY <1>1 DEF Reversible
  <2>2. p.before[c].balance # "none" => deleted[c] = p.before[c].row
    BY <1>1 DEF Reversible
  <2>3. p.before[c].row <= p.after[c].row /\ p.after[c].row <= deleted[c]
    BY <1>2 DEF Before, Since
  <2>4. p.before[c].row \in Nat /\ p.after[c].row \in Nat /\ deleted[c] \in Nat
    <3>1. c \in Codes
      BY ImportsAssumption
    <3> QED BY <1>2, <3>1 DEF Before, PicturesOf, PictureRows, ImportsTyped
  <2>5. p.before[c].balance # "none" => p.after[c].balance # "none"
    BY <1>2, <2>2, <2>3, <2>4 DEF Before
  <2> QED BY <2>1, <2>5
<1>4. k \in ImportWorks /\ Holds(k, balance, deleted)
  BY <1>2, <1>3 DEF ImportWorks, Holds
<1>5. jobStatus \in [ImportJobs -> JobStatus] /\ rollback \in [ImportJobs -> PicturePairs]
  BY <1>2 DEF ImportsTyped
<1> HIDE DEF k
<1> QED BY <1>1, <1>4, <1>5, QuietRequest

\* A balance that the reversal changes is one that the closing picture shows: it was
\* seen as the picture has it, and is as it was seen.
LEMMA ReversalTakesOwn ==
    ASSUME ImportsInv, NEW w \in Workers, ReverseCommit(w), NEW c \in Codes, balance'[c] # balance[c]
    PROVE  balance[c] = rollback[work[w].job].after[c].balance
<1>1. work[w].does = "reverse" /\ SameRows(w) /\ Agrees(work[w].pictures, work[w].seen, work[w].job)
  BY DEF ReverseCommit, Does, ImportsInv, Holds
<1>2. c \in Restored(w) \cup Deleted(w)
  BY DEF ReverseCommit
<1>3. /\ c \in FileRows[work[w].job]
      /\ work[w].pictures.before[c].balance # "none" \/ work[w].pictures.after[c].balance # "none"
  BY <1>2 DEF Restored, Deleted
<1>4. balance[c] = work[w].seen[c].balance /\ rollback[work[w].job] = work[w].pictures
  BY <1>1, <1>2 DEF SameRows
<1> QED BY <1>1, <1>3, <1>4 DEF Agrees

\* A reversal puts back what was there, or deletes the row and counts it.
LEMMA ReverseCommitKeeps ==
    ASSUME ImportsInv, NEW w \in Workers, ReverseCommit(w)
    PROVE  ImportsInv'
<1> DEFINE j == work[w].job
           p == work[w].pictures
<1>1. /\ work[w].does = "reverse" /\ SameRows(w) /\ Turn(w, NoWork) /\ UNCHANGED rollback
      /\ jobStatus' = [jobStatus EXCEPT ![j] = "reversed"]
      /\ ImportsTyped /\ j \in ImportJobs /\ NoWork \in ImportWorks
  BY WorkIs DEF ReverseCommit, Does, ImportsInv, ImportWorks
<1>2. /\ jobStatus[j] = "completed" /\ rollback[j] = p /\ Before(p.before, p.after, j)
  BY <1>1 DEF SameRows, ImportsInv, Pictured
<1>3. \A c \in FileRows[j] : p.before[c] \in PictureRows
  BY <1>2 DEF Before, PicturesOf
<1>4. /\ \A c \in Restored(w) : p.before[c].balance \in Writers \ {"none"}
      /\ \A c \in KnownBefore(w) : p.before[c].customer \in {"none", "active", "import_reversed"}
  BY <1>3 DEF Restored, KnownBefore, PictureRows
<1>5. /\ balance' = [c \in Codes |-> IF c \in Restored(w) THEN p.before[c].balance
                                     ELSE IF c \in Deleted(w) THEN "none" ELSE balance[c]]
      /\ deleted' = [c \in Codes |-> IF c \in Deleted(w) THEN deleted[c] + 1 ELSE deleted[c]]
      /\ customer' = [c \in Codes |-> IF c \in KnownBefore(w) THEN p.before[c].customer
                                      ELSE IF c \in Archived(w) THEN "import_reversed" ELSE customer[c]]
  BY DEF ReverseCommit
<1> HIDE DEF p
<1>6. balance' \in [Codes -> Writers] /\ customer' \in [Codes -> {"none", "active", "import_reversed"}]
  BY <1>1, <1>4, <1>5 DEF ImportsTyped, Writers
<1>7. deleted' \in [Codes -> Nat] /\ \A c \in Codes : deleted[c] \in Nat /\ deleted'[c] \in {deleted[c], deleted[c] + 1}
  BY <1>1, <1>5 DEF ImportsTyped
<1>8. Moves
  <2> SUFFICES ASSUME NEW c \in Codes
               PROVE  /\ deleted[c] <= deleted'[c]
                      /\ balance[c] # "none" /\ deleted'[c] = deleted[c] => balance'[c] # "none"
    BY <1>6, <1>7 DEF Moves
  <2>1. c \in Deleted(w) => deleted'[c] # deleted[c]
    BY <1>5, <1>7
  <2>2. c \notin Deleted(w) /\ balance[c] # "none" => balance'[c] # "none"
    BY <1>4, <1>5
  <2> QED BY <1>7, <2>1, <2>2
<1>9. /\ work' \in [Workers -> ImportWorks] /\ work'[w] = NoWork
      /\ \A v \in Workers \ {w} : work'[v] = work[v]
  BY <1>1, Turns
<1>10. ImportsTyped'
  BY <1>1, <1>6, <1>7, <1>9 DEF ImportsTyped, JobStatus
<1>11. Holds(work'[w], balance', deleted')
  BY <1>9 DEF Holds, NoWork
<1>12. \A i \in ImportJobs : jobStatus'[i] # "completed" \/ (jobStatus'[i] = jobStatus[i] /\ rollback'[i] = rollback[i])
  BY <1>1 DEF ImportsTyped
<1> QED BY <1>8, <1>9, <1>10, <1>11, <1>12, RequestStep

\* No import has begun.
LEMMA ImportsInitially == ImportsInit => ImportsInv
<1> SUFFICES ASSUME ImportsInit PROVE ImportsInv
  OBVIOUS
<1>1. ImportsTyped
  BY DEF ImportsInit, ImportsTyped, JobStatus, PicturePairs, NoPictures, ImportWorks, Writers
<1>2. \A w \in Workers : Holds(work[w], balance, deleted)
  BY DEF ImportsInit, Holds, NoWork
<1>3. \A j \in ImportJobs : Pictured(j, jobStatus[j], rollback[j], balance, deleted)
  BY DEF ImportsInit, Pictured
<1> QED BY <1>1, <1>2, <1>3 DEF ImportsInv

\* Every step keeps the invariant.
LEMMA ImportsNextInvariant == ImportsInv /\ [ImportsNext]_importVars => ImportsInv'
<1> SUFFICES ASSUME ImportsInv, [ImportsNext]_importVars PROVE ImportsInv'
  OBVIOUS
<1>1. CASE (\E c \in Codes : Activity(c)) \/ UNCHANGED importVars
  <2>1. UNCHANGED <<jobStatus, rollback, balance, deleted, customer, work>>
    BY <1>1 DEF Activity, importVars
  <2> QED BY <2>1 DEF ImportsInv, ImportsTyped
<1> QED BY <1>1, ExecutionKeeps, WriteRowKeeps, ReverseReadKeeps, ReverseCommitKeeps DEF ImportsNext

\* In every reachable state the pictures tell what became of the balances, for any
\* files, customers and requests at work at once.
THEOREM ImportsInvariance == ImportsSpec => []ImportsInv
BY ImportsInitially, ImportsNextInvariant, PTL DEF ImportsSpec

\* The reversal of an import takes back only what its closing picture shows
\* (reverseImport), however executions write their rows meanwhile.
THEOREM ReversalTakesOnlyOwn == ImportsSpec => ReversalSparesOthers
<1> DEFINE Spared ==
      \A j \in ImportJobs : (jobStatus[j] = "completed" /\ jobStatus'[j] = "reversed") =>
          \A c \in Codes : balance'[c] # balance[c] => balance[c] = rollback[j].after[c].balance
<1>1. ImportsInv /\ [ImportsNext]_importVars => [Spared]_importVars
  <2> SUFFICES ASSUME ImportsInv, ImportsNext, NEW j \in ImportJobs,
                      jobStatus[j] = "completed", jobStatus'[j] = "reversed",
                      NEW c \in Codes, balance'[c] # balance[c]
               PROVE  balance[c] = rollback[j].after[c].balance
    OBVIOUS
  <2>1. jobStatus \in [ImportJobs -> JobStatus] /\ jobStatus' # jobStatus
    BY DEF ImportsInv, ImportsTyped
  <2>2. \E w \in Workers : ReverseCommit(w)
    BY <2>1 DEF ImportsNext, CaptureBefore, StartRows, CaptureAfter, Complete, ExecuteFails, WorkerDies,
               ExecuteRead, ReverseRead, WriteRow, SkipRow, Activity
  <2> PICK w \in Workers : ReverseCommit(w)
    BY <2>2
  <2>3. work[w].job = j
    BY <2>1 DEF ReverseCommit
  <2> QED BY <2>3, ReversalTakesOwn
<1> HIDE DEF Spared
<1>2. ImportsSpec => [][Spared]_importVars
  BY <1>1, ImportsInvariance, PTL DEF ImportsSpec
<1> QED BY <1>2 DEF Spared, ReversalSparesOthers
=============================================================================
