# Albinaa platform: a TLA+ verification development

The platform collects debts. Collectors in the field use a phone application
that works without a connection, desks use a web client, one NestJS server over
PostgreSQL holds the operational truth, and two small gateways read from and
write drafts to the company's Oracle ERP, which holds the accounting truth.
This directory models the parts of it whose correctness depends on the order in
which things happen, checks them with TLC on small instances, and proves their
safety for instances of any size with TLAPS.

Contents: [the system](#the-system), [what makes it hard](#what-makes-it-hard),
[modelling conventions](#modelling-conventions), [the modules](#the-modules),
[the runs](#the-runs), [what disagrees with the code's own words](#what-disagrees),
[the proofs](#the-proofs), [what is not modelled](#what-is-not-modelled),
[the plan](#the-plan).

## The system

Paths are relative to `src/`. "Hard" names what a unit test hardly reaches;
"correct" the properties that make the part right, with the name of the checked
property where there is one.

| Part | State | Operations | Talks to | Hard | Correct when |
|---|---|---|---|---|---|
| Collections `backend/src/collections` | `collections`, `operational_ledger`, `collection_reversal_requests`, `cash_handover`, handover vouchers and their items | create, request and review a reversal, single handover, voucher create / match / lock | accounting periods, audit, tasks | handlers read before their transaction and write by id in it | no receipt is counted or reversed twice (`LedgerSound`), money moves back only by two people (`ReversalTakesTwo`), cash and vouchers agree (`CashBehindStatus`, `VoucherMatchesItems`) |
| Accounting periods `backend/src/accounting-periods` | locked months | lock, unlock, check a date | collections | the month may close between check and commit | no receipt enters a locked month (broken; see [below](#what-disagrees)) |
| Audit `backend/src/audit` | `audit_logs` | one insert after each commit | everything | the row may be missing after a crash | it never lies (`AuditTruthful`) |
| Promises `backend/src/promises` | `payment_promises`, their tasks, `payment_promise_receipt_allocations` | create, update, set status, sweep of overdue ones, settlement, reminders | tasks, receipts (local and Oracle mirror), assignments, merges of customers, notifications | stale lists, several handlers on one promise, receipts that are corrected or vanish, customers merged and taken apart | `PlanWithinCapacity`, `AttributionIsUnique`, `FinalLeavesNoWork`, `MissedIsKept`, `SweepSpares` |
| Tasks `backend/src/tasks` | `tasks` | create, complete, reassign, daily lists, bulk closing by reviewed plan | promises, receipts sent to Oracle, follow-ups, assignments | the list a person reviewed is not the list that is closed | a review closes exactly what was reviewed (`ClosesWhatWasReviewed`), no work left for what is settled (`FinalLeavesNoWork` for promises) |
| Follow-ups, contact attempts `backend/src/followups` | `followups`, `contact_attempts` | register an attempt, turn it into a follow-up after ten minutes | tasks, promises | an attempt sent again, two processes with the same timer, activity racing it | one follow-up or none per attempt (`AttemptAnsweredOnce`) |
| Idempotency `backend/src/common/interceptors` | `idempotency_keys` | look up, run, store | every mutating end point | overlap and crash between run and store | one answer per key (`AnswersAgree`), one effect per reservation (`ImplementsOnce`) |
| Reservations `backend/src/reservations` | `reservations`, own keys | create, change status, catalogue | Oracle inventory mirror | retries of one request | `ImplementsOnce`, `BookedOnce` |
| Inventory transfers `backend/src/inventory-transfers` | `inventory_transfer_requests` | create, submit, dry run, approve, reject, link, refresh | Oracle write gateway and read API | an external call between check and write | an approved transfer bears the number of its own draft (`ApprovedHasDraft`, `NumberKept`), nothing is asked for one not submitted (`NothingUnasked`) |
| Oracle test requests `backend/src/oracle-test-requests` | none of its own: the screens forward what they are given | dry run, draft, follow-up of a receipt | Oracle write gateway, tasks | a retry with another content; tasks closed by a plan made before Oracle answered | `ImplementsOnce`, `ClosesWhatWasReviewed` |
| Oracle write gateway `oracle-write-api` | Oracle draft tables | dry run, create one draft | Oracle | retry after a lost answer; number allocation | a reference has one draft, numbers differ (`NumbersDiffer`), no table stays locked (`LockHeld`) |
| Oracle read API `oracle-read-api` | none | queries | Oracle | none of its own | reads are read only |
| Inventory mirror `backend/src/oracle-inventory-sync` | sync runs, mirrored rows, active and previous run | load, validate, publish, roll back, two retentions | write gateway's schemas, reservations | publication, rollback and retention interleaved | what readers or a rollback need is never retired (`PointersNotRetired`) |
| Movements mirror `backend/src/oracle-movement-sync` | snapshots, publication ledger, batches, customers' statements | snapshot, baseline, publication with overrides, rollback of a batch | imports, balances, exceptions review | edits, edits back and rollbacks of one document, files that bring its lines at any moment | only a file's row puts a line on a statement twice (`DoubledOnlyByFile`), what was settled otherwise stays out (`BlockedStaysOut`) |
| Customers mirror `backend/src/oracle-customer-sync` | snapshots | stage one snapshot | customers | none of its own beyond the mirrors' | a snapshot is whole or absent |
| Monitoring, exceptions `backend/src/oracle-monitoring` | exception reviews | approve, ignore, reopen | movements publication | decision racing a publication | a reviewed exception is published once |
| Barcode printing `backend/src/oracle-inventory-sync/barcode-print.controller.ts` | `barcode_print_jobs` | enqueue, claim, acknowledge, expire | print agent | the agent dies with the label in the printer | no label goes to the printer twice, and what a row says of it is true (`PrintedOnce`) |
| Analytical accounts `backend/src/analytical-accounts` | analytical movements, advances | import, publish from Oracle | imports | a late older reading | readings never go back |
| Imports `backend/src/imports` | import jobs with before and after pictures | execute, reverse | customers, balances | row-by-row execution, reversal after later edits | a reversal takes back only what its import left (`ReversalSparesOthers`) |
| Customers `backend/src/customers` | customers, pairs of duplicates, merges | edit, review, merge, undo the merge | all that refers to a customer | chains of merges undone out of order, bookings in between | `MergedByOneMerge`, `RecordsInSight`; worth kept (broken; see [below](#what-disagrees)) |
| Assignments `backend/src/assignments` | `customer_assignments` | assign, transfer, bulk | tasks, notifications | two transfers of one customer | one current assignment per customer |
| Sessions `backend/src/auth` | `auth_sessions` | login, rotate, log out, change password | every client | a token rotated twice, the limit | at most the limit, no revoked token revived |
| HR `backend/src/hr` | requests, tasks, attendance, payroll | decide by version, approve a month | notifications | payroll locks | a request is decided once; a month is paid once |
| Risk, aging `backend/src/risk`, `aging` | derived rows | recompute | all | none: a skipped tick is redone | recomputation is a function |
| Notifications, messaging, push outbox `backend/src/notifications`, `hr/hr-push.service.ts` | notifications, device tokens, `hr_push_deliveries` | insert, mark read, claim, send in batches, ask for receipts | promises, HR, the push provider | an answer lost between the provider and the row | `OneReminderADay`; `SendsBounded`, `AcceptedNotResent`, `DeliveriesEnd` |
| Phone `mobile/src` | SQLite `mutation_queue`, `offline_requests`, snapshots | write offline, correct, send by two loops, block, discard | the server | two loops without a lock, answers lost, the application killed | `NothingLost`, `SyncedIsExecuted`, `BookedOnce`, `QueueDrains` |
| Web `frontend/src` | token | calls | the server | none of its own | - |
| Master data, dashboards, reports, search, settings | rows | edit one, read | - | none | - |
| Scripts and deployment | files | mirror jobs, retention, backups | mirrors | outside the program | - |

They interact in three ways: by calls (phone and web to the server, server to
the two gateways), by shared tables (promises read the receipts that collections
and the Oracle mirror write; tasks are closed by promises, collections and
assignments), and by schedulers that work on lists (sweep, reminders,
settlement, push, mirrors).

## What makes it hard

Nearly every handler of the server reads rows, decides, and only then opens a
transaction in which some statements are guarded again (a status in the `WHERE`
of an `updateMany`, a `FOR UPDATE`, a unique key) and others are plain updates
by id. Which of the two a statement is decides whether a race is harmless. On
the phone, two loops run over one SQLite table and share no lock, and each
statement is a step. Between them stands a network that loses answers and a
server that may stop after its commit. `PROJECT.json` lists the hazards one by
one, each at its line, with the property that would catch it.

## Modelling conventions

* A handler of the server occupies a *slot*. Its reads and checks are one step
  (`...Read`), its transaction another (`...Commit`); what the first saw is kept
  in the slot and may be stale in the second. A transaction at PostgreSQL's
  READ COMMITTED that takes no row lock is still one step where all its writes
  are guarded by the rows they touch; where it reads and then overwrites, the
  two are separate steps (`MatchTx`, `MatchCommit`). A SERIALIZABLE
  one is a step that reads its snapshot and a step that commits only if no row it
  writes was written since (`SameTasks`, `SameRows`), or one step where nothing
  relevant lies between.
* A unique key is a guard of the insert; violating it rolls the handler back
  (`Fail`).
* A crash of the server frees the slot between two steps, and in particular
  after the commit and before the audit row.
* Amounts are small units, dates are days or ticks, people and rows are model
  values. Wording, permissions without a race, formatting and pagination are
  left out.
* Each property's comment names the code it is about. Operators called
  "Mutant of X" are slips somebody could make in X; the properties of every
  passing run are tested by replacing X with such a slip and seeing the
  property fail. They are not part of any specification.

## The modules

| Module | Role | Extends |
|---|---|---|
| `Collections` | the receipts desk: receipts, reversals, vouchers, cash, numbers, periods, audit rows | - |
| `DualControl` | abstract: what the desk promises about money | - |
| `CollectionsProofs` | theorems about `Collections` and their proofs | `Collections` |
| `SettlementPlan` | the pure planner `planPromiseSettlements` and the database's guard on its rows | - |
| `Promises` | promises, their tasks, sweep, reminders, settlement by that plan, and what a merge of customers moves of them | `SettlementPlan` |
| `PromisesProofs` | theorems about `SettlementPlan` and `Promises` and their proofs | `Promises` |
| `ExactlyOnce` | abstract: what an idempotency key promises its clients | - |
| `Idempotency` | the interceptor and the end points that guard themselves | - |
| `IdempotencyProofs` | theorems about `Idempotency` and their proofs | `Idempotency` |
| `OfflineQueue` | the phone's queue and screens, over `Idempotency` as its server | `Idempotency` |
| `DraftGateway` | the gateways that write drafts to Oracle, and their callers' side | - |
| `DraftGatewayProofs` | theorems about `DraftGateway` and their proofs | `DraftGateway` |
| `Transfers` | inventory transfers, approved through that gateway | `DraftGateway` |
| `TransfersProofs` | theorems about `Transfers` and their proofs | `Transfers`, `DraftGatewayProofs` |
| `SettledTasks` | the tasks of a customer: reviewed bulk closing, receipts sent to Oracle, completion | - |
| `ContactAttempts` | attempts to reach a customer and the follow-ups the server makes of them | - |
| `TasksProofs` | theorems about `SettledTasks` and `ContactAttempts` | both |
| `PushOutbox` | delivery of notifications to devices | - |
| `PrintJobs` | the print queue, its agents and their deaths | - |
| `QueuesProofs` | theorems about the three queues: `PrintJobs`, `PushOutbox`, `OfflineQueue` | these, `IdempotencyProofs` |
| `InventoryMirror` | runs of the inventory mirror: publication, rollback, retention | - |
| `OracleMovements` | automatic publication of the lines of one document | - |
| `CustomerMerges` | pairs of duplicates, merges and their undoing | - |
| `Imports` | execution and reversal of files of balances | - |
| `RecordsProofs` | theorems about what comes from Oracle and from files | `InventoryMirror`, `OracleMovements`, `CustomerMerges`, `Imports` |
| `MCCollections`, `MCPromises`, `MCOfflineQueue`, `MCTransfers` | instances for TLC: model values, functions used as constants, symmetry, and in `MCPromises` narrower next-state relations, the parts of a run | the module they instantiate |
| `MCRequests` | an instance of what is sent more than once; a behaviour is one of the phone with its server, the server alone, the tasks, the attempts | `OfflineQueue`, `SettledTasks`, `ContactAttempts` |
| `MCQueues` | an instance of the three queues; a behaviour is one of the phone's, the push outbox, the print queue | `OfflineQueue`, `PushOutbox`, `PrintJobs` |
| `MCRecords` | an instance of what comes from Oracle and from files; a behaviour is one of the mirror, the movements, the merges, the imports | `InventoryMirror`, `OracleMovements`, `CustomerMerges`, `Imports` |

Components that share no state share an instance: its initial state chooses
which of them runs, and the others stay at rest. That keeps the runs as many as
the questions and never multiplies their states.

`Collections` and `Promises` share one handler of the code: recording a receipt
inserts the receipt and its ledger row, and closes the customer's due tasks. The
first half is `Collections!CreateCommit`, the second `Promises!CloseDue` and
`ShowRow`; no property relates the two halves.

### Collections

`status`, `holder`, `reversedBy` are columns of `collections`; `ledger`, `req`,
`voucher` with `items`, `cash`, `locked` and `audit` the tables they are named
after; `nextReceipt` and `nextVoucher` the branch sequences. `op[s]` is the local
state of the handler in slot `s`.

| Code | Actions |
|---|---|
| `create` | `CreateRead` (period check), `CreateCommit` (number, receipt, ledger row) |
| `reverse` | `ReverseRead`, `ReverseCommit` (partial unique index on pending requests) |
| `reviewReversal`, `executeReversal` | `ReviewRead`, `RejectCommit` (an update by id), `ApproveCommit` (three guards in one transaction) |
| `createHandoverVoucher` | `SubmitRead`, `SubmitCommit` (counts what its conditional update changed) |
| `matchHandoverVoucher` | `MatchRead`, `MatchTx` (takes the voucher's row, reads the receipts without locking them), `MatchCommit` |
| `lockHandoverVoucher` | `LockRead`, `LockCommit` |
| `handover` | `HandoverRead`, `HandoverCommit` |
| `AuditService.log` | `Log`, always after the commit |
| accounting periods | `LockPeriod`, `UnlockPeriod` |
| a rolled back transaction, a stopped server | `Conflict`, `Fail` |

The mirror receipt a reversal creates is born `reversed`, which every operation
refuses; it is represented by `reversedBy` of its original. Amounts do not appear:
they are copied from the receipt to its ledger rows and never computed with.
`DualControl` keeps only who was counted, who asked and who cancelled; the
mapping is `Counted`, `Asked`, `Cancels`.

### SettlementPlan and Promises

`Plan` is the planner, as a fold over the visible receipts in the order of the
code (by day, then key): which groups are left for review (`Contradictory`,
`Unbacked`, `OutOfBalance`), which promise a receipt could be for
(`Candidates`), and that two candidates mean no allocation (`OnlyCandidate`).
`Candidates` is taken over all promises, selected or not, as in the code; only
then is the selection asked for. `LastDay` is the day of the last receipt the plan
gave the promise, which overwrites what earlier runs left (`:138`). `Accepted` and
`NotRepeated` are the trigger and the unique key of
`20261028010000_promise_receipt_settlement`: a plan with a row that breaks either
rolls back as a whole.

`Promises` keeps `payment_promises` by column (`status`, `terms`, `due`,
`expected`, `fulfilled`, `missed`), the tasks that come from promises in order of
creation, the receipt rows now visible (`rows`: local receipts and the Oracle
mirror; they come, go and change), `alloc`, `merges`, and how often each promise was
reminded of on each day. Of the allocations the planner reads those for customers who
have promises (`Loaded`), while the trigger looks at all of them.

A merge moves the promises and the local receipts of one customer to another, and
its undoing moves back the same rows, by identity (`Moved`). A local receipt's key is
`local:<id>` and stays; Oracle's keys contain the customer and their rows follow the
customer's code, so they do not move. An allocation keeps the customer it was made
for. `Undivided` says of a row to be inserted that no merge has come between it and
the earlier allocations of its receipt and its promise. Assignments move as in the code:
the target keeps its own, or gets the source's.

| Code | Actions |
|---|---|
| `PromisesService.create`, `update`, `setStatus` | `CreateRead/Commit`, `UpdateRead/Commit`, `SetStatusRead/Commit` |
| `PromiseSettlementService.apply`, automatic or by a person | `SettleTick` |
| `sweepOverdue` | `SweepBegin` (settle), `SweepRead`, `SweepOne` per promise (conditional update), `SweepEnd` |
| `PromiseReminderScheduler.runForOrganization` | `RemindRead`, `RemindCheck`, `RemindWrite`, `RemindEnd` |
| a receipt recorded for the customer, a task ticked off | `CloseDue`, `CompleteTask` |
| time, assignments, receipts and mirrors | `Tick`, `Reassign`, `ShowRow`, `HideRow` |
| `CustomersService.mergeDuplicate`, `reverseMerge` | `Merge`, `Undo`, as far as promises see them |
| a stopped server | `Fail` |

### Idempotency and ExactlyOnce

A key is a method, a path and an `Idempotency-Key`; `Kind` says how its end point
guards itself: not at all (`open`), by the interceptor alone, by the interceptor
and a unique key of its row (`transfer`), by the interceptor and a status check
(`submit`), or by a key kept in the transaction it guards (`reservation`).
`stored` is `idempotency_keys` (and, for a reservation, its own record), `log`
the effects in order of commit; an entity is its place in the log. A call goes
from `sent` through `running` and `executed` to `answered`: look up, run, store
are three steps, and the server may stop, or the client give up, between any two
of them (`Crash`, `GiveUp`). `ExactlyOnce` has one variable for what was applied
under each key and one for what clients are being told.

### OfflineQueue

`row` is `mutation_queue` by operation, with the `AUTOINCREMENT` id that the
queue's statements name; `label` is `offline_requests.status`; `run[w]` is how
far loop `w` (or the open screen) is, with the list it read at its start. The two
loops are `sync-context.tsx` in the foreground and `sync-operations.ts` in the
background task; they share the table and no lock, and each awaited statement is
a step (`Begin`, `Take`, `Created`, `Check`, `Submitted`, `MarkSynced`, `Remove`,
`Block`, `MarkBlocked`, `Backoff`, `MarkPending`, `Done`). The server's steps are
those of `Idempotency`; `Take`, `Check` and `TryOnline` send, `Answered` hears,
`Lost` and `OnlineLost` time out, `Kill` stops the application, which forgets
`run` and keeps SQLite. `Forms` are inventory transfers (created, dry run, then
submitted), `Posts` what is first posted without a key (promises, follow-ups),
`Bookings` what carries one key from its first attempt (reservations).

### DraftGateway and Transfers

A *job* is one call at the gateway. It carries a reference and a content
(`asks`); `stage` says how far its transaction has come, `lock` which job holds
each of Oracle's tables, `number` what it has read from `MAX(no) + 1`; `waits`
whether anybody still listens. `drafts` is what Oracle has committed.

| Code | Actions |
|---|---|
| `OracleOutRequestHttpWriter.createDraft`, the quotation and sales order screens | `Post`, `Hear`, `GiveUp` (the 20 seconds of `AbortSignal.timeout`, or a caller that stopped) |
| `createDraft` of each writer | `LockTable` (`NOWAIT`), `Repeat` (the reference has a draft), `TakeNumber`, `Write` (inserts and commit, whose answer may still be an error), `Fail` (rollback) |

Quotations and sales orders (`Marked`) keep a fingerprint of their content in
the draft and refuse another content under the same reference; transfers do not,
and get the number of whatever draft there is. `ExactlyOnce`, the abstract
specification of the idempotency keys, is also that of marked references:
`Drafted` and `Confirmed` map its variables.

`Transfers` keeps `status`, `createdBy` and `outReqNo` of
`inventory_transfer_requests` by column, and `op[s]` for the handlers. A transfer
is a reference of its own, and its content is fixed when it is drawn up.

| Code | Actions |
|---|---|
| `create` | `Create` (unique idempotency key) |
| `submit`, `reject` | `SubmitRead`, `SubmitCommit`; `RejectRead`, `RejectCommit`: updates by id |
| `approve` | `ApproveRead` (pending, another person), `Invalid` or `AskDraft` after its dry run, `DraftAnswered` or `DraftTimeout`, `ApproveCommit` (an update by id) |
| the screens of the other documents | `Screen` |
| a stopped server | `Stop`; a call it made goes on, and is then one of nobody's (`Screen` hears or drops it) |

The evidence a dry run keeps, linking to Oracle's final document, `refresh`, and
a gateway whose writing is disabled are left out. So are the documents the ERP's
own users draw up: they carry no reference, and cannot be written while a writer
holds the table. All writers lock, look up, number and insert in this order; the
map names the lines of the transfers', quotations' and sales orders'. A table of
the model is what one `MAX` numbers. Where a writer numbers by type within a
table, the lock of the code covers more than the model's, which only takes
behaviours away.

### SettledTasks and ContactAttempts

`SettledTasks` follows the tasks of one customer: `taskStatus` and `taskEdits`
(which stands for `updated_at` and the version a hash is made of), `debt` and
`entries` (balances and ledger, by currency, and the ledger's fingerprint), `plan`
(the previews somebody kept), `applying` (what each transaction's snapshot
showed), `audited` (audit rows by plan and task) and `desk` (receipts on their way
to Oracle).

| Code | Actions |
|---|---|
| `SettledFinancialTasksService.preview` | `Preview` |
| `apply` | `ApplyBegin` (already applied, or still the plan it was), `ApplyCommit` (fails if a task was written since its snapshot), `ApplyFails` |
| `OracleTestRequestsService.receiptFollowupPlan`, `applyReceiptFollowupPlan` | `ReceiptPlan` before Oracle is asked, `ReceiptApply` after it answered, `ReceiptFails` |
| `TasksService.complete`, the daily list | `CompleteTask` (by id), `MergeReason` |
| balances and ledger | `DebtChanges` |

The serializable level is taken at its word for rows written twice, not for what
is only read: a debt recorded between snapshot and commit is not noticed, and the
property does not say that it is. The limit of a plan, the reasons it gives for
what it excludes, and the promise or follow-up a completion asks for are left out.

`ContactAttempts` follows the attempts to reach one customer: `attempt` is
`contact_attempts.status`, `since` and `baseline` what its author had recorded when
it was made and when it was registered, `forCollector` whose the customer was,
`automatic` the follow-ups the server has written.

| Code | Actions |
|---|---|
| `registerContactAttempt` of the phone and the web client | `Touch` |
| `ContactAttemptService.register` | `RegisterRead` (under an advisory lock), `RegisterCommit`, `RegisterFails` |
| `process`, every thirty seconds in every server process | `ProcessRead` (`FOR UPDATE SKIP LOCKED`), `ProcessCommit`, `ProcessFails` |
| follow-ups, tasks, promises by hand; transfers of the customer | `Records`, `Transfer` |

### PushOutbox and PrintJobs

`PushOutbox` keeps `hr_push_deliveries` by column (`pushStatus`, `attempts`,
`due`, `result`, `aged`), `device` (registered tokens), `worker[p]` (the rows a
process listed, and the one it is at, as it was read before the claim) and `sent`,
which no program sees: how often the provider took the message for a device.

| Code | Actions |
|---|---|
| `notifyUser`, `registerPushToken`, `unregisterPushToken` | `Notify`, `DeviceChanges` |
| `HrPushService.dispatch`: its first statements | `Exhaust`, `ListDue`, `ClaimRow` (a conditional update), `NoMoreRows` |
| the user and devices of a claimed row | `UserInactive`, `Prepare` |
| the batches | `SendBatch`, `SendFails` (the provider may have taken it), `StoreBatch` |
| the receipts | `AllSent`, `Finish`, `ReceiptsFail` |
| the `catch` | `Caught` |
| time, a stopped process | `TimePasses`, `DayPasses`, `ProcessStops` |

A list of at most twenty rows is a list of all of them.

`PrintJobs` keeps `barcode_print_jobs` (`printStatus`, `claimant`, `claimAge`),
what each agent beside a printer is doing, the acknowledgements on their way, and
`printed`, how often the printer was given the label. `QueueLabel`, `Expire`,
`ClaimLabel` and `Acknowledge` are the server's; `CannotPrint`, `StartPrint`,
`RunPrinter`, `SendAck` the agent's loop (`barcode-print-worker.ps1`); `AgentStops`
stops it anywhere, in particular with the label in the printer.

### InventoryMirror and OracleMovements

`InventoryMirror` keeps `oracle_inventory_sync_runs` by run (`runStatus`,
`holdsRows`, `valid`, `young`), the pair of pointers readers follow (`active`,
`previous`), the run each publication looked at before its locks, and `staged`, the
copy from which a compaction starts.

| Code | Actions |
|---|---|
| `OracleInventorySyncService.run` | `CreateRun`, `Load`, `LoadFails` |
| `OracleInventoryPublicationService.publish` | `PublishRead` (the status, before the locks), `PublishCommit` (validates again under them), `PublishFails` |
| `rollbackToPrevious` | `Rollback` |
| `oracle-mirror-retention.cjs` | `Cleanup`; `Stage` and, possibly much later, `Compact` |

What a validation counts is a choice (`valid`). The run named by the last
heartbeat, which retention also keeps, and the guard that asks for more than fifty
expired runs are left out: the model expires more and more often. The reading
services follow the active run and change nothing.

`OracleMovements` follows the lines of *one* document of one customer; lines of
different documents never meet in the code. `oracleLines` are the snapshots, `live`
the rows of `imported_transactions` that are not reversed, by origin, `ledger` and
`batchOf` the publication ledger, `batchStatus` the batches. What a command has read,
and whether it holds the advisory lock (`does = "settle"`), is in `command`.

| Code | Actions |
|---|---|
| `OracleMovementSyncService.run` | `TakeSnapshot` |
| `initializeBaseline`, `configure` | `BaselineRead`, `BaselineCommit`; `Configure` |
| `publish` | `PublishReads` (the latest snapshot, before the lock); `PublishClassifies` (the lock, the switch again, and how the live rows compare with Oracle's lines); `PublishCommits` with `Settle`: candidates, a `Verdict` for each line, an `Override` where the document's sum differs |
| `rollback` | `RollbackRead`, `RollbackCommit` |
| `applyImport`, `reverse` of accounting files | `FileImport`, `FileReversed`, without the lock, also between `PublishClassifies` and `PublishCommits` |
| a dead process | `CommandFails` |

An unknown customer (`known`) stands for everything that quarantines a whole
document: its customer, its currency or its type; a line without an amount on exactly
one side (`Malformed`) is quarantined by itself, so a document may be booked in part.
When an import may be taken back is the subject of `Imports`; here it may at any
moment. Exception reviews, which write and reverse rows of the reason codes that
only old ledger rows still have (`oracle-exception-review.service.ts:180`), merges of
the customer, and documents whose lines differ in currency or type are not composed
with the publication. Grouping by document, duplicates of a line within a snapshot, the balances that
are recomputed and the inventory's movements are left out.

### CustomerMerges and Imports

`CustomerMerges` keeps for each customer whose balance row, records and credit
policy they are (`owner`, `amount`, `home`, `credit`), `mergedInto`, the `review` of
each pair of duplicates, and the active `merge` of a pair with what it saved.

| Code | Actions |
|---|---|
| `create` of customers and imports | `PairFound`, `BalanceChanges` |
| `reviewDuplicate` | `ReviewRead`, `ReviewCommit` (by id, whatever happened since) |
| `mergeDuplicate` | `Merge`: one serializable transaction |
| `reverseMerge` | `ReverseMerge`, until `GraceEnds` |

Aliases, more than one currency, and the closing of a source's assignment are left
out.

`Imports` keeps `import_jobs` (`jobStatus`, `doneAt`, `rollback`: the pictures
before and after), who wrote each `balance` (`last_import_job_id`), whether the row
is still the same one (`deleted`), and each `customer`.

| Code | Actions |
|---|---|
| `ImportsService.execute` | `ExecuteRead`, `CaptureBefore`, `StartRows`, `WriteRow` or `SkipRow` per row, `CaptureAfter`, `Complete`; each an autonomous statement; `ExecuteFails` |
| `reverse` | `ReverseRead` (its snapshot), `ReverseCommit` (fails if a row it writes was written since) |
| receipts, promises, tasks of a customer | `Activity` |
| a dead process | `WorkerDies` |

Files of balances are modelled; the other four profiles write other tables between
the same two pictures.

## The runs

All runs start from the empty phone and an empty database, but for what a part
finds there by nature: known customers and their balances, open tasks, debts, the
current assignment, lines imported before. Model values that are
interchangeable are declared symmetric, except where a temporal property forbids
it or the instance gives them different roles.

| Run | Instance | Question and answer |
|---|---|---|
| `collections_reversal` | 1 receipt, 2 requests, 2 people, 1 voucher, 2 handlers, failures anywhere; 900,682 states | Do the ledger, the four-eyes rule, the voucher, the cash rows and the audit trail survive every race of two handlers, and does no receipt skip a stage? Yes; and the desk implements `DualControl`. |
| `promises_settlement` | 2 promises, 1 handler, any selection; one customer, with a receipt, its contradicting correction and a local receipt; or 2 customers, merged and taken apart, with a local receipt and no edits; or reminders and assignments, with no settlement; 80,650 states | Does the planner stay within the receipts and the promises where no merge has divided them, and never guess? Yes. Does the reminder go out once a day, whatever stops? Yes. |
| `promises_desk` | 1 promise, 2 handlers, three days, edits, decisions, sweeps, settlements, task work; 460,342 states | Does a settled promise leave work behind? No. Is a missed date ever dropped, or replaced by anything but a sweep that escalates an open promise? No. Does a sweep overrule a decision? No. |
| `requests` | the phone with its server (1 transfer, both loops, 1 fault); or the server alone (a key of each of four kinds, 2 bodies, 2 calls, 2 effects); or 3 tasks of 2 currencies, 2 reviews, 2 appliers, 1 receipt; or 2 attempts of one author, 2 requests, 2 processes; 1.0 million states | Is an operation lost, or called synced before the server submitted it? No. Do all who are told "done" hear of one entity; is a key kept with what it guards applied once? Yes. Does applying a review close anything but what was reviewed, or twice? No. Does an attempt become one follow-up or none? Yes. |
| `queues_end` | the phone (1 transfer and 1 reservation, foreground loop, 1 fault); or 1 notification, 2 devices, 1 process, 2 attempts, 1 crash; or 2 labels, 2 agents; 238,000 states | Is a reservation made once; is a message sent no more often than it was claimed, and never again where its acceptance is stored; is a label printed once? Yes. Does what waits on the phone, and every notification, come to an end? Yes, under the fairness below. |
| `oracle_drafts` | 1 transfer, 2 quotations of 2 contents, 2 people, 2 handlers, 2 calls, numbers to 2; 157,221 states | Does an approved transfer bear the number of its own draft, and keep it, however approvals overlap, time out and are retried; is a marked reference drafted once; does a lock survive its transaction? Yes, yes, and no lock does. |
| `records` | 3 runs of the mirror, 2 kept; or 1 document of 3 lines, 2 snapshots, 2 batches, 2 commands, files that bring the lines; or 3 customers, 1 booking; or 2 files that overlap, 2 workers, 3 executions or reversals; 2.3 million states | Does retention ever retire what readers follow or a rollback restores? No. Is a line on a statement twice but by a file's row that came unseen, or published though it was settled otherwise? No. Does every merged customer have the one merge that brings it back, and are no records left with it? Yes. Does a reversal overwrite what was written after its import? No. |
| `collections_reversed_is_final` | as `collections_reversal` | Does a reversed receipt stay reversed? No. |
| `promises_fulfilled` | 1 promise, 2 handlers | Does a fulfilled promise stay fulfilled? No. |
| `queue_posted_once` | 1 promise, foreground loop, 1 fault | Is a promise made without a connection made once? No. |
| `queue_correction` | 1 transfer, foreground loop, no fault | Is a corrected transfer what is sent? No. |
| `merges_worth` | as the merges of `records` | Does a merge taken back keep what was booked meanwhile? No. |

**Bounds.** Two handlers are enough for the races of the code: each handler reads
once and commits once, and no guard counts handlers. (What a third could add, it
can do before the first reads or after the second commits; that the number of
handlers makes no difference to any safety property is proved, but for reminders
and the outbox, see [below](#the-proofs).) One receipt suffices for the reversal, which never relates two; that
more receipts and vouchers change nothing is proved. Two promises are what `OnlyCandidate` needs
to tell "one" from "several". Amounts 1, 2 and 3 tell full, partial and excess payment
apart. Two customers are a merge and its undoing; the local receipt of 3 is more
than a promise of 2, so that a remainder is left for the other customer's promise
when the two are taken apart. The parts of `promises_settlement` keep apart what
makes it large: a behaviour has receipts that are corrected and edits of promises,
or merges, or reminders (which read and write nothing a settlement does but statuses
and due dates, and those the edits change too). `TicksPerDay = 1` makes the two precisions of a receipt's time (day,
timestamp) differ only at the day boundary. Three days (`MaxTime = 2`) let a handler that read yesterday write over what
another did meanwhile, and a promise break twice. `MaxTasks` admits the due task
and an escalation of each promise; `MaxChanges` is the code's own limit
(`PROMISE_SETTLEMENT_MAX_CHANGES`), small here. `MaxLog`, `MaxRow`, `MaxFaults`
bound effects, rows and faults: one fault is enough to lose any one answer or to
stop the phone or the server at any one step. `MaxNo` bounds document numbers: the
second number of a table is where two calls could collide.

Three tasks are one of each currency among the overdue ones and one not overdue;
two reviews are needed for one to be applied while another of the same tasks waits;
`MaxEntries` and `MaxEdits` let the ledger and each task change once behind a
review's back. Two attempts of one author are what the one-waiting rule compares;
two registrars and two processors what the locks separate. `SendLimit` is 8 in the
code and 2 here, where the second attempt is the last; one crash (`MaxStops`) may
fall anywhere between claim, answer and row. Three runs with two kept (`MaxRuns`,
`Keep`) are the fewest with one that expires while two pointers stand. Three lines
worth 1, 1 and 2 give documents whose sums agree though their lines differ; two
snapshots, batches and commands allow an edit, its override and a rollback at once;
one of the lines is malformed, and a file brings one line or the other two (`Chunks`).
Three customers are the shortest chain of merges; one booking (`MaxBookings`) of
worth one (`MaxAmount`) is all a lost booking needs. Two files that share a code,
two workers and three executions or reversals (`MaxExecutions`) let a second import
and a reversal fall between any two rows of the first.

Where names make no difference, one of the possible assignments is taken: model
values are declared symmetric where no liveness is checked; customers are sorted by
what they start with (`Sorted`); a request goes to the first worker, transaction or
review at rest. `CHECK_DEADLOCK FALSE` appears in the runs of the phone (`requests`,
`queues_end`, `queue_posted_once`, `queue_correction`) and of `records` and
`merges_worth`: when everything is sent, printed, imported or used up, those parts
do rest.

For every safety property of the passing runs, independence of these bounds is
proved; only the two liveness properties rest on them.

**Fairness.** Only `queues_end` assumes any. The phone's foreground loop is weakly
fair because `sync-context.tsx` starts it from an interval, from each return to the
foreground and from each regained connection; a row's `nextRetryAt` passes because
it is a time; the screens' continuations and the server's steps run because nothing
in them waits for anything. The dispatch of the outbox is weakly fair because
`onModuleInit` starts it every five seconds and it never overlaps itself; its delays
(`TimePasses`) and the day after which a receipt is given up (`DayPasses`) pass
because they are times. Faults and crashes are bounded in number, not in place.
Nothing is assumed of the user, of the background task (the operating system
decides whether it runs), of the print agents or of faults.

## What disagrees

Five sentences of the repository are denied by its interleavings; each has a run
whose only property is that sentence and whose counterexample is the behaviour
described.

* *Reversed is final* (`collections.service.ts:468`, "never deleted, never
  edited"). `matchHandoverVoucher` reads the receipts' statuses and then sets each
  to `matched` by id (`:741`). `MatchTx`, `ApproveCommit`, `MatchCommit`: a
  reversed receipt is matched and later approved. Money is not moved twice
  (`LedgerSound` holds); the status contradicts the ledger.
* *Final statuses accept no transition* (`promises.service.ts:33`).
  `UpdateRead`, `SettleTick`, `UpdateCommit` (`:249`, by id alone): a fulfilled
  promise is open again.
* *Created without a connection, without repetition* (`PROJECT_WORK_LOG.md:45`).
  `new-promise.tsx:63` posts without a key and makes a key only for the queue:
  `TryOnline`, the handler commits, `OnlineLost`, `Enqueue`, the loop posts it
  again.
* *A key is refused for a different request* (`inventory-transfers.service.ts:106`).
  A transfer blocked by its dry run, corrected and sent under its old key is
  answered by the interceptor with the stored first row; the first version is
  submitted.
* *A merge is not undone over a changed balance* (`customers.service.ts:2112`).
  The check compares the rows the merge changed; the undoing writes back every
  balance the master had (`:2155`). `Merge` of a customer without a balance,
  `BalanceChanges` of the master, `ReverseMerge`: the change is lost
  (`MergesKeepWorth`).

Reading the code for the model turned up further behaviours of the same kind.
They follow from the actions of the modules, or from the lines named, and have no
run of their own:

* A rejection is an update by id (`collections.service.ts:598`): `ReviewRead`
  twice, `ApproveCommit`, `RejectCommit` leaves a request rejected whose reversal
  was executed. `ReversalTakesTwo` is stated so that it says what remains true:
  the field `executed` remembers.
* The period is checked before the transaction (`:159`): `CreateRead`,
  `LockPeriod`, `CreateCommit` records a receipt in a locked month.
* A promise is made under an assignment that was read before its transaction
  (`promises.service.ts:120`).
* A settlement moves `unfulfilled` to `fulfilled`
  (`promise-settlement-plan.ts:49`), which the backend's README calls final
  (`backend/README.md:153`). A stale edit that reopens a promise with allocations
  makes the unique key refuse later settlements that would give it the same
  receipt.
* A merge taken back may stop all settlement. Customer `m` is merged into `c`, a
  local receipt of `m` pays a promise of `c` in part of the receipt, and the merge is
  undone (`customers.service.ts:2137`): the receipt is `m`'s again, its allocation
  stays `c`'s. The planner gives the remainder to a promise of `m`, the trigger refuses
  it ("Receipt identity has conflicting customer, currency or date",
  `migration.sql:54`), and as one refused row rolls everything back
  (`promise-settlement.service.ts:70`), no promise of the organization is settled by
  the tick from then on. TLC finds it when `Undivided` is dropped from
  `PlanWithinCapacity`. While merged, a customer with promises settled before the
  merge has his group left for review, since those allocations are not his.
* Two reminder runs at once (the scheduler and the endpoint,
  `promise-reminder.scheduler.ts:101`) may remind twice: `RemindCheck` in both,
  then `RemindWrite` in both. `OneReminderADay` is checked for one run at a time,
  with restarts, and `RemindedOnce` is proved under just that condition.
* The date a promise first broke is written from the sweep's list
  (`promises.service.ts:421`, `missedDueDate ?? dueDate` of the row as it was read).
  An edit that postpones the promise and was read before midnight, and a settlement
  that then records the new date as missed, come between list and update:
  `UpdateRead`, `Tick`, `SweepRead`, `UpdateCommit`, `SettleTick`, `SweepOne` leave an
  older date in place of the one recorded. `MissedIsKept` says what remains true: a missed date is never
  dropped, and only a sweep that escalates an open promise replaces it, with the
  date of its list.
* Behind the interceptor alone, two overlapping calls with one key both run
  (`idempotency.interceptor.ts:32`); both answer with the first stored entity,
  which is `AnswersAgree`, but two entities exist.
* A request recorded as pending on the phone has no queue row until the next
  statement (`offline-request.ts:49`), and the loops overtake each other, so
  operations need not arrive in the order they were made
  (`sync-operations.ts:115`).
* The updates of a transfer are by id. A rejection during the call to Oracle is
  overwritten by the approval (`inventory-transfers.service.ts:209`), and one
  that read before the approval overwrites it (`:236`): the transfer is rejected
  and its draft stays in Oracle. `ApprovedHasDraft` therefore speaks of the
  number as well as of the status.
* Reviews of pairs are updates by id (`customers.service.ts:1812`): a pair merged
  between `ReviewRead` and `ReviewCommit` is marked separate though its merge is
  active.
* An import's status is checked and then set (`imports.service.ts:388`, `:413`): two
  requests may execute one file at once. A reversal asks for the latest completed
  import (`:1370`) and not whether one is running, so balances may go on naming an
  import that was reversed. An automatic publication writes a completed import job
  without pictures, which is then the latest and blocks the reversal of the file
  before it. Imports keep arriving under the code of a merged customer.
* Two overlapping publications of one run of the mirror leave `active = previous`,
  and a publication that comes late moves readers back to an older run
  (`oracle-inventory-publication.service.ts:74`). The daily cleanup deletes rows that
  the trigger of `20260815090000_add_oracle_inventory_mirror` (`:537`) declares
  immutable, so it fails whenever an expired run has rows (`Cleanup`); a run that
  loads between `Stage` and `Compact` loses its rows.
* A file's row is known by the hash of the file's own line
  (`backend/src/imports/imports.service.ts:606`; the unique index is on that hash), a
  published row by `oracle-auto:<fingerprint>`: nothing relates them. A line that is
  published, or approved by hand, and then comes in an accounting file is on the
  customer's statement twice (`FileImport`), until an edit of the document in Oracle
  overrides all its rows; so is one whose file arrives while a publication that found
  the document empty is at work. `DoubledOnlyByFile` says that this is the only way.
* An override reverses every live row of the document and books only the candidates
  (`oracle-movement-auto-publication.service.ts:567`; its test expects it): lines
  settled before are then on no statement, and a rollback does not bring back the
  rows an override reversed. A line edited and edited back keeps the row of the edit.
  A publication that waits for the lock publishes the snapshot it read before, older
  by now.
* Two server processes that both listed a delivery may each send it once more after
  the other's claim has run out: `AcceptedNotResent` is checked and proved for one
  process, with crashes. A crash on the last attempt after a stored batch leaves the
  delivery failed though a device accepted it (`hr-push.service.ts:28`).
* The service that closes settled tasks (`settled-financial-tasks.service.ts`) has no
  caller but its test. Its advisory lock is taken once the snapshot is, so the second
  of two applications does not see the first but fails by conflict.
* What a receipt does to the tasks is planned before Oracle is called
  (`oracle-test-requests.service.ts:168`) and takes no notice of receipts drafted
  meanwhile. A completion closes its task before the promise it asks for is created,
  which may still fail (`tasks.service.ts:1268`).
* A follow-up written by hand that commits between the reads and the commit of
  `ContactAttemptService.process` does not stop the automatic one; both exist.
* A transfer's reference says nothing of its content
  (`ias20261-transfer-writer.js:170`). That an approved transfer's draft has its
  content holds because the transfer is never edited.

## The proofs

`CollectionsProofs` proves, for any sets of people, receipts, holders, periods,
requests, vouchers and handlers, what TLC finds for one receipt and two handlers.
The only assumption used is `NoneAssumption` (SQL `NULL` is nobody and nothing),
which the runs evaluate.

The inductive invariant `DeskInvariant` is the conjunction of `TypeOK`,
`Referenced`, `LedgerSound`, `ReversalTakesTwo`, `OnePendingRequest` and
`DeskInv`. `Referenced` says that what a row or a handler points at exists: it is
what makes the fields a commit reads well typed, and it is not visible in any
single property. `DeskInv` strengthens `VoucherMatchesItems` and
`CashBehindStatus` by `MatchHoldsRow`: while a handler is between the two halves
of a match, its voucher is still `submitted` and no other handler is matching
it, because the row is locked. Without it `MatchCommit`, which overwrites
unconditionally, could not be shown to keep either. Each conjunct has a lemma
that one step of the desk keeps it, with a case for each action that can disturb it and a frame lemma for the rest.

| Theorem | Says |
|---|---|
| `DeskInvariance` | `Spec => []DeskInvariant` |
| `TypeCorrect`, `LedgerIsSound`, `ReversalIsDual`, `RequestsWaitAlone`, `DeskIsConsistent`, `CashIsBehind` | the checked invariants `TypeOK`, `LedgerSound`, `ReversalTakesTwo`, `OnePendingRequest`, `VoucherMatchesItems`, `CashBehindStatus` |
| `AuditTells` | `Spec => []AuditTruthful`; a second invariant, `Claims`, adds to the rows written those that handlers are about to write, and the action `Lasting` says that nothing a row could have said is undone |
| `StatusAdvances` | `Spec => StatusMovesForward`, an action property |
| `DeskRefinesDualControl` | `Spec => ImplementsDualControl`: initial states map to initial states, each step to `Record`, `Ask`, `Cancel` or a stutter |

`IdempotencyProofs` proves, for any keys, bodies, calls and bound on the effects,
what `requests` finds for one key of each kind. It assumes `KindAssumption`
(each end point guards itself in one of the ways the code has) and
`LogAssumption` (the bound is a number), both evaluated by the runs. The inductive
invariant `KeyInvariance` establishes, `KeyInvariant`, has three parts: `TypeOK`;
`CallOK` of each call (an answer "done" names the entity kept for its key, and for
a reservation the kept effect asked for the very same body); and `Kept` (the
entity kept for a reservation key is the only effect made under it, and there is
none while nothing is kept). `AnswersAgree` alone is not inductive: that an answer
given earlier stays right rests on keys and effects only ever growing (`Grows`),
and that a retry is answered rightly rests on `Kept`.

| Theorem | Says |
|---|---|
| `KeyInvariance` | `Spec => []KeyInvariant` |
| `TypeCorrect` | `Spec => []TypeOK` |
| `AnswersAgreeAlways` | `Spec => []AnswersAgree` |
| `KeysImplementOnce` | `Spec => ImplementsOnce`: every step is one call's and changes the effects of one key at most (`StepIsOneCall`), so it is `Apply`, `Tell`, both at once, or a stutter of `ExactlyOnce` |

`DraftGatewayProofs` proves, for any references, contents, tables, jobs and bound
on the numbers, that the exclusive lock, the lookup and the number are enough. It
assumes `GatewayAssumption` (marked references are references, each has a table)
and `NoneAssumption`. `GatewayInvariant` joins `GatewayTypeOK`, `LockHeld`,
`NumbersDiffer` and `OneEach` (one draft per reference) with `JobOK` of each job:
in its transaction it holds its table; the number it has taken is above all of
that table, and its reference still has no draft; what it has answered is a draft
of its reference. The frame lemma `OthersKeep` carries the argument: a step
changes locks of its own and tables it holds, so what another job knows of its
table stays true.

`TransfersProofs` composes that invariant with the transfers'. Beyond
`TransfersAssumption` it assumes nothing. `TransfersInvariant` adds `Carried`
(only submitted transfers are asked for or drafted, with their own content),
`OpOK` of what each handler has read (its transfer has not gone back, the call it
waits for is its own, the number it is about to write is a draft's) and `Sole`
(no two handlers wait for one call). `ApprovedHasDraft` is not inductive without
`OpOK`, and `NumberKept` needs `OneEach` besides: the second approval writes the
number the first one wrote.

| Theorem | Says |
|---|---|
| `GatewayInvariance`, `NumbersDifferAlways`, `LockHeldAlways` | `GatewaySpec => []` of `GatewayInvariant`, `NumbersDiffer`, `LockHeld` |
| `MarkedImplementsOnce` | `GatewaySpec => ImplementsOnce`: a step is one job's (`StepIsOneJob`) and drafts one new reference or none |
| `TransfersInvariance`, `TransfersTypeCorrect`, `ApprovedHasDraftAlways`, `NothingUnaskedAlways` | `Spec => []` of `TransfersInvariant`, `TypeOK`, `ApprovedHasDraft`, `NothingUnasked` |
| `NumberKeptAlways` | `Spec => NumberKept`, an action property |
| `TransfersImplementOnce` | `Spec => ImplementsOnce`, because every step of `Transfers` is one of `GatewaySpec` or a stutter of it |

`PromisesProofs` proves what the planner guarantees for any receipts, promises and
selection, and what the handlers of `Promises` leave true for any number of them.
It assumes `ChoicesAssumption` (amounts are positive, as `create-promise.dto.ts`
demands; dates lie within the clock's bound), `RowsAssumption` (what a receipt row
consists of, and that its amount is positive) and `TicksAssumption`. Nothing is
assumed of what a key says of a customer: `PlansFit` excepts the divided receipts and
promises instead, and shows that for all others the allocations the planner does not
read do not matter (`UndividedIsLoaded`).

*The planner* is a fold over the usable receipts, in an order that its choice
function computes, and its capacities are sums. The provers instantiate no
induction principle, so the argument is by least counterexamples: `LeastNumber`
follows from the well-foundedness of `<`, `SmallestSet` says that among finite sets
there is one with no other inside it. By it `FoldExists` shows that a fold
satisfies its own equation, `SumTakes`, `SumAdds` and `SumGrows` what a sum over a
finite set does when the set does, `PlannerIs` that the plan is that fold, and
`PlanIsSound` that each receipt the fold adds keeps four things: what is planned
is within the receipt, within what its promise still expects, of the promise's
customer and currency, and for the only candidate.

*The invariant* `PromisesInv` joins `FinalLeavesNoWork` with `Tables` (the tables
are well typed, an existing promise has its terms and a due date, a merge may move back
only promises that are there, `Movable`) and `Handling` (what a handler is about to write to exists). What
makes `FinalLeavesNoWork` inductive though handlers overwrite statuses by id is in
the code, not in the invariant: each handler that ends a promise closes its tasks
in the same transaction (`Rewritten` says what that does to the list), and a task is
opened only beside the status that allows it.

*One reminder a day* needs a condition: two overlapping runs may both find the
reminder missing. `RemindedOnce` therefore assumes `[]OneRun` of the behaviour, that
no two runs of reminders overlap; other handlers may be as many as they like, and a
run may stop and be started again anywhere.

| Theorem | Says |
|---|---|
| `PromisesInvariance`, `NoWorkLeft` | `Spec => []` of `PromisesInv`, `FinalLeavesNoWork` |
| `PlansFit` | `Spec => []PlanWithinCapacity` |
| `AttributedUniquely`, `MissedStays`, `SweepsSpareTheFinal` | `Spec =>` the action properties `AttributionIsUnique`, `MissedIsKept`, `SweepSpares` |
| `RemindedOnce` | `Spec /\ []OneRun => []OneReminderADay` |

`QueuesProofs` is about the three queues.

* *The print queue.* `PrintInv` ties the printer to the row by way of the agent:
  whoever is at work on a label bears its claim, and nothing was acknowledged of it
  yet (`HolderClaimed`); what an agent is about to say, and what is on its way,
  agrees with the printer (`HolderKnows`, `AcksKnow`); nobody has spoken of a label
  that waits (`WaitingUntouched`).
* *The push outbox.* `OutboxInv` counts: for a device, what was sent and what
  processes that have claimed the delivery may yet send is within the attempts
  counted (`Counts`), for any finite number of processes. That the attempts stay
  within the limit needs one process, because a second one may still hold a row it
  listed before the last attempt was counted; so does that an acceptance stored is
  not sent again. Under `OneProcess`, a statement about the constant `Processes`,
  `SoleInv` says that what the process remembers of its rows is what is stored.
  Assumes `OutboxAssumption` (a positive limit, finitely many processes).
* *The phone.* `QueueInv` has a half of the server, `ServerInv`: `KeyInvariant` of
  the interceptor and `Entities`, that what a call is told, or a key keeps, was done
  under that key. The half of the phone, `PhoneInv`, says that a loop is past a step
  of an operation only if the server did it, and that its call asks for just that
  step (`LoopOK`); that no two workers wait for one call (`Apart`); and
  `SyncedIsExecuted`. Edits, discards, the other loop and the death of the
  application disturb none of it, since no step of the phone takes back an effect of
  the server. Assumes `OpsAssumption` (which end point each kind of operation uses;
  the kinds are disjoint) beside the assumptions of `Idempotency`.

| Theorem | Says |
|---|---|
| `PrintInvariance`, `LabelsPrintedOnce` | `PrintSpec => []` of `PrintInv`, `PrintedOnce` |
| `OutboxInvariance`, `SentWithinClaims` | `OutboxSpec => []` of `OutboxInv`, and of the first half of `SendsBounded`: no more sent than claimed |
| `SoleInvariance`, `SendsBoundedAlone` | if `OneProcess`, `OutboxSpec => []` of `SoleInv`, `SendsBounded` |
| `AcceptedStays` | if `OneProcess`, `OutboxSpec => AcceptedNotResent`, an action property |
| `QueueInvariance`, `SyncedWasExecuted`, `ReservedOnce` | `QueueSpec => []` of `QueueInv`, `SyncedIsExecuted`, `BookedOnce` |
| `QueueLosesNothing` | `QueueSpec => NothingLost`, an action property |

`RecordsProofs` is about what comes from Oracle and from files.

* *The inventory mirror.* That a pointer's run is published is *not* invariant (a
  second publication of it may find its rows gone); that it was started and is not
  retired is (`PointersKept`). A compaction needs in addition that no staged copy
  keeps what it will retire (`StageConsistent`). Assumes `MirrorAssumption`.
* *The movements.* A live row of the service is of a published line
  (`AutoIsPublished`), whoever publishes has a snapshot (`SnapshotFirst`), the
  advisory lock has one holder (`OneHolder`), and where that one found no row of the
  document, only rows of files have appeared since (`BehindOnlyFiles`): what the lock
  is for. That a publication adds its lines to a document it saw empty, or replaces
  what it saw, follows from its verdict (`UnseenIsFile`). Assumes
  `MovementsAssumption`.
* *The merges.* `MergesInv`: a merge that stands is of its own pair (`OfItsPair`); a
  customer is merged where the one merge it is the source of says (`MergedBy`); and
  no pair under review, nor one that taking a merge back would reopen, has a merge
  (`PendingApart`). The last is what keeps a merge from being made of a pair twice.
  No sum over customers is needed. Assumes `MergesAssumption`.
* *The imports.* `ImportsInv` says that what a request remembers, and what a
  completed import keeps, are pictures of the past (`Since`, `Before`): a balance
  that was there vanishes only with its row, and the count of deleted rows tells.
  A reversal that passed its check has read the balances its import left
  (`Agrees`), and commits only if none was written since. Assumes
  `ImportsAssumption`.

`TasksProofs`. `SettledInv`: what an applying transaction has seen is what was
reviewed, open and all (`SeenAsReviewed`), and what a review closed does not open
again (`AuditedIsDone`); with the comparison at the commit, two applications cannot
both close one task. `ContactInv`: a registration is of an attempt not yet there,
the registrations of one author exclude each other (`OneRegistration`), and a process
is alone with an attempt that still waits (`ProcessingOK`). Assume
`SettledAssumption` and `ContactAssumption`.

| Theorem | Says |
|---|---|
| `MirrorInvariance`, `PointersNeverRetired` | `MirrorSpec => []` of `MirrorInv`, `PointersNotRetired` |
| `MovementsInvariance` | `MovementsSpec => []MovementsInv` |
| `OnlyFilesDouble`, `BlockedNeverPublished` | `MovementsSpec =>` `DoubledOnlyByFile`, `BlockedStaysOut`, action properties |
| `MergesInvariance`, `MergedOnce`, `RecordsStayInSight` | `MergesSpec => []` of `MergesInv`, `MergedByOneMerge`, `RecordsInSight` |
| `ImportsInvariance` | `ImportsSpec => []ImportsInv` |
| `ReversalTakesOnlyOwn` | `ImportsSpec => ReversalSparesOthers`, an action property |
| `SettledInvariance` | `SettledSpec => []SettledInv` |
| `ReviewedIsClosed` | `SettledSpec => ClosesWhatWasReviewed`, an action property |
| `ContactInvariance`, `AttemptsAnsweredOnce` | `ContactSpec => []` of `ContactInv`, `AttemptAnsweredOnce` |

**Only model-checked.** `QueueDrains` and `DeliveriesEnd`, which are liveness under
fairness: the provers used here (SMT, Zenon, LS4) do not decide `ENABLED`. The five
sentences that are [denied](#what-disagrees) are refuted by TLC's counterexamples.
Every other property of the runs is stated by a theorem; the two of the outbox, and
the reminders', under the conditions named above.

## What is not modelled

Within the modelled parts:

* *Settlement* (`promise-settlement.service.ts`) runs in a Serializable
  transaction under an advisory lock. Both are taken at their word: the plan and
  its writes are one step, and a serialization failure changes nothing.
* *A merge, seen from the promises,* moves tasks with their promise. In the code a task
  made between merge and undoing stays with the target though its promise goes back;
  the model lets it follow, which matters only to whose visit ticks it off
  (`CloseDue`). Reviews of pairs, and what else a merge moves, are in `CustomerMerges`.
* *What a settlement records* for display only (its date, how late it was) is left
  out, since no decision reads it.
* *Oracle's rows* appear and disappear in `rows` in any order that the mirror's
  publication allows; the mirror itself is a part of its own, below.
* *The phone's* GPS and attendance queues are separate tables with the same
  shape and weaker promises. An online screen that hears 5xx shows the error and
  queues nothing: to the model, the operation was never made.
* *The phone's owner.* The model is the phone of one signed-in user. When another
  user signs in, `ensureDataOwner` (`mobile/src/db/database.ts:1072`) deletes the
  business tables, `mutation_queue` and `offline_requests`, waiting rows included,
  and a loop that had read a row before sends it with the new session. Neither is
  modelled, and `NothingLost` says nothing of it.
* *The server's answers* are `ok`, `refused` (4xx) and `failed` (5xx or none);
  that is all the phone and the interceptor tell apart.

* *Transfers'* dry run is an outcome, its stored evidence is not kept; linking to
  the final document and reading its progress stand in the plan. *The test request
  screens* are a caller of `DraftGateway` like any other (`Screen`).

Of the parts in [the table above](#the-system), these have no module, though they
keep state worth one:

* *Sessions*: the rotation of refresh tokens and the limit of sessions
  (`auth.service.ts:33`).
* *HR beyond the outbox*: requests decided by version, payroll months, attendance.
* *Assignments beyond what promises, tasks and attempts see of them*: two transfers
  of one customer (`assignments.service.ts:160`), requests for a change, and an
  editor that writes back the end it read before its transaction
  (`customers.service.ts:1143`, `:1211`).
* *Reservations after their creation*, and the catalogue.
* *The linking of transfers* to Oracle's final document, and `refresh`.
* *The daily list of tasks*, apart from the reasons it merges.
* *Analytical accounts, the customers mirror, the review of exceptions*: each has an
  advisory lock or a single transaction, like the parts that are modelled.
* *The phone's GPS and attendance queues.*

These need none: master data, dashboards, reports, search, settings and the
web client keep no state of their own beyond one row at a time; risk and aging are
recomputations; deployment scripts and the Oracle read API change nothing the
program decides upon. `PROJECT.json` gives the reason for each.

The larger part of the repository is screens, forms, queries, exports and parsing.
They take no part in any protocol, and a model of them would repeat them.

## The plan

Done, in this order, each with proofs of its safety: (1) the receipts desk and
its abstract specification; (2) promises and settlement; (3) idempotency, its
abstract specification, and the phone's queue over it; (4) Oracle drafts and the
transfers that drive them; (5) the inventory mirror and its retention; (6) the
movements and their publication; (7) imports and merges; (8) the push outbox and
the print queue; (9) reviewed closing of tasks and contact attempts; (10) the
audit trail's truth.

To come, the most consequential first:

11. **Linking.** Further actions of `Transfers`: link, refresh, and the evidence of
    the dry run. Hazards: one document linked to two transfers
    (`inventory-transfers.service.ts:271`), a stale number written back (`:375`).
12. **Assignments** with the promises', tasks' and attempts' owners that follow
    them: one current assignment per customer.
13. **Reservations.** Status changes with available quantity taken from the active
    run of `InventoryMirror`.
14. **Balances.** The balance as a sum over the published movements, compared with
    what publications and imports write; the review of exceptions.
15. **Sessions.** Rotation, the limit, password change.
16. **HR.** Decisions by version, payroll months.
17. **Daily lists** of tasks, as further actions of `Promises`.

Proofs to come go with these: each part brings its invariant, which its run checks
first. For what is modelled now, two are open: that the phone's queue implements an
abstract one in which an operation is made, done and forgotten; and a condition
weaker than one process under which `AcceptedNotResent` holds, namely that claims
never run out under a process at work.
