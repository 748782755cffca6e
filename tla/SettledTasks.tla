---------------------------- MODULE SettledTasks ----------------------------
(***************************************************************************)
(* Who closes the financial tasks of a customer.  Overdue tasks of one who *)
(* owes nothing any more are closed after a review: a plan is previewed,   *)
(* read by somebody, and applied as it was or not at all.  Meanwhile       *)
(* receipts sent to Oracle close tasks and schedule what remains, and      *)
(* collectors complete them.                                               *)
(*                                                                         *)
(* A review is of one customer.  The currency and the due date of a task   *)
(* are fixed; its reasons and its collector are its "edits".  A debt is    *)
(* none, one too small to be followed up, or one that is.                  *)
(***************************************************************************)
EXTENDS Naturals

CONSTANTS FinanceTasks, Currencies, CurrencyOf,
          Overdue,    \* tasks due before the date of the reviews
          Reviews,    \* previews that somebody kept
          Appliers,   \* transactions that apply one, at the same time
          Desks,      \* requests for receipts, at the same time
          MaxEntries, \* bound on the changes of the ledger
          MaxEdits    \* bound on the changes of a task

ASSUME SettledAssumption ==
    CurrencyOf \in [FinanceTasks -> Currencies] /\ Overdue \subseteq FinanceTasks

VARIABLES taskStatus, \* tasks.status, "absent" before it is created
          taskEdits,  \* how often the task was written since
          debt,       \* what the balance and the ledger make, by currency
          entries,    \* what the ledger's fingerprint stands for
          plan,       \* the reviewed plans, NoPlan before the preview
          applying,   \* what each transaction has seen
          audited,    \* audit rows, by plan and task
          desk        \* what each receipt is about to do

settledVars == <<taskStatus, taskEdits, debt, entries, plan, applying, audited, desk>>

Small == 1
Actionable == 2
NoPlan == [selection |-> {}, edits |-> <<>>, entries |-> 0]
NotApplying == [of |-> "none"]
AtRest == [phase |-> "rest"]

SettledInit ==
    /\ taskStatus \in [FinanceTasks -> {"absent", "open"}]
    /\ \A t \in FinanceTasks : taskStatus[t] = "open" <=> t \in Overdue
    /\ taskEdits = [t \in FinanceTasks |-> 0]
    /\ debt \in [Currencies -> 0 .. Actionable] /\ entries = 0
    /\ plan = [r \in Reviews |-> NoPlan]
    /\ applying = [x \in Appliers |-> NotApplying]
    /\ audited = [r \in Reviews |-> [t \in FinanceTasks |-> 0]]
    /\ desk = [d \in Desks |-> AtRest]

-----------------------------------------------------------------------------
(* The review.                                                             *)

\* Even a small debt keeps the customer's tasks open.
Closable(selection) ==
    {t \in selection \cap Overdue : taskStatus[t] = "open" /\ \A c \in Currencies : debt[c] = 0}

\* What the hash of a plan stands for.  Without a candidate it bears no balance.
PlanOf(selection) ==
    [selection |-> selection,
     edits |-> [t \in Closable(selection) |-> taskEdits[t]],
     entries |-> IF Closable(selection) = {} THEN 0 ELSE entries]

Candidates(r) == DOMAIN plan[r].edits

Preview(r, selection) ==
    /\ plan[r] = NoPlan
    /\ plan' = [plan EXCEPT ![r] = PlanOf(selection)]
    /\ UNCHANGED <<taskStatus, taskEdits, debt, entries, applying, audited, desk>>

\* The rows of a plan with this hash, and the tasks as they are now.
AlreadyApplied(r) ==
    \A t \in Candidates(r) :
        taskStatus[t] = "done" /\ \E q \in Reviews : plan[q] = plan[r] /\ audited[q][t] > 0

\* The transaction reads its snapshot, before or while it waits for the lock.
ApplyBegin(x, r) ==
    /\ applying[x] = NotApplying /\ Candidates(r) # {}
    /\ ~ AlreadyApplied(r)
    /\ PlanOf(plan[r].selection) = plan[r]   \* otherwise the review is out of date
    /\ applying' = [applying EXCEPT ![x] =
                       [of |-> r, seen |-> [t \in Candidates(r) |-> <<taskStatus[t], taskEdits[t]>>]]]
    /\ UNCHANGED <<taskStatus, taskEdits, debt, entries, plan, audited, desk>>

\* Mutant of SameTasks: the rows are written whatever became of them.
AnyTasks(x) == TRUE

\* A serializable transaction fails on a row written since its snapshot.
SameTasks(x) ==
    \A t \in Candidates(applying[x].of) : applying[x].seen[t] = <<taskStatus[t], taskEdits[t]>>

ApplyCommit(x) ==
    /\ applying[x] # NotApplying /\ SameTasks(x)
    /\ LET r == applying[x].of IN
         /\ taskStatus' = [t \in FinanceTasks |-> IF t \in Candidates(r) THEN "done" ELSE taskStatus[t]]
         /\ taskEdits' = [t \in FinanceTasks |-> IF t \in Candidates(r) THEN taskEdits[t] + 1 ELSE taskEdits[t]]
         /\ audited' = [audited EXCEPT ![r] =
                [t \in FinanceTasks |-> IF t \in Candidates(r) THEN audited[r][t] + 1 ELSE audited[r][t]]]
    /\ applying' = [applying EXCEPT ![x] = NotApplying]
    /\ UNCHANGED <<debt, entries, plan, desk>>

\* It conflicts, times out, or the process stops.
ApplyFails(x) ==
    /\ applying[x] # NotApplying
    /\ applying' = [applying EXCEPT ![x] = NotApplying]
    /\ UNCHANGED <<taskStatus, taskEdits, debt, entries, plan, audited, desk>>

-----------------------------------------------------------------------------
(* Receipts sent to Oracle.                                                *)

\* What will remain is computed before Oracle is asked.
ReceiptPlan(d, c, left) ==
    /\ desk[d] = AtRest /\ left <= debt[c]
    /\ desk' = [desk EXCEPT ![d] =
          [phase |-> "sent", currency |-> c, partial |-> left = Actionable,
           full |-> left # Actionable /\ \A k \in Currencies \ {c} : debt[k] # Actionable]]
    /\ UNCHANGED <<taskStatus, taskEdits, debt, entries, plan, applying, audited>>

\* Oracle refuses, or its document cannot be read back: to be sent again.
ReceiptFails(d) ==
    /\ desk[d] # AtRest
    /\ desk' = [desk EXCEPT ![d] = AtRest]
    /\ UNCHANGED <<taskStatus, taskEdits, debt, entries, plan, applying, audited>>

Finishes(d) ==
    {t \in FinanceTasks : taskStatus[t] = "open" /\ (desk[d].full \/ CurrencyOf[t] = desk[d].currency)}

\* The tasks are closed by the plan of before, and what remains gets one of its own.
ReceiptApply(d) ==
    /\ desk[d] # AtRest
    /\ \E new \in SUBSET FinanceTasks :
          /\ IF desk[d].full \/ ~ desk[d].partial THEN new = {}
             ELSE \E t \in FinanceTasks \ Overdue :
                     new = {t} /\ taskStatus[t] = "absent" /\ CurrencyOf[t] = desk[d].currency
          /\ taskStatus' = [t \in FinanceTasks |-> IF t \in new THEN "open"
                                                   ELSE IF t \in Finishes(d) THEN "done" ELSE taskStatus[t]]
          /\ taskEdits' = [t \in FinanceTasks |-> IF t \in Finishes(d) THEN taskEdits[t] + 1 ELSE taskEdits[t]]
    /\ desk' = [desk EXCEPT ![d] = AtRest]
    /\ UNCHANGED <<debt, entries, plan, applying, audited>>

-----------------------------------------------------------------------------
(* What happens around them.                                               *)

\* By id alone, open or not.
CompleteTask(t) ==
    /\ taskStatus[t] # "absent"
    /\ taskStatus' = [taskStatus EXCEPT ![t] = "done"]
    /\ taskEdits[t] < MaxEdits /\ taskEdits' = [taskEdits EXCEPT ![t] = @ + 1]
    /\ UNCHANGED <<debt, entries, plan, applying, audited, desk>>

\* The daily list adds a reason to a promise's task.
MergeReason(t) ==
    /\ taskStatus[t] = "open"
    /\ taskEdits[t] < MaxEdits /\ taskEdits' = [taskEdits EXCEPT ![t] = @ + 1]
    /\ UNCHANGED <<taskStatus, debt, entries, plan, applying, audited, desk>>

\* An import, or an entry of the ledger.
DebtChanges(c, amount) ==
    /\ entries < MaxEntries /\ entries' = entries + 1
    /\ debt' = [debt EXCEPT ![c] = amount]
    /\ UNCHANGED <<taskStatus, taskEdits, plan, applying, audited, desk>>

SettledNext ==
    \/ \E r \in Reviews, selection \in SUBSET FinanceTasks : Preview(r, selection)
    \/ \E x \in Appliers : ApplyCommit(x) \/ ApplyFails(x) \/ \E r \in Reviews : ApplyBegin(x, r)
    \/ \E d \in Desks : \/ ReceiptFails(d) \/ ReceiptApply(d)
                        \/ \E c \in Currencies, left \in 0 .. Actionable : ReceiptPlan(d, c, left)
    \/ \E t \in FinanceTasks : CompleteTask(t) \/ MergeReason(t)
    \/ \E c \in Currencies, amount \in 0 .. Actionable : DebtChanges(c, amount)

SettledSpec == SettledInit /\ [][SettledNext]_settledVars

-----------------------------------------------------------------------------
(* Properties.                                                             *)

\* "Apply closes only the exact reviewed plan": whatever is applied at once, retried
\* or written in between, the tasks of a review are closed together, once, each as
\* it was when it was reviewed, and no other task with them
\* (SettledFinancialTasksService.apply).
ClosesWhatWasReviewed ==
    [][\A r \in Reviews : audited'[r] # audited[r] =>
          /\ \A t \in Candidates(r) :
                /\ taskStatus[t] = "open" /\ taskEdits[t] = plan[r].edits[t]
                /\ taskStatus'[t] = "done" /\ audited[r][t] = 0 /\ audited'[r][t] = 1
          /\ \A t \in FinanceTasks \ Candidates(r) :
                taskStatus'[t] = taskStatus[t] /\ audited'[r][t] = audited[r][t]]_settledVars
=============================================================================
