---------------------------- MODULE TasksProofs ----------------------------
(***************************************************************************)
(* Proofs about the tasks of a customer: a review closes what was reviewed *)
(* and nothing else (SettledTasks), and an attempt to reach the customer   *)
(* becomes one follow-up or none (ContactAttempts); for any tasks,         *)
(* reviews, attempts, authors, requests and processes.                     *)
(***************************************************************************)
EXTENDS SettledTasks, ContactAttempts, TLAPS

-----------------------------------------------------------------------------
(* Reviews.                                                                *)

SettledTypeOK ==
    /\ taskStatus \in [FinanceTasks -> {"absent", "open", "done"}]
    /\ DOMAIN taskEdits = FinanceTasks
    /\ audited \in [Reviews -> [FinanceTasks -> Nat]]
    /\ DOMAIN plan = Reviews /\ DOMAIN applying = Appliers

\* A plan is about this customer's tasks.
PlansOK == \A r \in Reviews : Candidates(r) \subseteq FinanceTasks

\* What a transaction has seen is what was reviewed, open and all.
SeenAsReviewed(x) ==
    applying[x] # NotApplying =>
        /\ applying[x].of \in Reviews /\ plan[applying[x].of] # NoPlan
        /\ \A t \in Candidates(applying[x].of) :
              applying[x].seen[t] = <<"open", plan[applying[x].of].edits[t]>>

\* A task that a review closed does not open again.
AuditedIsDone ==
    \A r \in Reviews, t \in FinanceTasks : audited[r][t] > 0 => taskStatus[t] = "done"

SettledInv ==
    /\ SettledTypeOK /\ PlansOK /\ AuditedIsDone
    /\ \A x \in Appliers : SeenAsReviewed(x)

\* The plan of before the preview has no candidate.
LEMMA NoPlanEmpty == DOMAIN NoPlan.edits = {}
BY DEF NoPlan

\* Nothing is planned, applied or audited at first (SettledInit).
LEMMA SettledInitially == SettledInit => SettledInv
<1> SUFFICES ASSUME SettledInit PROVE SettledInv
  OBVIOUS
<1>1. SettledTypeOK
  BY DEF SettledInit, SettledTypeOK
<1>2. PlansOK
  BY NoPlanEmpty DEF SettledInit, PlansOK, Candidates
<1>3. AuditedIsDone /\ \A x \in Appliers : SeenAsReviewed(x)
  BY DEF SettledInit, AuditedIsDone, SeenAsReviewed
<1> QED
  BY <1>1, <1>2, <1>3 DEF SettledInv

\* A step that leaves the reviews alone and reopens no task (complete, merged
\* reasons, receipts, the ledger).
LEMMA ReviewsAlone ==
    ASSUME SettledInv, UNCHANGED <<plan, applying, audited>>,
           taskStatus' \in [FinanceTasks -> {"absent", "open", "done"}],
           DOMAIN taskEdits' = FinanceTasks,
           \A t \in FinanceTasks : taskStatus[t] = "done" => taskStatus'[t] = "done"
    PROVE  SettledInv'
<1>1. SettledTypeOK'
  BY DEF SettledInv, SettledTypeOK
<1>2. PlansOK' /\ \A x \in Appliers : SeenAsReviewed(x)'
  BY DEF SettledInv, PlansOK, Candidates, SeenAsReviewed
<1>3. AuditedIsDone'
  BY DEF SettledInv, SettledTypeOK, AuditedIsDone
<1> QED
  BY <1>1, <1>2, <1>3 DEF SettledInv

\* A preview fills a plan that no transaction applies (preview).
LEMMA PreviewInvariant ==
    ASSUME SettledInv, NEW r \in Reviews, NEW selection \in SUBSET FinanceTasks, Preview(r, selection)
    PROVE  SettledInv'
<1>1. SettledTypeOK' /\ AuditedIsDone'
  BY DEF SettledInv, SettledTypeOK, AuditedIsDone, Preview
<1>2. plan'[r].edits = [t \in Closable(selection) |-> taskEdits[t]]
  BY DEF Preview, PlanOf, SettledInv, SettledTypeOK
<1>3. PlansOK'
  <2>1. DOMAIN plan'[r].edits \subseteq FinanceTasks
    BY <1>2 DEF Closable
  <2> QED
    BY <2>1 DEF SettledInv, SettledTypeOK, PlansOK, Candidates, Preview
<1>4. \A x \in Appliers : SeenAsReviewed(x)'
  <2> SUFFICES ASSUME NEW x \in Appliers, applying[x] # NotApplying PROVE SeenAsReviewed(x)'
    BY DEF SeenAsReviewed, Preview
  <2>1. applying[x].of \in Reviews /\ applying[x].of # r
    BY DEF SettledInv, SeenAsReviewed, Preview
  <2>2. plan'[applying[x].of] = plan[applying[x].of]
    BY <2>1 DEF Preview, SettledInv, SettledTypeOK
  <2> QED
    BY <2>1, <2>2 DEF SettledInv, SeenAsReviewed, Preview, Candidates
<1> QED
  BY <1>1, <1>3, <1>4 DEF SettledInv

\* The plan computed again is the reviewed one, so its candidates are open and have
\* the edits that were reviewed (apply).
LEMMA ApplyBeginInvariant ==
    ASSUME SettledInv, NEW x \in Appliers, NEW r \in Reviews, ApplyBegin(x, r)
    PROVE  SettledInv'
<1>1. SettledTypeOK' /\ AuditedIsDone' /\ PlansOK'
  BY DEF SettledInv, SettledTypeOK, AuditedIsDone, PlansOK, Candidates, ApplyBegin
<1>2. plan[r] # NoPlan
  BY NoPlanEmpty DEF ApplyBegin, Candidates
<1>3. \A t \in Candidates(r) : taskStatus[t] = "open" /\ plan[r].edits[t] = taskEdits[t]
  <2>1. plan[r].edits = [t \in Closable(plan[r].selection) |-> taskEdits[t]]
    BY DEF ApplyBegin, PlanOf
  <2> QED
    BY <2>1 DEF Candidates, Closable
<1>4. ASSUME NEW y \in Appliers PROVE SeenAsReviewed(y)'
  <2>1. CASE y = x
    <3> DEFINE seen == [t \in Candidates(r) |-> <<taskStatus[t], taskEdits[t]>>]
    <3>1. applying'[x] = [of |-> r, seen |-> seen]
      BY DEF ApplyBegin, SettledInv, SettledTypeOK
    <3>2. \A t \in Candidates(r) : seen[t] = <<"open", plan[r].edits[t]>>
      BY <1>3
    <3>3. applying'[x].of = r /\ applying'[x].seen = seen /\ plan' = plan
      BY <3>1 DEF ApplyBegin
    <3> HIDE DEF seen
    <3> QED
      BY <2>1, <1>2, <3>2, <3>3 DEF SeenAsReviewed, Candidates
  <2>2. CASE y # x
    BY <2>2 DEF SettledInv, SettledTypeOK, SeenAsReviewed, Candidates, ApplyBegin
  <2> QED
    BY <2>1, <2>2
<1> QED
  BY <1>1, <1>4 DEF SettledInv

\* What a commit finds and leaves: its candidates are as they were reviewed and
\* were never audited (apply, updateMany with status open).
LEMMA ApplyCommitCloses ==
    ASSUME SettledInv, NEW x \in Appliers, ApplyCommit(x)
    PROVE  LET r == applying[x].of IN
             /\ r \in Reviews
             /\ \A q \in Reviews \ {r} : audited'[q] = audited[q]
             /\ \A t \in Candidates(r) :
                   /\ t \in FinanceTasks
                   /\ taskStatus[t] = "open" /\ taskEdits[t] = plan[r].edits[t]
                   /\ taskStatus'[t] = "done" /\ audited[r][t] = 0 /\ audited'[r][t] = 1
             /\ \A t \in FinanceTasks \ Candidates(r) :
                   taskStatus'[t] = taskStatus[t] /\ audited'[r][t] = audited[r][t]
<1> DEFINE r == applying[x].of
<1>1. r \in Reviews /\ SeenAsReviewed(x) /\ applying[x] # NotApplying
  BY DEF SettledInv, SeenAsReviewed, ApplyCommit
<1>2. Candidates(r) \subseteq FinanceTasks
  BY <1>1 DEF SettledInv, PlansOK
<1>3. \A t \in Candidates(r) : <<taskStatus[t], taskEdits[t]>> = <<"open", plan[r].edits[t]>>
  BY <1>1 DEF SeenAsReviewed, ApplyCommit, SameTasks
<1>4. \A t \in Candidates(r) : taskStatus[t] = "open" /\ taskEdits[t] = plan[r].edits[t]
  BY <1>3
<1>5. \A t \in Candidates(r) : audited[r][t] = 0
  BY <1>1, <1>2, <1>4 DEF SettledInv, AuditedIsDone, SettledTypeOK
<1>6. audited'[r] = [t \in FinanceTasks |-> IF t \in Candidates(r) THEN audited[r][t] + 1 ELSE audited[r][t]]
  BY <1>1 DEF ApplyCommit, SettledInv, SettledTypeOK
<1>7. \A q \in Reviews \ {r} : audited'[q] = audited[q]
  BY <1>1 DEF ApplyCommit, SettledInv, SettledTypeOK
<1>8. taskStatus' = [t \in FinanceTasks |-> IF t \in Candidates(r) THEN "done" ELSE taskStatus[t]]
  BY DEF ApplyCommit
<1> HIDE DEF r
<1>9. \A t \in Candidates(r) : taskStatus'[t] = "done" /\ audited'[r][t] = 1
  BY <1>2, <1>5, <1>6, <1>8
<1>10. \A t \in FinanceTasks \ Candidates(r) : taskStatus'[t] = taskStatus[t] /\ audited'[r][t] = audited[r][t]
  BY <1>6, <1>8
<1> QED
  BY <1>1, <1>2, <1>4, <1>5, <1>7, <1>9, <1>10 DEF r

\* Closed tasks are done and audited together (apply).
LEMMA ApplyCommitInvariant ==
    ASSUME SettledInv, NEW x \in Appliers, ApplyCommit(x)
    PROVE  SettledInv'
<1> DEFINE r == applying[x].of
<1>1. /\ r \in Reviews
      /\ \A q \in Reviews \ {r} : audited'[q] = audited[q]
      /\ \A t \in Candidates(r) : taskStatus'[t] = "done"
      /\ \A t \in FinanceTasks \ Candidates(r) :
            taskStatus'[t] = taskStatus[t] /\ audited'[r][t] = audited[r][t]
  BY ApplyCommitCloses
<1>2. /\ taskStatus' = [t \in FinanceTasks |-> IF t \in Candidates(r) THEN "done" ELSE taskStatus[t]]
      /\ DOMAIN taskEdits' = FinanceTasks
      /\ audited' = [audited EXCEPT ![r] =
            [t \in FinanceTasks |-> IF t \in Candidates(r) THEN audited[r][t] + 1 ELSE audited[r][t]]]
      /\ applying' = [applying EXCEPT ![x] = NotApplying]
      /\ plan' = plan
  BY DEF ApplyCommit
<1> HIDE DEF r
<1>3. SettledTypeOK'
  <2>1. taskStatus' \in [FinanceTasks -> {"absent", "open", "done"}]
    BY <1>2 DEF SettledInv, SettledTypeOK
  <2>2. audited' \in [Reviews -> [FinanceTasks -> Nat]]
    BY <1>1, <1>2 DEF SettledInv, SettledTypeOK
  <2> QED
    BY <1>2, <2>1, <2>2 DEF SettledInv, SettledTypeOK
<1>4. PlansOK'
  BY <1>2 DEF SettledInv, PlansOK, Candidates
<1>5. AuditedIsDone'
  <2> SUFFICES ASSUME NEW q \in Reviews, NEW t \in FinanceTasks, audited'[q][t] > 0
               PROVE  taskStatus'[t] = "done"
    BY DEF AuditedIsDone
  <2>1. CASE t \in Candidates(r)
    BY <2>1, <1>1
  <2>2. CASE t \notin Candidates(r)
    <3>1. audited'[q][t] = audited[q][t] /\ taskStatus'[t] = taskStatus[t]
      BY <2>2, <1>1
    <3> QED
      BY <3>1 DEF SettledInv, AuditedIsDone
  <2> QED
    BY <2>1, <2>2
<1>6. \A y \in Appliers : SeenAsReviewed(y)'
  BY <1>2 DEF SettledInv, SettledTypeOK, SeenAsReviewed, Candidates
<1> QED
  BY <1>3, <1>4, <1>5, <1>6 DEF SettledInv

\* A rollback leaves the tasks as they were (apply).
LEMMA ApplyFailsInvariant ==
    ASSUME SettledInv, NEW x \in Appliers, ApplyFails(x)
    PROVE  SettledInv'
<1>1. SettledTypeOK' /\ PlansOK' /\ AuditedIsDone'
  BY DEF SettledInv, SettledTypeOK, PlansOK, AuditedIsDone, Candidates, ApplyFails
<1>2. \A y \in Appliers : SeenAsReviewed(y)'
  BY DEF SettledInv, SettledTypeOK, SeenAsReviewed, Candidates, ApplyFails
<1> QED
  BY <1>1, <1>2 DEF SettledInv

\* The steps of the receipts' desk and of everybody else.
Around ==
    \/ \E d \in Desks : \/ ReceiptFails(d) \/ ReceiptApply(d)
                        \/ \E c \in Currencies, left \in 0 .. Actionable : ReceiptPlan(d, c, left)
    \/ \E t \in FinanceTasks : CompleteTask(t) \/ MergeReason(t)
    \/ \E c \in Currencies, amount \in 0 .. Actionable : DebtChanges(c, amount)

\* No receipt, completion, merged reason or ledger entry opens a task again.
LEMMA AroundInvariant ==
    ASSUME SettledInv, Around
    PROVE  SettledInv' /\ audited' = audited
<1>t. taskStatus \in [FinanceTasks -> {"absent", "open", "done"}] /\ DOMAIN taskEdits = FinanceTasks
  BY DEF SettledInv, SettledTypeOK
<1>1. CASE UNCHANGED <<taskStatus, taskEdits, plan, applying, audited>>
  BY <1>t, <1>1, ReviewsAlone
<1>2. ASSUME NEW d \in Desks, ReceiptApply(d) PROVE SettledInv' /\ audited' = audited
  <2> PICK new \in SUBSET FinanceTasks :
        /\ new = {} \/ \E t \in FinanceTasks : new = {t} /\ taskStatus[t] = "absent"
        /\ taskStatus' = [t \in FinanceTasks |-> IF t \in new THEN "open"
                                                 ELSE IF t \in Finishes(d) THEN "done" ELSE taskStatus[t]]
        /\ DOMAIN taskEdits' = FinanceTasks
    BY <1>2 DEF ReceiptApply
  <2>1. taskStatus' \in [FinanceTasks -> {"absent", "open", "done"}]
    BY <1>t
  <2>2. \A t \in FinanceTasks : taskStatus[t] = "done" => taskStatus'[t] = "done"
    BY <1>t
  <2>3. UNCHANGED <<plan, applying, audited>>
    BY <1>2 DEF ReceiptApply
  <2> QED
    BY <2>1, <2>2, <2>3, ReviewsAlone
<1>3. ASSUME NEW t \in FinanceTasks, CompleteTask(t) PROVE SettledInv' /\ audited' = audited
  <2>1. /\ taskStatus' \in [FinanceTasks -> {"absent", "open", "done"}]
        /\ DOMAIN taskEdits' = FinanceTasks
        /\ \A s \in FinanceTasks : taskStatus[s] = "done" => taskStatus'[s] = "done"
    BY <1>t, <1>3 DEF CompleteTask
  <2>2. UNCHANGED <<plan, applying, audited>>
    BY <1>3 DEF CompleteTask
  <2> QED
    BY <2>1, <2>2, ReviewsAlone
<1>4. ASSUME NEW t \in FinanceTasks, MergeReason(t) PROVE SettledInv' /\ audited' = audited
  <2>1. DOMAIN taskEdits' = FinanceTasks /\ UNCHANGED <<taskStatus, plan, applying, audited>>
    BY <1>t, <1>4 DEF MergeReason
  <2> QED
    BY <1>t, <2>1, ReviewsAlone
<1>5. ASSUME NEW d \in Desks, ReceiptFails(d) \/ \E c \in Currencies, left \in 0 .. Actionable : ReceiptPlan(d, c, left)
      PROVE  UNCHANGED <<taskStatus, taskEdits, plan, applying, audited>>
  BY <1>5 DEF ReceiptFails, ReceiptPlan
<1>6. ASSUME NEW c \in Currencies, NEW amount \in 0 .. Actionable, DebtChanges(c, amount)
      PROVE  UNCHANGED <<taskStatus, taskEdits, plan, applying, audited>>
  BY <1>6 DEF DebtChanges
<1> QED
  BY <1>1, <1>2, <1>3, <1>4, <1>5, <1>6 DEF Around

\* Every step of the reviews and of what happens around them.
LEMMA SettledNextInvariant == SettledInv /\ [SettledNext]_settledVars => SettledInv'
<1> SUFFICES ASSUME SettledInv, [SettledNext]_settledVars PROVE SettledInv'
  OBVIOUS
<1>1. CASE UNCHANGED settledVars
  BY <1>1 DEF settledVars, SettledInv, SettledTypeOK, PlansOK, AuditedIsDone, SeenAsReviewed, Candidates
<1>2. CASE SettledNext
  BY <1>2, PreviewInvariant, ApplyBeginInvariant, ApplyCommitInvariant, ApplyFailsInvariant, AroundInvariant
     DEF SettledNext, Around
<1> QED
  BY <1>1, <1>2

\* What a transaction that applies a review has seen is what was reviewed, and what a
\* review closed stays closed (preview, apply).
THEOREM SettledInvariance == SettledSpec => []SettledInv
BY SettledInitially, SettledNextInvariant, PTL DEF SettledSpec

\* A review closes the tasks that were reviewed, all of them and once, each as it was,
\* whatever is applied or written meanwhile (apply).
THEOREM ReviewedIsClosed == SettledSpec => ClosesWhatWasReviewed
<1> DEFINE Closes ==
      \A r \in Reviews : audited'[r] # audited[r] =>
          /\ \A t \in Candidates(r) :
                /\ taskStatus[t] = "open" /\ taskEdits[t] = plan[r].edits[t]
                /\ taskStatus'[t] = "done" /\ audited[r][t] = 0 /\ audited'[r][t] = 1
          /\ \A t \in FinanceTasks \ Candidates(r) :
                taskStatus'[t] = taskStatus[t] /\ audited'[r][t] = audited[r][t]
<1>1. SettledInv /\ [SettledNext]_settledVars => [Closes]_settledVars
  <2> SUFFICES ASSUME SettledInv, SettledNext PROVE Closes
    OBVIOUS
  <2>1. ASSUME NEW x \in Appliers, ApplyCommit(x) PROVE Closes
    BY <2>1, ApplyCommitCloses
  <2>2. CASE audited' = audited
    BY <2>2
  <2>3. ASSUME NEW r \in Reviews, NEW selection \in SUBSET FinanceTasks, Preview(r, selection)
        PROVE  audited' = audited
    BY <2>3 DEF Preview
  <2>4. ASSUME NEW x \in Appliers, ApplyFails(x) \/ \E r \in Reviews : ApplyBegin(x, r)
        PROVE  audited' = audited
    BY <2>4 DEF ApplyFails, ApplyBegin
  <2>5. CASE Around
    BY <2>5, AroundInvariant
  <2> HIDE DEF Closes
  <2> QED
    BY <2>1, <2>2, <2>3, <2>4, <2>5, AroundInvariant DEF SettledNext, Around
<1> QED
  BY <1>1, SettledInvariance, PTL DEF SettledSpec, ClosesWhatWasReviewed

-----------------------------------------------------------------------------
(* Attempts to reach the customer.                                         *)

Registering ==
    {NothingRead} \cup [phase : {"read"}, of : Touches, verdict : {"pending", "suppressed"},
                        seen : Nat, collector : Collectors \cup {Unassigned}]
Processing ==
    {NothingRead} \cup [phase : {"read"}, of : Touches, verdict : {"completed", "suppressed"}]

ContactTypeOK ==
    /\ attempt \in [Touches -> {"none", "made", "pending", "suppressed", "completed"}]
    /\ registering \in [Registrars -> Registering]
    /\ processing \in [Processors -> Processing]
    /\ recorded \in [Authors -> Nat] /\ automatic \in [Touches -> Nat]
    /\ holder \in Collectors \cup {Unassigned}

\* A registration is of an attempt not yet there, and the author has none waiting.
RegisteringOK(q) ==
    registering[q] # NothingRead =>
        /\ attempt[registering[q].of] = "made"
        /\ Pending(AuthorOf[registering[q].of]) = {}

\* The advisory lock keeps the registrations of one author apart.
OneRegistration == \A q, s \in Registrars :
    (/\ registering[q] # NothingRead /\ registering[s] # NothingRead
     /\ AuthorOf[registering[q].of] = AuthorOf[registering[s].of]) => q = s

\* The row lock keeps a process alone with an attempt that waits.
ProcessingOK ==
    /\ \A p \in Processors : processing[p] # NothingRead => attempt[processing[p].of] = "pending"
    /\ \A p, s \in Processors :
          (/\ processing[p] # NothingRead /\ processing[s] # NothingRead
           /\ processing[p].of = processing[s].of) => p = s

ContactInv ==
    /\ ContactTypeOK /\ AttemptAnsweredOnce
    /\ \A q \in Registrars : RegisteringOK(q)
    /\ OneRegistration /\ ProcessingOK

\* Who has read something has read it of an attempt, with a verdict.
LEMMA ReadForms ==
    ASSUME ContactTypeOK
    PROVE  /\ \A q \in Registrars : registering[q] # NothingRead =>
                 registering[q].of \in Touches /\ registering[q].verdict \in {"pending", "suppressed"}
           /\ \A p \in Processors : processing[p] # NothingRead =>
                 processing[p].of \in Touches /\ processing[p].verdict \in {"completed", "suppressed"}
BY DEF ContactTypeOK, Registering, Processing

\* Nobody has made an attempt at first (ContactInit).
LEMMA ContactInitially == ContactInit => ContactInv
<1> SUFFICES ASSUME ContactInit PROVE ContactInv
  OBVIOUS
<1>1. ContactTypeOK
  BY DEF ContactInit, ContactTypeOK, Registering, Processing
<1>2. AttemptAnsweredOnce
  BY DEF ContactInit, AttemptAnsweredOnce
<1> QED
  BY <1>1, <1>2 DEF ContactInit, ContactInv, RegisteringOK, OneRegistration, ProcessingOK

\* A count of records stays a count.
LEMMA MoreRecordsType ==
    ASSUME recorded \in [Authors -> Nat], NEW authors
    PROVE  MoreRecords(authors) \in [Authors -> Nat]
BY DEF MoreRecords

\* What only adds records or moves the customer (Records, Transfer).
LEMMA AttemptsAlone ==
    ASSUME ContactInv, UNCHANGED <<attempt, registering, processing, automatic>>,
           recorded' \in [Authors -> Nat], holder' \in Collectors \cup {Unassigned}
    PROVE  ContactInv'
<1>1. ContactTypeOK'
  BY DEF ContactInv, ContactTypeOK
<1>2. AttemptAnsweredOnce' /\ OneRegistration' /\ ProcessingOK'
  BY DEF ContactInv, AttemptAnsweredOnce, OneRegistration, ProcessingOK
<1>3. \A q \in Registrars : RegisteringOK(q)'
  BY DEF ContactInv, RegisteringOK, Pending
<1> QED
  BY <1>1, <1>2, <1>3 DEF ContactInv

\* An attempt noted on the screen waits for nobody yet (registerContactAttempt).
LEMMA TouchInvariant ==
    ASSUME ContactInv, NEW a \in Touches, Touch(a)
    PROVE  ContactInv'
<1>1. /\ attempt[a] = "none" /\ attempt' = [attempt EXCEPT ![a] = "made"]
      /\ UNCHANGED <<registering, processing, recorded, automatic, holder>>
  BY DEF Touch
<1>2. ContactTypeOK'
  BY <1>1 DEF ContactInv, ContactTypeOK
<1>3. AttemptAnsweredOnce' /\ OneRegistration'
  BY <1>1 DEF ContactInv, ContactTypeOK, AttemptAnsweredOnce, OneRegistration
<1>4. ProcessingOK'
  BY <1>1, ReadForms DEF ContactInv, ContactTypeOK, ProcessingOK
<1>5. \A q \in Registrars : RegisteringOK(q)'
  BY <1>1, ReadForms DEF ContactInv, ContactTypeOK, RegisteringOK, Pending
<1> QED
  BY <1>2, <1>3, <1>4, <1>5 DEF ContactInv

\* A registration starts under the author's lock and on fresh ground (register).
LEMMA RegisterReadInvariant ==
    ASSUME ContactInv, NEW q \in Registrars, NEW a \in Touches, RegisterRead(q, a)
    PROVE  ContactInv'
<1> PICK v \in {"pending", "suppressed"} :
      registering' = [registering EXCEPT ![q] =
          [phase |-> "read", of |-> a, verdict |-> v, seen |-> recorded[AuthorOf[a]], collector |-> holder]]
  BY DEF RegisterRead
<1> DEFINE o == [phase |-> "read", of |-> a, verdict |-> v, seen |-> recorded[AuthorOf[a]], collector |-> holder]
<1>1. o \in Registering /\ o.of = a
  BY ContactAssumption DEF ContactInv, ContactTypeOK, Registering
<1>2. /\ registering' = [registering EXCEPT ![q] = o]
      /\ LockFree(AuthorOf[a]) /\ Fresh(a)
      /\ UNCHANGED <<attempt, processing, recorded, automatic, holder>>
  BY DEF RegisterRead
<1> HIDE DEF o
<1>3. ContactTypeOK'
  BY <1>1, <1>2 DEF ContactInv, ContactTypeOK
<1>4. AttemptAnsweredOnce' /\ ProcessingOK'
  BY <1>2 DEF ContactInv, AttemptAnsweredOnce, ProcessingOK
<1>5. OneRegistration'
  BY <1>1, <1>2 DEF ContactInv, ContactTypeOK, OneRegistration, LockFree
<1>6. \A s \in Registrars : RegisteringOK(s)'
  BY <1>1, <1>2 DEF ContactInv, ContactTypeOK, RegisteringOK, Fresh, Pending
<1> QED
  BY <1>3, <1>4, <1>5, <1>6 DEF ContactInv

\* The row it inserts is the author's only one that waits (register).
LEMMA RegisterCommitInvariant ==
    ASSUME ContactInv, NEW q \in Registrars, RegisterCommit(q)
    PROVE  ContactInv'
<1> DEFINE a == registering[q].of
           v == registering[q].verdict
<1>1. /\ registering[q] # NothingRead
      /\ a \in Touches /\ v \in {"pending", "suppressed"}
      /\ attempt[a] = "made" /\ Pending(AuthorOf[a]) = {}
  BY ReadForms DEF RegisterCommit, ContactInv, RegisteringOK
<1>2. /\ attempt' = [attempt EXCEPT ![a] = v]
      /\ registering' = [registering EXCEPT ![q] = NothingRead]
      /\ UNCHANGED <<processing, recorded, automatic, holder>>
  BY DEF RegisterCommit
<1>3. \A s \in Registrars : s # q /\ registering[s] # NothingRead =>
         registering[s].of \in Touches /\ AuthorOf[registering[s].of] # AuthorOf[a]
  BY <1>1, ReadForms DEF ContactInv, OneRegistration
<1> HIDE DEF a, v
<1>4. ContactTypeOK'
  BY <1>1, <1>2 DEF ContactInv, ContactTypeOK, Registering
<1>5. AttemptAnsweredOnce'
  BY <1>1, <1>2 DEF ContactInv, ContactTypeOK, AttemptAnsweredOnce, Pending
<1>6. OneRegistration'
  BY <1>2 DEF ContactInv, ContactTypeOK, OneRegistration
<1>7. ProcessingOK'
  BY <1>1, <1>2, ReadForms DEF ContactInv, ContactTypeOK, ProcessingOK
<1>8. \A s \in Registrars : RegisteringOK(s)'
  <2> SUFFICES ASSUME NEW s \in Registrars, s # q, registering[s] # NothingRead
               PROVE  RegisteringOK(s)'
    BY <1>2 DEF RegisteringOK, ContactInv, ContactTypeOK
  <2>1. registering'[s] = registering[s] /\ registering[s].of # a
    BY <1>2, <1>3 DEF ContactInv, ContactTypeOK
  <2>2. attempt'[registering[s].of] = "made"
    BY <1>2, <1>3, <2>1 DEF ContactInv, ContactTypeOK, RegisteringOK
  <2>3. Pending(AuthorOf[registering[s].of])' = {}
    BY <1>2, <1>3, <2>1 DEF ContactInv, ContactTypeOK, RegisteringOK, Pending
  <2> QED
    BY <2>1, <2>2, <2>3 DEF RegisteringOK, Pending
<1> QED
  BY <1>4, <1>5, <1>6, <1>7, <1>8 DEF ContactInv

\* A rollback gives the author's lock back (register).
LEMMA RegisterFailsInvariant ==
    ASSUME ContactInv, NEW q \in Registrars, RegisterFails(q)
    PROVE  ContactInv'
<1>1. /\ registering' = [registering EXCEPT ![q] = NothingRead]
      /\ UNCHANGED <<attempt, processing, recorded, automatic, holder>>
  BY DEF RegisterFails
<1>2. ContactTypeOK'
  BY <1>1 DEF ContactInv, ContactTypeOK, Registering
<1>3. AttemptAnsweredOnce' /\ ProcessingOK' /\ OneRegistration'
  BY <1>1 DEF ContactInv, ContactTypeOK, AttemptAnsweredOnce, ProcessingOK, OneRegistration
<1>4. \A s \in Registrars : RegisteringOK(s)'
  BY <1>1 DEF ContactInv, ContactTypeOK, RegisteringOK, Pending
<1> QED
  BY <1>2, <1>3, <1>4 DEF ContactInv

\* The row is selected with a lock that passes over locked rows (process).
LEMMA ProcessReadInvariant ==
    ASSUME ContactInv, NEW p \in Processors, NEW a \in Touches, ProcessRead(p, a)
    PROVE  ContactInv'
<1> PICK v \in {"completed", "suppressed"} :
      processing' = [processing EXCEPT ![p] = [phase |-> "read", of |-> a, verdict |-> v]]
  BY DEF ProcessRead
<1> DEFINE o == [phase |-> "read", of |-> a, verdict |-> v]
<1>1. o \in Processing /\ o.of = a
  BY DEF Processing
<1>2. /\ processing' = [processing EXCEPT ![p] = o] /\ processing[p] = NothingRead
      /\ attempt[a] = "pending" /\ Unlocked(a)
      /\ UNCHANGED <<attempt, registering, recorded, automatic, holder>>
  BY DEF ProcessRead
<1> HIDE DEF o
<1>3. ContactTypeOK'
  BY <1>1, <1>2 DEF ContactInv, ContactTypeOK
<1>4. AttemptAnsweredOnce' /\ OneRegistration'
  BY <1>2 DEF ContactInv, AttemptAnsweredOnce, OneRegistration
<1>5. ProcessingOK'
  BY <1>1, <1>2 DEF ContactInv, ContactTypeOK, ProcessingOK, Unlocked
<1>6. \A s \in Registrars : RegisteringOK(s)'
  BY <1>2 DEF ContactInv, RegisteringOK, Pending
<1> QED
  BY <1>3, <1>4, <1>5, <1>6 DEF ContactInv

\* The follow-up and the row's last status are written together (process).
LEMMA ProcessCommitInvariant ==
    ASSUME ContactInv, NEW p \in Processors, ProcessCommit(p)
    PROVE  ContactInv'
<1> DEFINE a == processing[p].of
           v == processing[p].verdict
<1>1. /\ processing[p] # NothingRead /\ attempt[a] = "pending"
      /\ a \in Touches /\ v \in {"completed", "suppressed"}
  BY ReadForms DEF ProcessCommit, ContactInv, ProcessingOK
<1>2. /\ attempt' = [attempt EXCEPT ![a] = v]
      /\ automatic' = [automatic EXCEPT ![a] = IF v = "completed" THEN automatic[a] + 1 ELSE automatic[a]]
      /\ processing' = [processing EXCEPT ![p] = NothingRead]
      /\ UNCHANGED <<registering, holder>>
  BY DEF ProcessCommit
<1>3. recorded' \in [Authors -> Nat]
  <2>1. recorded' = recorded \/ \E authors : recorded' = MoreRecords(authors)
    BY DEF ProcessCommit
  <2> QED
    BY <2>1, MoreRecordsType DEF ContactInv, ContactTypeOK
<1>4. \A s \in Processors : s # p /\ processing[s] # NothingRead =>
         processing[s].of \in Touches /\ processing[s].of # a
  BY <1>1, ReadForms DEF ContactInv, ProcessingOK
<1> HIDE DEF a, v
<1>5. ContactTypeOK'
  BY <1>1, <1>2, <1>3 DEF ContactInv, ContactTypeOK, Processing
<1>6. AttemptAnsweredOnce'
  BY <1>1, <1>2 DEF ContactInv, ContactTypeOK, AttemptAnsweredOnce
<1>7. OneRegistration'
  BY <1>2 DEF ContactInv, OneRegistration
<1>8. ProcessingOK'
  BY <1>1, <1>2, <1>4 DEF ContactInv, ContactTypeOK, ProcessingOK
<1>9. \A q \in Registrars : RegisteringOK(q)'
  <2> SUFFICES ASSUME NEW q \in Registrars, registering[q] # NothingRead
               PROVE  RegisteringOK(q)'
    BY <1>2 DEF RegisteringOK
  <2>1. registering'[q] = registering[q] /\ registering[q].of \in Touches /\ registering[q].of # a
    BY <1>1, <1>2, ReadForms DEF ContactInv, RegisteringOK
  <2>2. attempt'[registering[q].of] = "made"
    BY <1>2, <2>1 DEF ContactInv, ContactTypeOK, RegisteringOK
  <2>3. \A b \in Touches : attempt'[b] = "pending" => attempt[b] = "pending"
    BY <1>1, <1>2 DEF ContactInv, ContactTypeOK
  <2> QED
    BY <2>1, <2>2, <2>3 DEF ContactInv, RegisteringOK, Pending
<1> QED
  BY <1>5, <1>6, <1>7, <1>8, <1>9 DEF ContactInv

\* A rollback leaves the attempt waiting (process).
LEMMA ProcessFailsInvariant ==
    ASSUME ContactInv, NEW p \in Processors, ProcessFails(p)
    PROVE  ContactInv'
<1>1. /\ processing' = [processing EXCEPT ![p] = NothingRead]
      /\ UNCHANGED <<attempt, registering, recorded, automatic, holder>>
  BY DEF ProcessFails
<1>2. ContactTypeOK'
  BY <1>1 DEF ContactInv, ContactTypeOK, Processing
<1>3. AttemptAnsweredOnce' /\ OneRegistration' /\ ProcessingOK'
  BY <1>1 DEF ContactInv, ContactTypeOK, AttemptAnsweredOnce, ProcessingOK, OneRegistration
<1>4. \A s \in Registrars : RegisteringOK(s)'
  BY <1>1 DEF ContactInv, RegisteringOK, Pending
<1> QED
  BY <1>2, <1>3, <1>4 DEF ContactInv

\* Records by hand touch no attempt (FollowupsService.create).
LEMMA RecordsInvariant ==
    ASSUME ContactInv, NEW authors \in SUBSET Authors, Records(authors)
    PROVE  ContactInv'
<1>1. recorded' \in [Authors -> Nat] /\ holder' \in Collectors \cup {Unassigned}
  BY MoreRecordsType DEF Records, ContactInv, ContactTypeOK
<1>2. UNCHANGED <<attempt, registering, processing, automatic>>
  BY DEF Records
<1> QED
  BY <1>1, <1>2, AttemptsAlone

\* Nor does a change of collector (executeBulkAssign).
LEMMA TransferInvariant ==
    ASSUME ContactInv, NEW c \in Collectors, Transfer(c)
    PROVE  ContactInv'
<1>1. recorded' \in [Authors -> Nat]
  <2>1. \E authors : recorded' = MoreRecords(authors)
    BY DEF Transfer
  <2> QED
    BY <2>1, MoreRecordsType DEF ContactInv, ContactTypeOK
<1>2. holder' \in Collectors \cup {Unassigned} /\ UNCHANGED <<attempt, registering, processing, automatic>>
  BY DEF Transfer
<1> QED
  BY <1>1, <1>2, AttemptsAlone

\* Every step of the attempts.
LEMMA ContactNextInvariant == ContactInv /\ [ContactNext]_contactVars => ContactInv'
<1> SUFFICES ASSUME ContactInv, [ContactNext]_contactVars PROVE ContactInv'
  OBVIOUS
<1>1. CASE UNCHANGED contactVars
  <2>1. recorded' \in [Authors -> Nat] /\ holder' \in Collectors \cup {Unassigned}
    BY <1>1 DEF contactVars, ContactInv, ContactTypeOK
  <2>2. UNCHANGED <<attempt, registering, processing, automatic>>
    BY <1>1 DEF contactVars
  <2> QED
    BY <2>1, <2>2, AttemptsAlone
<1>2. CASE ContactNext
  BY <1>2, TouchInvariant, RegisterReadInvariant, RegisterCommitInvariant, RegisterFailsInvariant,
     ProcessReadInvariant, ProcessCommitInvariant, ProcessFailsInvariant, RecordsInvariant, TransferInvariant
     DEF ContactNext
<1> QED
  BY <1>1, <1>2

\* Registrations of one author exclude each other and processes never share an
\* attempt, in every reachable state (register, process).
THEOREM ContactInvariance == ContactSpec => []ContactInv
BY ContactInitially, ContactNextInvariant, PTL DEF ContactSpec

\* An attempt is answered by one follow-up or none, and an author waits for one
\* attempt at a time, for any number of screens, requests and processes (process).
THEOREM AttemptsAnsweredOnce == ContactSpec => []AttemptAnsweredOnce
<1>1. ContactInv => AttemptAnsweredOnce
  BY DEF ContactInv
<1> QED
  BY <1>1, ContactInvariance, PTL
=============================================================================
