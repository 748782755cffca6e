------------------------------ MODULE Promises ------------------------------
(***************************************************************************)
(* Payment promises (PromisesService), their tasks, their settlement by    *)
(* receipts (PromiseSettlementService) and their reminders                 *)
(* (PromiseReminderScheduler), over the tables payment_promises, tasks,    *)
(* payment_promise_receipt_allocations and notifications.                  *)
(*                                                                         *)
(* As in Collections, a handler occupies a slot, reads first and writes in *)
(* one transaction later.  Most of these writes are unconditional updates  *)
(* by identity, so what the first step saw may be stale.  A settlement is  *)
(* one step: it runs at SERIALIZABLE under a lock per organization, and a  *)
(* promise changed under it makes it roll back.  The book of receipts it   *)
(* reads (local collections and the Oracle mirror) changes freely.  The    *)
(* merge of a customer with another, and taking it back, move promises and *)
(* local receipts, while the allocations keep the customer they were for.  *)
(***************************************************************************)
EXTENDS SettlementPlan, Sequences

CONSTANTS Promises,    \* promise identities
          Customers, Collectors, Currencies,
          ReceiptRows, \* rows the receipt books may show
          Amounts,     \* amounts a person may type, in units
          PromiseDates, DueDates, \* days a person may type
          Slots,       \* handlers running at the same time
          Moving,      \* customers whose assignments change
          MaxTime,     \* bound on the clock
          MaxTasks,    \* bound on the task table
          MaxChanges   \* the settlement's own limit on one run

ASSUME ChoicesAssumption ==
    /\ Moving \subseteq Customers /\ PromiseDates \cup DueDates \subseteq 0 .. MaxTime \div TicksPerDay
    /\ Amounts \subseteq Nat \ {0} /\ None \notin Nat
ASSUME RowsAssumption ==
    \A r \in ReceiptRows :
       /\ {"key", "customer", "currency", "amount", "at", "precision"} = DOMAIN r
       /\ r.amount \in Nat \ {0} /\ r.at \in 0 .. MaxTime
       /\ r.key \in Nat /\ r.precision \in {"day", "timestamp"}

VARIABLES now,       \* the clock
          assigned,  \* current customer_assignments
          status,    \* payment_promises.status, "absent" before the row exists
          terms,     \* what is written once: whose promise it is, and when made
          due,       \* due_date
          expected,  \* expected_amount
          fulfilled, \* fulfilled_amount
          missed,    \* missed_due_date
          tasks,     \* tasks with a source promise, in order of creation
          rows,      \* receipt rows now visible
          alloc,     \* payment_promise_receipt_allocations
          merges,    \* active customer_merges, and what each has moved
          reminders, \* how often each promise was reminded of on each day
          op         \* what each slot is doing and what it read

promises == <<status, terms, due, expected, fulfilled, missed>>
vars == <<now, assigned, promises, tasks, rows, alloc, merges, reminders, op>>

Days == 0 .. Day(MaxTime)
Today == Day(now)
Open == {"upcoming", "due_today", "partially_fulfilled"}
Final == {"fulfilled", "unfulfilled", "cancelled_approved"}
Exists(p) == status[p] # "absent"

Idle == [phase |-> "idle"]

Init ==
    /\ now = 0
    /\ assigned = Customers \X Collectors
    /\ status = [p \in Promises |-> "absent"]
    /\ terms = [p \in Promises |-> None]
    /\ due = [p \in Promises |-> None]
    /\ expected = [p \in Promises |-> 0]
    /\ fulfilled = [p \in Promises |-> 0]
    /\ missed = [p \in Promises |-> None]
    /\ tasks = <<>>
    /\ rows = {}
    /\ alloc = {}
    /\ merges = {}
    /\ reminders = [x \in Promises \X Days |-> 0]
    /\ op = [s \in Slots |-> Idle]

Begin(s, o) == op[s] = Idle /\ op' = [op EXCEPT ![s] = o]
Become(s, o) == op' = [op EXCEPT ![s] = o]
Free(s) == Become(s, Idle)
ReadOnly == UNCHANGED <<now, assigned, promises, tasks, rows, alloc, merges, reminders>>

\* statusForDueDate
ForDueDate(d) == IF d <= Today THEN "due_today" ELSE "upcoming"

\* UPDATE tasks .. WHERE: f(t) replaces each task that satisfies match(t).
Updated(seq, match(_), f(_)) ==
    [i \in DOMAIN seq |-> IF match(seq[i]) THEN f(seq[i]) ELSE seq[i]]
Close(seq, match(_), to) == Updated(seq, match, LAMBDA t : [t EXCEPT !.status = to])
NewTask(p, type, d) == [promise |-> p, type |-> type, status |-> "open", due |-> d]
OpenOf(p, t) == t.promise = p /\ t.status = "open"

-----------------------------------------------------------------------------
(* A person makes a promise, and edits it.                                 *)

\* Today's open work on the customer is done with; it is closed by customer and
\* collector, whichever promise it came from.
DueToday(c, k, t) ==
    /\ terms[t.promise].customer = c /\ terms[t.promise].collector = k
    /\ t.status = "open" /\ t.due <= Today

CreateRead(s, c, k, cur, d, a, from) ==
    /\ <<c, k>> \in assigned
    /\ Begin(s, [phase |-> "create", customer |-> c, collector |-> k, currency |-> cur,
                 due |-> d, amount |-> a, from |-> from, status |-> ForDueDate(d)])
    /\ ReadOnly

CreateCommit(s, p) ==
    LET o == op[s] IN
    /\ o.phase = "create" /\ ~ Exists(p) /\ Len(tasks) < MaxTasks
    /\ status' = [status EXCEPT ![p] = o.status]
    /\ terms' = [terms EXCEPT ![p] =
                   [customer |-> o.customer, collector |-> o.collector, currency |-> o.currency,
                    promisedOn |-> o.from, createdAt |-> now]]
    /\ due' = [due EXCEPT ![p] = o.due]
    /\ expected' = [expected EXCEPT ![p] = o.amount]
    /\ tasks' = Append(Close(tasks, LAMBDA t : DueToday(o.customer, o.collector, t), "done"),
                       NewTask(p, "promise_due", o.due))
    /\ Free(s)
    /\ UNCHANGED <<now, assigned, fulfilled, missed, rows, alloc, merges, reminders>>

\* The due date, the amount or both (None for what the request leaves out).
UpdateRead(s, p, d, a) ==
    /\ Exists(p) /\ status[p] \notin Final
    /\ d # None => d >= Today
    /\ Begin(s, [phase |-> "update", promise |-> p, due |-> d, amount |-> a,
                 status |-> IF d = None THEN None ELSE ForDueDate(d)])
    /\ ReadOnly

\* What the request leaves out stays.
Given(x, old) == IF x = None THEN old ELSE x

\* The promise's open due task follows its due date.
Reschedule(seq, p, d) ==
    Updated(seq, LAMBDA t : OpenOf(p, t) /\ t.type = "promise_due",
                 LAMBDA t : [t EXCEPT !.due = d])

UpdateCommit(s) ==
    LET o == op[s] IN
    /\ o.phase = "update"
    /\ status' = [status EXCEPT ![o.promise] = Given(o.status, @)]
    /\ due' = [due EXCEPT ![o.promise] = Given(o.due, @)]
    /\ expected' = [expected EXCEPT ![o.promise] = Given(o.amount, @)]
    /\ tasks' = IF o.due = None THEN tasks ELSE Reschedule(tasks, o.promise, o.due)
    /\ Free(s)
    /\ UNCHANGED <<now, assigned, terms, fulfilled, missed, rows, alloc, merges, reminders>>

\* ALLOWED_TRANSITIONS: from any open status to each of these, from a final one to
\* none.  m is the amount of a partial payment, d the new date of a postponement.
SetStatusRead(s, p, to, m, d) ==
    /\ status[p] \in Open
    /\ to \in {"partially_fulfilled"} <=> m # None
    /\ m # None => 0 < m /\ m < expected[p]
    /\ to = "postponed" <=> d # None
    /\ d # None => d > Today
    /\ Begin(s, [phase |-> "set", promise |-> p, to |-> to, due |-> d,
                 paid |-> IF to = "fulfilled" THEN expected[p] ELSE m])
    /\ ReadOnly

\* The tasks of a promise that reached a final status (and, with DueTaskOnly, the slip
\* of overlooking its escalations).
DueTaskOnly(seq, p, to) ==
    Close(seq, LAMBDA t : OpenOf(p, t) /\ t.type = "promise_due",
          IF to = "unfulfilled" THEN "escalated" ELSE "done")
Finished(seq, p, to) ==
    Close(seq, LAMBDA t : OpenOf(p, t), IF to = "unfulfilled" THEN "escalated" ELSE "done")

SetStatusCommit(s) ==
    LET o == op[s]
        p == o.promise
        after == IF o.to \in Final THEN Finished(tasks, p, o.to)
                 ELSE IF o.to = "postponed" THEN Reschedule(tasks, p, o.due) ELSE tasks
    IN
    /\ o.phase = "set"
    /\ o.to = "unfulfilled" => Len(tasks) < MaxTasks
    /\ status' = [status EXCEPT ![p] = IF o.to = "postponed" THEN ForDueDate(o.due) ELSE o.to]
    /\ fulfilled' = [fulfilled EXCEPT ![p] = Given(o.paid, @)]
    /\ due' = [due EXCEPT ![p] = Given(o.due, @)]
    /\ tasks' = IF o.to = "unfulfilled"
                THEN Append(after, NewTask(p, "promise_escalation", Today)) ELSE after
    /\ Free(s)
    /\ UNCHANGED <<now, assigned, terms, expected, missed, rows, alloc, merges, reminders>>

\* A receipt recorded for the customer closes the collector's due work on it, and so
\* does a person who ticks a task off (complete asks for no status).
CloseDue(c, k) ==
    /\ tasks' = Close(tasks, LAMBDA t : DueToday(c, k, t), "done")
    /\ UNCHANGED <<now, assigned, promises, rows, alloc, merges, reminders, op>>

CompleteTask(i) ==
    /\ tasks' = [tasks EXCEPT ![i].status = "done"]
    /\ UNCHANGED <<now, assigned, promises, rows, alloc, merges, reminders, op>>

-----------------------------------------------------------------------------
(* Settlement by receipts.                                                 *)

Book ==
    [p \in {q \in Promises : Exists(q)} |->
        [status |-> status[p], customer |-> terms[p].customer, currency |-> terms[p].currency,
         promisedOn |-> terms[p].promisedOn, createdAt |-> terms[p].createdAt,
         expected |-> expected[p], fulfilled |-> fulfilled[p], due |-> due[p], missed |-> missed[p]]]

\* It reads the allocations that were for a customer who has promises now.
Loaded == {a \in alloc : \E p \in Promises : Exists(p) /\ terms[p].customer = a.customer}

\* Everything a settlement of the selected promises writes; it happens only if the
\* plan is within the limit and the database accepts each of its rows, otherwise
\* the transaction rolls back as a whole.
Settle(selected) ==
    LET new == Plan(Book, rows, Loaded, now, selected)
        seen == Loaded \cup new
        changed == {n.promise : n \in new}
        paid == {p \in changed : StatusAfter(Book, seen, p) = "fulfilled"}
    IN
    /\ Cardinality(changed) <= MaxChanges
    /\ (\A n \in new : Accepted(Book, alloc, new, n)) /\ NotRepeated(alloc, new)
    /\ alloc' = alloc \cup new
    /\ status' = [p \in Promises |-> IF p \in changed THEN StatusAfter(Book, seen, p) ELSE status[p]]
    /\ fulfilled' = [p \in Promises |-> IF p \in changed THEN ToPromise(seen, p) ELSE fulfilled[p]]
    /\ missed' = [p \in Promises |-> IF p \in changed THEN Missed(Book, seen, new, now, p) ELSE missed[p]]
    /\ tasks' = Close(tasks, LAMBDA t : t.promise \in paid /\ t.status \in {"open", "escalated"},
                      "done")
    /\ UNCHANGED <<now, assigned, terms, due, expected, rows, merges, reminders>>

\* The scheduler's tick (every promise), or a person applying a previewed plan.
SettleTick(selected) == Settle(selected) /\ UNCHANGED op

-----------------------------------------------------------------------------
(* The sweep of overdue promises, run when a day's task list is opened or  *)
(* generated: settle, read what is still overdue, escalate one by one.     *)

SweepBegin(s) == Begin(s, [phase |-> "swept"]) /\ Settle(Promises)

SweepRead(s) ==
    LET overdue == {p \in Promises : status[p] \in Open /\ due[p] < Today} IN
    /\ op[s].phase = "swept"
    /\ Become(s, [phase |-> "sweep", today |-> Today,
                  todo |-> {<<p, Given(missed[p], due[p])>> : p \in overdue}])
    /\ ReadOnly

\* Still open and still late, or somebody resolved it meanwhile (and, with
\* StillListed, the slip of trusting the list).
StillListed(p, today) == TRUE
StillOverdue(p, today) == status[p] \in Open /\ due[p] < today

SweepOne(s, x) ==
    LET o == op[s]  p == x[1] IN
    /\ o.phase = "sweep" /\ x \in o.todo
    /\ Become(s, [o EXCEPT !.todo = @ \ {x}])
    /\ IF StillOverdue(p, o.today)
       THEN /\ Len(tasks) < MaxTasks
            /\ status' = [status EXCEPT ![p] = "unfulfilled"]
            /\ missed' = [missed EXCEPT ![p] = x[2]]
            /\ tasks' = Append(Close(tasks, LAMBDA t : OpenOf(p, t), "escalated"),
                               NewTask(p, "promise_escalation", o.today))
       ELSE UNCHANGED <<status, missed, tasks>>
    /\ UNCHANGED <<now, assigned, terms, due, expected, fulfilled, rows, alloc, merges, reminders>>

SweepEnd(s) ==
    /\ op[s].phase = "sweep" /\ op[s].todo = {}
    /\ status' = [p \in Promises |->
                    IF status[p] = "upcoming" /\ due[p] = op[s].today THEN "due_today"
                    ELSE status[p]]
    /\ Free(s)
    /\ UNCHANGED <<now, assigned, terms, due, expected, fulfilled, missed, tasks, rows, alloc, merges, reminders>>

-----------------------------------------------------------------------------
(* Reminders, by the tick or by the endpoint that runs them at once.       *)

RemindRead(s) ==
    LET listed == {p \in Promises : status[p] \in Open \cup {"unfulfilled"} /\ due[p] <= Today} IN
    /\ Begin(s, [phase |-> "remind", day |-> Today, todo |-> listed, one |-> None,
                 waking |-> {p \in listed : status[p] = "upcoming" /\ due[p] = Today}])
    /\ ReadOnly

\* Is there a reminder of the promise for the day (and, with NeverReminded, the slip
\* of not asking)?
NeverReminded(p, day) == FALSE
Reminded(p, day) == reminders[<<p, day>>] > 0

RemindCheck(s, p) ==
    LET o == op[s] IN
    /\ o.phase = "remind" /\ o.one = None /\ p \in o.todo
    /\ Become(s, [o EXCEPT !.todo = @ \ {p},
                           !.one = IF Reminded(p, o.day) THEN None ELSE p])
    /\ ReadOnly

RemindWrite(s) ==
    LET o == op[s]  p == o.one IN
    /\ o.phase = "remind" /\ p # None
    /\ reminders' = [reminders EXCEPT ![<<p, o.day>>] = @ + 1]
    /\ status' = [status EXCEPT ![p] = IF p \in o.waking THEN "due_today" ELSE @]
    /\ Become(s, [o EXCEPT !.one = None])
    /\ UNCHANGED <<now, assigned, terms, due, expected, fulfilled, missed, tasks, rows, alloc, merges>>

RemindEnd(s) ==
    /\ op[s].phase = "remind" /\ op[s].todo = {} /\ op[s].one = None
    /\ Free(s)
    /\ ReadOnly

-----------------------------------------------------------------------------

\* The process stops, or a statement fails, between two transactions.
Fail(s) == op[s] # Idle /\ Free(s) /\ ReadOnly

Tick ==
    /\ now < MaxTime /\ now' = now + 1
    /\ UNCHANGED <<assigned, promises, tasks, rows, alloc, merges, reminders, op>>

\* Assignments change elsewhere.
Reassign(c, k) ==
    /\ assigned' = IF <<c, k>> \in assigned THEN assigned \ {<<c, k>>} ELSE assigned \cup {<<c, k>>}
    /\ UNCHANGED <<now, promises, tasks, rows, alloc, merges, reminders, op>>

\* A local receipt is shown with the customer who has it; its key says nothing of
\* customers, while Oracle's keys contain them.
Local(r) == r.precision = "timestamp"
BookRows == ReceiptRows \cup {[r EXCEPT !.customer = c] : r \in {x \in ReceiptRows : Local(x)}, c \in Customers}

\* A local receipt appears but once: the key of a row that has gone is a new
\* receipt's only where nothing refers to it any more.
Known(k) ==
    \/ \E r \in rows : r.key = k
    \/ \E a \in alloc : a.receipt = k
    \/ \E g \in merges : k \in g.receipts

\* A receipt is recorded, reversed, or arrives, goes or changes with a new mirror.
ShowRow(r) ==
    /\ r \notin rows /\ rows' = rows \cup {r}
    /\ Local(r) => ~ Known(r.key)
    /\ UNCHANGED <<now, assigned, promises, tasks, alloc, merges, reminders, op>>

HideRow(r) ==
    /\ r \in rows /\ rows' = rows \ {r}
    /\ UNCHANGED <<now, assigned, promises, tasks, alloc, merges, reminders, op>>

-----------------------------------------------------------------------------
(* Duplicate customers: what of a merge the promises see (CustomerMerges   *)
(* has the rest).                                                          *)

Holders(c) == {k \in Collectors : <<c, k>> \in assigned}

Moved(to, ps, ks) ==
    /\ terms' = [p \in Promises |-> IF p \in ps THEN [terms[p] EXCEPT !.customer = to] ELSE terms[p]]
    /\ rows' = {IF Local(r) /\ r.key \in ks THEN [r EXCEPT !.customer = to] ELSE r : r \in rows}
    /\ UNCHANGED <<now, status, due, expected, fulfilled, missed, tasks, alloc, reminders, op>>

\* The promises and the local receipts of customer c become customer m's, and so
\* do the assignments unless m has its own.
Merge(c, m) ==
    LET ps == {p \in Promises : Exists(p) /\ terms[p].customer = c}
        ks == {r.key : r \in {x \in rows : Local(x) /\ x.customer = c}}
        takes == Holders(m) = {}
    IN
    /\ c # m /\ \A g \in merges : g.from \notin {c, m}
    /\ Moved(m, ps, ks)
    /\ assigned' = {x \in assigned : x[1] # c} \cup (IF takes THEN {m} \X Holders(c) ELSE {})
    /\ merges' = merges \cup {[from |-> c, to |-> m, promises |-> ps, receipts |-> ks, holders |-> Holders(c),
                              taken |-> takes, until |-> now + TicksPerDay]}

\* Within a day it may be taken back: what was moved returns, by identity.
Undo(g) ==
    LET back == IF g.taken THEN g.holders \cap Holders(g.to) ELSE g.holders IN
    /\ now <= g.until /\ Moved(g.from, g.promises, g.receipts)
    /\ assigned' = (assigned \ (IF g.taken THEN {g.to} \X back ELSE {})) \cup ({g.from} \X back)
    /\ merges' = merges \ {g}

-----------------------------------------------------------------------------
Editing(s) ==
    \/ \E c \in Customers, k \in Collectors, cur \in Currencies, d \in DueDates, a \in Amounts,
          f \in PromiseDates :
          CreateRead(s, c, k, cur, d, a, f)
    \/ \E p \in Promises : CreateCommit(s, p)
    \/ \E p \in Promises, d \in DueDates \cup {None}, a \in Amounts \cup {None} : UpdateRead(s, p, d, a)
    \/ UpdateCommit(s)
    \/ Fail(s)

Deciding(s) ==
    \/ \E p \in Promises, to \in Final \cup {"partially_fulfilled", "postponed"},
          m \in Amounts \cup {None}, d \in DueDates \cup {None} : SetStatusRead(s, p, to, m, d)
    \/ SetStatusCommit(s)

Sweeping(s) ==
    \/ SweepBegin(s)
    \/ SweepRead(s)
    \/ op[s].phase = "sweep" /\ \E x \in op[s].todo : SweepOne(s, x)
    \/ SweepEnd(s)

Reminding(s) ==
    \/ RemindRead(s)
    \/ \E p \in Promises : RemindCheck(s, p)
    \/ RemindWrite(s)
    \/ RemindEnd(s)

Working ==
    \/ \E c \in Customers, k \in Collectors : CloseDue(c, k)
    \/ \E i \in DOMAIN tasks : CompleteTask(i)

Settling == \E selected \in SUBSET Promises \ {{}} : SettleTick(selected)

Merging == (\E c, m \in Customers : Merge(c, m)) \/ \E g \in merges : Undo(g)

Books ==
    \/ \E r \in BookRows : ShowRow(r) \/ HideRow(r)
    \/ \E c \in Moving, k \in Collectors : Reassign(c, k)
    \/ Tick

Next ==
    \/ \E s \in Slots : Editing(s) \/ Deciding(s) \/ Sweeping(s) \/ Reminding(s)
    \/ Working
    \/ Settling
    \/ Merging
    \/ Books

Spec == Init /\ [][Next]_vars
-----------------------------------------------------------------------------
(* Safety.                                                                 *)

\* What was allocated of the receipt or to the promise was for their customer of now:
\* no merge and no undoing has divided it.
Undivided(n) == \A a \in alloc : a.receipt = n.receipt \/ a.promise = n.promise => Group(a) = Group(n)

\* The planner never proposes what the database would refuse on its own account,
\* except where a merge or its undoing has divided a receipt or a promise: no receipt
\* is spent beyond its amount, none goes to another customer or currency, no promise
\* gets more than it expects, although of the allocations the planner reads only
\* those for customers who have promises (planPromiseSettlements).
PlanWithinCapacity ==
    LET new == Plan(Book, rows, Loaded, now, Promises)
    IN \A n \in new : Undivided(n) => Accepted(Book, alloc, new, n)

\* A receipt is given to a promise only if no other promise of the customer could
\* have been meant, before or after the run that gave it (never FIFO).
AttributionIsUnique ==
    [][\A n \in alloc' \ alloc : \A q \in Promises \ {n.promise} :
          /\ Exists(q) /\ Group(terms[q]) = Group(n) /\ terms[q].promisedOn <= n.day
          /\ status[q] \in Eligible
          => ToPromise(alloc', q) >= expected[q]]_vars

\* A promise that is kept or cancelled leaves nobody with an open task for it, and a
\* broken one leaves only escalations, whichever handlers overlap.
FinalLeavesNoWork ==
    \A i \in DOMAIN tasks : LET t == tasks[i] IN
       /\ status[t.promise] \in {"fulfilled", "cancelled_approved"} => t.status # "open"
       /\ status[t.promise] = "unfulfilled" /\ t.status = "open" => t.type = "promise_escalation"

\* The due date a promise first broke is remembered: nothing drops it, and nothing
\* replaces it but a sweep that escalates a promise still open, with the date its
\* list was read with (sweepOverdue, and missedDueDate of the planner).
MissedIsKept ==
    [][\A p \in Promises : missed[p] # None /\ missed'[p] # missed[p] =>
          /\ missed'[p] # None
          /\ status[p] \in Open /\ status'[p] = "unfulfilled"
          /\ \E s \in Slots : op[s].phase = "sweep" /\ <<p, missed'[p]>> \in op[s].todo]_vars

\* A sweep escalates a promise only while it is open: a promise kept, cancelled or
\* already broken when the sweep gets to it is left alone (sweepOverdue).
SweepSpares ==
    [][\A s \in Slots :
          op[s].phase = "sweep" /\ op'[s] # op[s] =>
             \A p \in Promises : status[p] \in Final => status'[p] = status[p]]_vars

\* One scheduler, however often it stops and starts again, reminds of a promise once
\* a day (runForOrganization's look before each insert).
OneReminderADay == \A x \in DOMAIN reminders : reminders[x] <= 1

-----------------------------------------------------------------------------
(* What comments and messages of the code say, and its interleavings deny. *)

\* "final statuses accept no transition": a promise that was kept stays kept.
FulfilledIsFinal ==
    [][\A p \in Promises : status[p] = "fulfilled" => status'[p] = "fulfilled"]_vars
=============================================================================
