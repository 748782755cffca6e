--------------------------- MODULE SettlementPlan ---------------------------
(***************************************************************************)
(* planPromiseSettlements: which visible receipt settles which promise.    *)
(* A pure function of the promises, the receipts, the allocations already  *)
(* made and the time; it never guesses between two promises, and it leaves *)
(* alone a (customer, currency) group whose books do not add up.           *)
(*                                                                         *)
(* A book maps promise identities to records with the fields status,       *)
(* customer, currency, expected, fulfilled, due, promisedOn, createdAt and *)
(* missed.  A receipt row has key, customer, currency, amount, at and      *)
(* precision.  Instants are ticks of a clock, amounts whole units.         *)
(***************************************************************************)
EXTENDS Integers, FiniteSets, FiniteSetsExt, Folds

CONSTANTS TicksPerDay, \* instants the model tells apart in a day
          None         \* SQL NULL

ASSUME TicksAssumption == TicksPerDay \in Nat \ {0}

Day(t) == t \div TicksPerDay

Group(x) == <<x.customer, x.currency>>

Eligible == {"upcoming", "due_today", "partially_fulfilled", "unfulfilled"}

AmountOf(A) == MapThenSumSet(LAMBDA a : a.amount, A)
ToPromise(A, p) == AmountOf({a \in A : a.promise = p})
FromReceipt(A, k) == AmountOf({a \in A : a.receipt = k})

-----------------------------------------------------------------------------
(* Groups whose books do not add up are left for review.                   *)

\* Two rows of one receipt that disagree.
Contradictory(rows) ==
    {Group(r) : r \in {x \in rows : \E y \in rows :
        x.key = y.key /\ <<Group(x), x.amount, Day(x.at)>> # <<Group(y), y.amount, Day(y.at)>>}}

\* An allocation whose receipt has gone or has changed.
Unbacked(rows, alloc) ==
    {Group(a) : a \in {x \in alloc :
        ~ \E r \in rows : /\ r.key = x.receipt /\ r.amount = x.of
                          /\ Group(r) = Group(x) /\ Day(r.at) = x.day}}

\* What the promise itself claims was paid.
Reported(b) == IF b.status = "fulfilled" THEN b.expected ELSE b.fulfilled

\* Paid by hand with no receipt behind it, or allocated more than is expected.
OutOfBalance(book, alloc) ==
    {Group(book[p]) : p \in {q \in DOMAIN book :
        \/ Reported(book[q]) > ToPromise(alloc, q)
        \/ ToPromise(alloc, q) > book[q].expected}}

Blocked(book, rows, alloc) ==
    Contradictory(rows) \cup Unbacked(rows, alloc) \cup OutOfBalance(book, alloc)

-----------------------------------------------------------------------------

\* The promises a receipt could be for, P being what earlier receipts of the plan
\* gave.
Candidates(book, alloc, P, r) ==
    {p \in DOMAIN book :
        /\ Group(book[p]) = Group(r)
        /\ book[p].status \in Eligible
        /\ book[p].promisedOn <= Day(r.at)
        /\ book[p].expected > ToPromise(alloc, p) + ToPromise(P, p)}

\* With several candidates nobody gets the receipt (and, with FirstFit, the slip of
\* giving it to whichever was promised first).
FirstFit(book, alloc, P, r) ==
    {p \in Candidates(book, alloc, P, r) :
        \A q \in Candidates(book, alloc, P, r) : book[p].createdAt <= book[q].createdAt}
OnlyCandidate(book, alloc, P, r) ==
    {p \in Candidates(book, alloc, P, r) : Candidates(book, alloc, P, r) = {p}}

\* The receipt is certainly not older than the record of the promise.
After(b, r, now) ==
    IF r.precision = "day" THEN Day(r.at) > Day(b.createdAt)
                           ELSE b.createdAt <= r.at /\ r.at <= now

Lesser(m, n) == IF m < n THEN m ELSE n

\* What earlier runs left of a receipt (and, with Whole, the slip of forgetting them).
Whole(alloc, r) == r.amount
Left(alloc, r) == r.amount - FromReceipt(alloc, r.key)

Allot(book, alloc, P, r, p) ==
    [promise |-> p, receipt |-> r.key, of |-> r.amount, day |-> Day(r.at),
     customer |-> r.customer, currency |-> r.currency,
     amount |-> Lesser(Left(alloc, r), book[p].expected - (ToPromise(alloc, p) + ToPromise(P, p)))]

\* One row per receipt, identical rows counting once.
Distinct(rows) == {CHOOSE r \in rows : r.key = k : k \in {x.key : x \in rows}}

\* The planner's order is by day, then by key; this is the last row of a set in it.
Last(rows) ==
    CHOOSE x \in rows : \A y \in rows :
       Day(y.at) < Day(x.at) \/ (Day(y.at) = Day(x.at) /\ y.key <= x.key)

\* The rows to insert, and with them the promises to change.
Plan(book, rows, alloc, now, selected) ==
    LET blocked == Blocked(book, rows, alloc)
        usable == {r \in Distinct(rows) :
                      /\ Group(r) \notin blocked
                      /\ Day(r.at) <= Day(now)
                      /\ Left(alloc, r) > 0}
        take(r, P) ==
            P \cup {Allot(book, alloc, P, r, p) :
                       p \in {q \in OnlyCandidate(book, alloc, P, r) :
                                 q \in selected /\ After(book[q], r, now)}}
    IN MapThenFoldSet(take, {}, LAMBDA r : r, Last, usable)

-----------------------------------------------------------------------------
(* The change each planned promise gets, alloc holding the new rows too.   *)

Completed(book, alloc, p) == ToPromise(alloc, p) >= book[p].expected

StatusAfter(book, alloc, p) ==
    IF Completed(book, alloc, p) THEN "fulfilled"
    ELSE IF book[p].status = "unfulfilled" THEN "unfulfilled" ELSE "partially_fulfilled"

\* The day of the receipt the plan gave it last, which is the latest of those it
\* gave; a later day of an earlier run is overwritten.
LastDay(new, p) ==
    CHOOSE d \in {n.day : n \in {x \in new : x.promise = p}} :
       \A n \in new : n.promise = p => n.day <= d

\* The due date it broke, kept once recorded (and, with Forgotten, dropped again).
Forgotten(book, alloc, new, now, p) == None
Missed(book, alloc, new, now, p) ==
    IF book[p].missed # None THEN book[p].missed
    ELSE IF \/ book[p].status = "unfulfilled"
            \/ Completed(book, alloc, p) /\ LastDay(new, p) > book[p].due
            \/ ~ Completed(book, alloc, p) /\ Day(now) > book[p].due
         THEN book[p].due ELSE None

-----------------------------------------------------------------------------
(* The database's own guard on every inserted row.                         *)

\* guard_promise_receipt_allocation
Accepted(book, alloc, new, n) ==
    /\ 0 < n.amount /\ n.amount <= n.of
    /\ Group(book[n.promise]) = Group(n)
    /\ \A a \in alloc : a.receipt = n.receipt =>
          a.of = n.of /\ Group(a) = Group(n) /\ a.day = n.day
    /\ FromReceipt(alloc, n.receipt) + FromReceipt(new, n.receipt) <= n.of
    /\ ToPromise(alloc, n.promise) + ToPromise(new, n.promise) <= book[n.promise].expected

\* uq_promise_receipt_allocation
NotRepeated(alloc, new) ==
    \A n \in new, a \in alloc : a.receipt = n.receipt => a.promise # n.promise
=============================================================================
