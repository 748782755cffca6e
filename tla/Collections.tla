----------------------------- MODULE Collections -----------------------------
(***************************************************************************)
(* The receipts desk of the backend (CollectionsService): recording a      *)
(* receipt, the two-person reversal, the handover vouchers and the cash    *)
(* desk, over the tables collections, operational_ledger,                  *)
(* collection_reversal_requests, collection_handover_vouchers and          *)
(* cash_handover.                                                          *)
(*                                                                         *)
(* A request handler occupies a slot.  It first reads, outside any         *)
(* transaction, and decides (a *Read action); it then runs one             *)
(* transaction, guarded by the conditional updates and unique indexes of   *)
(* the code (a *Commit action, or Conflict when a guard fails); last it    *)
(* writes its audit row (Log).  What the first step saw may be stale when  *)
(* the second runs.  PostgreSQL runs at READ COMMITTED, so a transaction   *)
(* that only makes conditional writes takes effect at its commit; matching *)
(* a voucher reads inside its transaction and overwrites unconditionally   *)
(* afterwards, so it takes two steps, the voucher row staying locked       *)
(* between them.                                                           *)
(***************************************************************************)
EXTENDS Naturals, FiniteSets

CONSTANTS Users,      \* people who call the endpoints
          Overriders, \* those of them that hold periods.override
          Colls,      \* receipt identities
          Holders,    \* (collector, branch, currency) triples
          Periods,    \* accounting months
          Reqs,       \* reversal request identities
          Vouchers,   \* handover voucher identities
          Slots,      \* request handlers running at the same time
          None        \* SQL NULL

ASSUME OverridersAssumption == Overriders \subseteq Users
ASSUME NoneAssumption == None \notin Users \cup Holders \cup Periods

VARIABLES status,      \* collections.status, "absent" before the row exists
          holder,      \* collector, branch and currency of each receipt
          reversedBy,  \* whether reversed_by_id points at a mirror receipt
          ledger,      \* operational_ledger, append-only
          req,         \* collection_reversal_requests
          voucher,     \* collection_handover_vouchers.status
          items,       \* collection_handover_items of each voucher
          nextReceipt, \* branch_receipt_sequences.next_number
          receiptNo,   \* receipt_number of each receipt, 0 before it exists
          nextVoucher, \* branch_voucher_sequences.next_number
          voucherNo,   \* sequence_number of each voucher, 0 before it exists
          cash,        \* receipts with a cash_handover row
          locked,      \* accounting periods with status 'locked'
          audit,       \* audit_logs
          op           \* what each slot is doing and what it read

receipts == <<status, holder, reversedBy>>
vouchers == <<voucher, items>>
numbers == <<nextReceipt, receiptNo, nextVoucher, voucherNo>>
vars == <<status, holder, reversedBy, ledger, req, voucher, items,
          nextReceipt, receiptNo, nextVoucher, voucherNo, cash, locked, audit, op>>

CollStatus == {"absent", "recorded", "handed_to_cashier", "matched", "approved", "reversed"}
VoucherStatus == {"absent", "submitted", "matched", "locked"}
LedgerRow  == [coll : Colls, type : {"collection", "collection_reversal"}, by : Users]
Request    == [status : {"absent"}]
              \cup [status : {"pending"}, coll : Colls, by : Users]
              \cup [status : {"approved", "rejected"}, coll : Colls, by : Users,
                    reviewer : Users, executed : BOOLEAN]

\* Audit rows, by what they are about.
Entry == [action : {"collection_created", "collection_handed_to_cashier"}, coll : Colls]
         \cup [action : {"collection_reversal_requested", "collection_reversal_rejected",
                         "collection_reversed"}, req : Reqs]
         \cup [action : {"handover_voucher_created", "handover_voucher_matched",
                         "handover_voucher_locked"}, voucher : Vouchers]

Idle == [phase |-> "idle"]
Op == {Idle}
      \cup [phase : {"create"}, user : Users, coll : Colls, holder : Holders, period : Periods]
      \cup [phase : {"reverse", "handover"}, user : Users, coll : Colls]
      \cup [phase : {"reject", "approve"}, user : Users, req : Reqs]
      \cup [phase : {"submit"}, user : Users, items : SUBSET Colls, holder : Holders]
      \cup [phase : {"match", "matching", "lock"}, user : Users, voucher : Vouchers]
      \cup [phase : {"log"}, entry : Entry]

TypeOK ==
    /\ status \in [Colls -> CollStatus]
    /\ holder \in [Colls -> Holders \cup {None}]
    /\ reversedBy \in [Colls -> BOOLEAN]
    /\ ledger \subseteq LedgerRow
    /\ req \in [Reqs -> Request]
    /\ voucher \in [Vouchers -> VoucherStatus]
    /\ items \in [Vouchers -> SUBSET Colls]
    /\ nextReceipt \in [Holders -> Nat]
    /\ receiptNo \in [Colls -> Nat]
    /\ nextVoucher \in [Holders -> Nat]
    /\ voucherNo \in [Vouchers -> Nat]
    /\ cash \subseteq Colls
    /\ locked \subseteq Periods
    /\ audit \subseteq Entry
    /\ op \in [Slots -> Op]

Init ==
    /\ status = [c \in Colls |-> "absent"]
    /\ holder = [c \in Colls |-> None]
    /\ reversedBy = [c \in Colls |-> FALSE]
    /\ ledger = {}
    /\ req = [q \in Reqs |-> [status |-> "absent"]]
    /\ voucher = [v \in Vouchers |-> "absent"]
    /\ items = [v \in Vouchers |-> {}]
    /\ nextReceipt = [h \in Holders |-> 1]
    /\ receiptNo = [c \in Colls |-> 0]
    /\ nextVoucher = [h \in Holders |-> 1]
    /\ voucherNo = [v \in Vouchers |-> 0]
    /\ cash = {}
    /\ locked = {}
    /\ audit = {}
    /\ op = [s \in Slots |-> Idle]

-----------------------------------------------------------------------------
(* The constraints of the schema.                                          *)

\* uq_ledger_source: one row per source and entry type.
LedgerHas(c, t) == \E e \in ledger : e.coll = c /\ e.type = t

\* uq_collection_reversal_pending: one pending request per receipt.
PendingOn(c) == \E q \in Reqs : req[q].status = "pending" /\ req[q].coll = c

\* uq_handover_item_collection: a receipt is an item of one voucher.
InVoucher(c) == \E v \in Vouchers : c \in items[v]

\* The second person of a reversal: whoever reviews did not ask
\* (and, with SelfReview, the slip of letting anybody review).
SelfReview(u, q) == TRUE
SecondPerson(u, q) == req[q].by # u

\* A voucher row stays locked from the first statement of its match to the commit.
RowLocked(v) == \E s \in Slots : op[s].phase = "matching" /\ op[s].voucher = v

\* INSERT .. ON CONFLICT DO UPDATE takes the sequence row and moves it on.
Successor(n) == n + 1

Begin(s, o) == op[s] = Idle /\ op' = [op EXCEPT ![s] = o]
ThenLog(s, e) == op' = [op EXCEPT ![s] = [phase |-> "log", entry |-> e]]
Free(s) == op' = [op EXCEPT ![s] = Idle]
ReadOnly == UNCHANGED <<numbers, receipts, ledger, req, vouchers, cash, locked, audit>>

-----------------------------------------------------------------------------
(* Recording a receipt.                                                    *)

\* The period of the receipt is checked before the transaction opens; a holder
\* of periods.override may pass with a reason.
CreateRead(s, u, c, h, p) ==
    /\ status[c] = "absent"
    /\ \A t \in Slots : op[t].phase = "create" => op[t].coll # c    \* fresh identity
    /\ p \in locked => u \in Overriders
    /\ Begin(s, [phase |-> "create", user |-> u, coll |-> c, holder |-> h, period |-> p])
    /\ ReadOnly

\* The transaction.  (The customer's due tasks, which it closes too, are in
\* module Promises.)
CreateCommit(s) ==
    LET o == op[s] IN
    /\ o.phase = "create"
    /\ ~ LedgerHas(o.coll, "collection")
    /\ status' = [status EXCEPT ![o.coll] = "recorded"]
    /\ holder' = [holder EXCEPT ![o.coll] = o.holder]
    /\ reversedBy' = [reversedBy EXCEPT ![o.coll] = FALSE]
    /\ ledger' = ledger \cup {[coll |-> o.coll, type |-> "collection", by |-> o.user]}
    /\ receiptNo' = [receiptNo EXCEPT ![o.coll] = nextReceipt[o.holder]]
    /\ nextReceipt' = [nextReceipt EXCEPT ![o.holder] = Successor(@)]
    /\ ThenLog(s, [action |-> "collection_created", coll |-> o.coll])
    /\ UNCHANGED <<nextVoucher, voucherNo, req, vouchers, cash, locked, audit>>

-----------------------------------------------------------------------------
(* The two-person reversal.                                                *)

ReverseRead(s, u, c) ==
    /\ status[c] \notin {"absent", "reversed"}
    /\ ~ PendingOn(c)
    /\ Begin(s, [phase |-> "reverse", user |-> u, coll |-> c])
    /\ ReadOnly

\* The unique index decides; RequestByEarlierLook trusts the look taken before.
RequestByEarlierLook(c) == TRUE
CanRequest(c) == ~ PendingOn(c)

ReverseCommit(s, q) ==
    LET o == op[s] IN
    /\ o.phase = "reverse"
    /\ CanRequest(o.coll)
    /\ req[q].status = "absent"
    /\ req' = [req EXCEPT ![q] = [status |-> "pending", coll |-> o.coll, by |-> o.user]]
    /\ ThenLog(s, [action |-> "collection_reversal_requested", req |-> q])
    /\ UNCHANGED <<numbers, receipts, ledger, vouchers, cash, locked, audit>>

ReviewRead(s, u, q, approve) ==
    /\ req[q].status = "pending"
    /\ SecondPerson(u, q)
    /\ approve => status[req[q].coll] # "reversed"
    /\ Begin(s, [phase |-> IF approve THEN "approve" ELSE "reject", user |-> u, req |-> q])
    /\ ReadOnly

\* The rejection is an update by id: it does not ask whether the request is
\* still pending.  Only the CHECK reviewed_by <> requested_by guards it.
RejectCommit(s) ==
    LET o == op[s]
        r == req[o.req] IN
    /\ o.phase = "reject"
    /\ SecondPerson(o.user, o.req)
    /\ req' = [req EXCEPT ![o.req] =
                 [status |-> "rejected", coll |-> r.coll, by |-> r.by, reviewer |-> o.user,
                  executed |-> r.status # "pending" /\ r.executed]]
    /\ ThenLog(s, [action |-> "collection_reversal_rejected", req |-> o.req])
    /\ UNCHANGED <<numbers, receipts, ledger, vouchers, cash, locked, audit>>

\* The same with only the receipt's status guarding a second execution, and with
\* no second look at the request.
ExecuteByStatus(u, q) ==
    /\ req[q].status = "pending"
    /\ SecondPerson(u, q)
    /\ status[req[q].coll] # "reversed"
ExecuteStaleRequest(u, q) ==
    LET c == req[q].coll IN
    /\ SecondPerson(u, q)
    /\ ~ LedgerHas(c, "collection_reversal")
    /\ status[c] # "reversed"
    /\ ~ reversedBy[c]

\* executeReversal's three guards, all inside one transaction: the unique ledger
\* row, the conditional update of the receipt, the conditional update of the request.
CanExecute(u, q) ==
    LET c == req[q].coll IN
    /\ req[q].status = "pending"
    /\ SecondPerson(u, q)
    /\ ~ LedgerHas(c, "collection_reversal")
    /\ status[c] # "reversed"
    /\ ~ reversedBy[c]

\* The mirror receipt is born 'reversed', which every operation refuses: it is
\* represented by the reversedBy of the original that points at it.
ApproveCommit(s) ==
    LET o == op[s]
        r == req[o.req] IN
    /\ o.phase = "approve"
    /\ CanExecute(o.user, o.req)
    /\ ledger' = ledger \cup {[coll |-> r.coll, type |-> "collection_reversal", by |-> o.user]}
    /\ status' = [status EXCEPT ![r.coll] = "reversed"]
    /\ reversedBy' = [reversedBy EXCEPT ![r.coll] = TRUE]
    /\ req' = [req EXCEPT ![o.req] = [status |-> "approved", coll |-> r.coll, by |-> r.by,
                                      reviewer |-> o.user, executed |-> TRUE]]
    /\ ThenLog(s, [action |-> "collection_reversed", req |-> o.req])
    /\ UNCHANGED <<numbers, holder, vouchers, cash, locked, audit>>

-----------------------------------------------------------------------------
(* The cash desk: handover vouchers and single receipts.                   *)

SubmitRead(s, u, picked, h) ==
    /\ picked # {}
    /\ \A c \in picked : status[c] = "recorded" /\ ~ InVoucher(c) /\ holder[c] = h
    /\ Begin(s, [phase |-> "submit", user |-> u, items |-> picked, holder |-> h])
    /\ ReadOnly

\* The transaction's count check.
CanSubmit(picked) == \A c \in picked : status[c] = "recorded" /\ ~ InVoucher(c)

SubmitCommit(s, v) ==
    LET picked == op[s].items IN
    /\ op[s].phase = "submit"
    /\ CanSubmit(picked)
    /\ voucher[v] = "absent"
    /\ voucher' = [voucher EXCEPT ![v] = "submitted"]
    /\ items' = [items EXCEPT ![v] = picked]
    /\ status' = [c \in Colls |-> IF c \in picked THEN "handed_to_cashier" ELSE status[c]]
    /\ voucherNo' = [voucherNo EXCEPT ![v] = nextVoucher[op[s].holder]]
    /\ nextVoucher' = [nextVoucher EXCEPT ![op[s].holder] = Successor(@)]
    /\ ThenLog(s, [action |-> "handover_voucher_created", voucher |-> v])
    /\ UNCHANGED <<nextReceipt, receiptNo, holder, reversedBy, ledger, req, cash, locked, audit>>

MatchRead(s, u, v) ==
    /\ voucher[v] = "submitted"
    /\ Begin(s, [phase |-> "match", user |-> u, voucher |-> v])
    /\ ReadOnly

\* The transaction's first two statements: the conditional update takes the
\* voucher row, then the receipts are read, without locking them.
CanStartMatch(v) ==
    /\ voucher[v] = "submitted"
    /\ \A c \in items[v] : status[c] = "handed_to_cashier"

MatchTx(s) ==
    /\ op[s].phase = "match"
    /\ ~ RowLocked(op[s].voucher)
    /\ CanStartMatch(op[s].voucher)
    /\ op' = [op EXCEPT ![s] = [phase |-> "matching", user |-> op[s].user,
                                voucher |-> op[s].voucher]]
    /\ ReadOnly

\* The rest of the transaction: every item becomes 'matched', whatever it is now,
\* and gets its cash_handover row (unique per receipt).
CanFinishMatch(v) == items[v] \cap cash = {}

\* A match that forgets the receipts.
MatchHeaderOnly(s) ==
    LET v == op[s].voucher IN
    /\ op[s].phase = "matching"
    /\ CanFinishMatch(v)
    /\ voucher' = [voucher EXCEPT ![v] = "matched"]
    /\ cash' = cash \cup items[v]
    /\ ThenLog(s, [action |-> "handover_voucher_matched", voucher |-> v])
    /\ UNCHANGED <<numbers, receipts, items, ledger, req, locked, audit>>

MatchCommit(s) ==
    LET v == op[s].voucher IN
    /\ op[s].phase = "matching"
    /\ CanFinishMatch(v)
    /\ voucher' = [voucher EXCEPT ![v] = "matched"]
    /\ status' = [c \in Colls |-> IF c \in items[v] THEN "matched" ELSE status[c]]
    /\ cash' = cash \cup items[v]
    /\ ThenLog(s, [action |-> "handover_voucher_matched", voucher |-> v])
    /\ UNCHANGED <<numbers, holder, reversedBy, items, ledger, req, locked, audit>>

LockRead(s, u, v) ==
    /\ voucher[v] = "matched"
    /\ Begin(s, [phase |-> "lock", user |-> u, voucher |-> v])
    /\ ReadOnly

CanLock(v) ==
    /\ voucher[v] = "matched"
    /\ \A c \in items[v] : status[c] = "matched"

LockCommit(s) ==
    LET v == op[s].voucher IN
    /\ op[s].phase = "lock"
    /\ CanLock(v)
    /\ voucher' = [voucher EXCEPT ![v] = "locked"]
    /\ status' = [c \in Colls |-> IF c \in items[v] THEN "approved" ELSE status[c]]
    /\ ThenLog(s, [action |-> "handover_voucher_locked", voucher |-> v])
    /\ UNCHANGED <<numbers, holder, reversedBy, items, ledger, req, cash, locked, audit>>

HandoverRead(s, u, c) ==
    /\ status[c] = "recorded"
    /\ Begin(s, [phase |-> "handover", user |-> u, coll |-> c])
    /\ ReadOnly

\* The conditional update and the unique cash row; HandoverByCash keeps only the
\* latter, HandoverWhatWasRead neither (an update by id, the cash row upserted).
HandoverWhatWasRead(c) == TRUE
HandoverByCash(c) == c \notin cash
CanHandover(c) == status[c] = "recorded" /\ c \notin cash

HandoverCommit(s) ==
    LET c == op[s].coll IN
    /\ op[s].phase = "handover"
    /\ CanHandover(c)
    /\ status' = [status EXCEPT ![c] = "handed_to_cashier"]
    /\ cash' = cash \cup {c}
    /\ ThenLog(s, [action |-> "collection_handed_to_cashier", coll |-> c])
    /\ UNCHANGED <<numbers, holder, reversedBy, ledger, req, vouchers, locked, audit>>

-----------------------------------------------------------------------------
(* What every handler shares.                                              *)

\* A conditional update that touched the wrong number of rows, or a unique
\* violation: the transaction rolls back and the caller gets a 409.
Conflict(s) ==
    LET o == op[s] IN
    /\ \/ o.phase = "create"   /\ LedgerHas(o.coll, "collection")
       \/ o.phase = "reverse"  /\ ~ CanRequest(o.coll)
       \/ o.phase = "reject"   /\ ~ SecondPerson(o.user, o.req)
       \/ o.phase = "approve"  /\ ~ CanExecute(o.user, o.req)
       \/ o.phase = "submit"   /\ ~ CanSubmit(o.items)
       \/ o.phase = "match"    /\ ~ RowLocked(o.voucher) /\ ~ CanStartMatch(o.voucher)
       \/ o.phase = "matching" /\ ~ CanFinishMatch(o.voucher)
       \/ o.phase = "lock"     /\ ~ CanLock(o.voucher)
       \/ o.phase = "handover" /\ ~ CanHandover(o.coll)
    /\ Free(s)
    /\ ReadOnly

\* AuditService.log runs after the commit, in a statement of its own.
Log(s) ==
    /\ op[s].phase = "log"
    /\ audit' = audit \cup {op[s].entry}
    /\ Free(s)
    /\ UNCHANGED <<numbers, receipts, ledger, req, vouchers, cash, locked>>

\* The server stops or the connection drops: an open transaction rolls back, a
\* committed one stays, and an audit row not yet written never is.
Fail(s) ==
    /\ op[s] # Idle
    /\ Free(s)
    /\ ReadOnly

\* An upsert that loses its key, and the upsert.
LockUnkeyed(p) ==
    /\ locked' = locked \cup {None}
    /\ UNCHANGED <<numbers, receipts, ledger, req, vouchers, cash, audit, op>>

LockPeriod(p) ==
    /\ locked' = locked \cup {p}
    /\ UNCHANGED <<numbers, receipts, ledger, req, vouchers, cash, audit, op>>

UnlockPeriod(p) ==
    /\ locked' = locked \ {p}
    /\ UNCHANGED <<numbers, receipts, ledger, req, vouchers, cash, audit, op>>

Next ==
    \/ \E s \in Slots, u \in Users :
          \/ \E c \in Colls, h \in Holders, p \in Periods : CreateRead(s, u, c, h, p)
          \/ \E c \in Colls : ReverseRead(s, u, c)
          \/ \E q \in Reqs, approve \in BOOLEAN : ReviewRead(s, u, q, approve)
          \/ \E picked \in SUBSET Colls, h \in Holders : SubmitRead(s, u, picked, h)
          \/ \E v \in Vouchers : MatchRead(s, u, v)
          \/ \E v \in Vouchers : LockRead(s, u, v)
          \/ \E c \in Colls : HandoverRead(s, u, c)
    \/ \E s \in Slots :
          \/ CreateCommit(s)
          \/ \E q \in Reqs : ReverseCommit(s, q)
          \/ RejectCommit(s)
          \/ ApproveCommit(s)
          \/ \E v \in Vouchers : SubmitCommit(s, v)
          \/ MatchTx(s)
          \/ MatchCommit(s)
          \/ LockCommit(s)
          \/ HandoverCommit(s)
          \/ Conflict(s)
          \/ Log(s)
          \/ Fail(s)
    \/ \E p \in Periods : LockPeriod(p) \/ UnlockPeriod(p)

Spec == Init /\ [][Next]_vars
-----------------------------------------------------------------------------
(* Safety.                                                                 *)

\* The ledger charges a receipt at most once and reverses it at most once, never
\* without the charge; and a receipt points at a mirror exactly when the ledger
\* holds its reversal, whatever the concurrent reviews and cash-desk steps did to
\* its status (executeReversal's three guards).
LedgerSound ==
    /\ \A e, f \in ledger : e.coll = f.coll /\ e.type = f.type => e = f
    /\ \A c \in Colls : LedgerHas(c, "collection") <=> status[c] # "absent"
    /\ \A c \in Colls : LedgerHas(c, "collection_reversal") <=> reversedBy[c]
    /\ \A c \in Colls : reversedBy[c] => status[c] # "absent"

\* Every reversal in the ledger was asked for by one person and executed by
\* another, through exactly one request; and a request that says 'approved' did
\* reverse its receipt (reviewReversal with executeReversal).
ReversalTakesTwo ==
    /\ \A e \in ledger : e.type = "collection_reversal" =>
          \E q \in Reqs : /\ req[q].status \in {"approved", "rejected"}
                          /\ req[q].coll = e.coll /\ req[q].executed /\ req[q].by # e.by
    /\ \A q \in Reqs : req[q].status \in {"approved", "rejected"} =>
          /\ req[q].reviewer # req[q].by
          /\ req[q].status = "approved" => req[q].executed
          /\ req[q].executed => reversedBy[req[q].coll]
    /\ \A q, r \in Reqs :
          /\ req[q].status \in {"approved", "rejected"} /\ req[q].executed
          /\ req[r].status \in {"approved", "rejected"} /\ req[r].executed
          /\ req[q].coll = req[r].coll
          => q = r

\* At most one request is pending on a receipt, although the handler looks for one
\* before it inserts (reverse).
OnePendingRequest ==
    \A q, r \in Reqs :
       /\ req[q].status = "pending" /\ req[r].status = "pending"
       /\ req[q].coll = req[r].coll
       => q = r

\* A voucher and its receipts tell the same story: what a voucher's status says
\* of its items holds for each of them, except one reversed since; and no receipt
\* is an item of two vouchers (createHandoverVoucher, match, lock).
VoucherMatchesItems ==
    /\ \A v, w \in Vouchers : v # w => items[v] \cap items[w] = {}
    /\ \A v \in Vouchers : \A c \in items[v] :
          status[c] \in
             CASE voucher[v] = "submitted" -> {"handed_to_cashier", "reversed"}
               [] voucher[v] = "matched"   -> {"matched", "reversed"}
               [] voucher[v] = "locked"    -> {"approved", "reversed"}
               [] OTHER                           -> {}

\* Cash is behind what the desk claims: a receipt that is matched or approved, or
\* handed over outside a voucher, has its cash_handover row, and an item of a
\* voucher still waiting has none, so that matching never trips over the unique
\* key (handover against match).
CashBehindStatus ==
    \A c \in Colls :
       /\ status[c] \in {"matched", "approved"} => c \in cash /\ InVoucher(c)
       /\ status[c] = "handed_to_cashier" => (c \in cash <=> ~ InVoucher(c))
       /\ status[c] \in {"absent", "recorded"} => c \notin cash /\ ~ InVoucher(c)
       /\ \A v \in Vouchers : c \in items[v] /\ voucher[v] = "submitted"
                              => c \notin cash

\* The audit trail claims nothing that did not happen and was not undone: the row
\* is written after the commit it reports (every handler's audit.log).
AuditTruthful ==
    \A e \in audit :
       CASE e.action = "collection_created" -> LedgerHas(e.coll, "collection")
         [] e.action = "collection_handed_to_cashier" -> e.coll \in cash
         [] e.action = "collection_reversal_requested" -> req[e.req].status # "absent"
         [] e.action = "collection_reversal_rejected" -> req[e.req].status = "rejected"
         [] e.action = "collection_reversed" ->
               /\ req[e.req].status \in {"approved", "rejected"}
               /\ LedgerHas(req[e.req].coll, "collection_reversal")
         [] e.action = "handover_voucher_created" -> voucher[e.voucher] # "absent"
         [] e.action = "handover_voucher_matched" ->
               voucher[e.voucher] \in {"matched", "locked"}
         [] e.action = "handover_voucher_locked" -> voucher[e.voucher] = "locked"

\* A receipt that is not reversed moves one stage at a time towards 'approved', or
\* is reversed; two handlers that read the same stage never skip or repeat one.
Stages == {<<"absent", "recorded">>, <<"recorded", "handed_to_cashier">>,
           <<"handed_to_cashier", "matched">>, <<"matched", "approved">>}

StatusMovesForward ==
    [][\A c \in Colls :
          status[c] \notin {"reversed", status'[c]} =>
             \/ <<status[c], status'[c]>> \in Stages
             \/ status'[c] = "reversed" /\ status[c] # "absent"]_vars

\* The desk implements the money's promise: ledger rows are the effect, requests
\* are the asking.
Counted == {c \in Colls : LedgerHas(c, "collection")}
Asked == {<<req[q].coll, req[q].by>> : q \in {p \in Reqs : req[p].status # "absent"}}
Cancels == {<<e.coll, e.by>> : e \in {f \in ledger : f.type = "collection_reversal"}}

Money == INSTANCE DualControl WITH counted <- Counted, asked <- Asked, cancels <- Cancels
ImplementsDualControl == Money!Spec

-----------------------------------------------------------------------------
(* What comments and messages of the code say, and its interleavings deny. *)

\* "the original -> reversed ... never edited": once reversed, always reversed.
ReversedIsFinal ==
    [][\A c \in Colls : status[c] = "reversed" => status'[c] = "reversed"]_vars
=============================================================================
