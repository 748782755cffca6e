------------------------- MODULE CollectionsProofs -------------------------
(***************************************************************************)
(* Proofs about Collections: type correctness, the soundness of the        *)
(* ledger, the two-person reversal, the vouchers and the cash behind them, *)
(* and the refinement of DualControl, for any sets of people, receipts,    *)
(* requests, vouchers and handlers.                                        *)
(***************************************************************************)
EXTENDS Collections, TLAPS

\* The fields a handler's state has in each phase.
LEMMA OpShape ==
    ASSUME NEW o \in Op
    PROVE  /\ o.phase = "create" => /\ o.user \in Users /\ o.coll \in Colls
                                    /\ o.holder \in Holders /\ o.period \in Periods
           /\ o.phase \in {"reverse", "handover"} => o.user \in Users /\ o.coll \in Colls
           /\ o.phase \in {"reject", "approve"} => o.user \in Users /\ o.req \in Reqs
           /\ o.phase = "submit" => o.items \subseteq Colls /\ o.holder \in Holders
           /\ o.phase \in {"match", "matching", "lock"} => o.voucher \in Vouchers
           /\ o.phase = "log" => o.entry \in Entry
BY DEF Op, Idle

\* The fields a reversal request has in each status.
LEMMA RequestShape ==
    ASSUME NEW r \in Request
    PROVE  /\ r.status \in {"absent", "pending", "approved", "rejected"}
           /\ r.status # "absent" => r.coll \in Colls /\ r.by \in Users
           /\ r.status \in {"approved", "rejected"} => r.reviewer \in Users /\ r.executed \in BOOLEAN
BY DEF Request

\* A handler that has read, or is about to write its audit row, is well formed.
LEMMA OpForms ==
    /\ Idle \in Op
    /\ \A u \in Users, c \in Colls, h \in Holders, p \in Periods :
          [phase |-> "create", user |-> u, coll |-> c, holder |-> h, period |-> p] \in Op
    /\ \A u \in Users, c \in Colls, ph \in {"reverse", "handover"} :
          [phase |-> ph, user |-> u, coll |-> c] \in Op
    /\ \A u \in Users, q \in Reqs, ph \in {"reject", "approve"} :
          [phase |-> ph, user |-> u, req |-> q] \in Op
    /\ \A u \in Users, i \in SUBSET Colls, h \in Holders :
          [phase |-> "submit", user |-> u, items |-> i, holder |-> h] \in Op
    /\ \A u \in Users, v \in Vouchers, ph \in {"match", "matching", "lock"} :
          [phase |-> ph, user |-> u, voucher |-> v] \in Op
    /\ \A e \in Entry : [phase |-> "log", entry |-> e] \in Op
BY DEF Op

\* The audit rows the handlers write are well formed.
LEMMA EntryForms ==
    /\ \A c \in Colls, a \in {"collection_created", "collection_handed_to_cashier"} :
          [action |-> a, coll |-> c] \in Entry
    /\ \A q \in Reqs, a \in {"collection_reversal_requested", "collection_reversal_rejected",
                             "collection_reversed"} : [action |-> a, req |-> q] \in Entry
    /\ \A v \in Vouchers, a \in {"handover_voucher_created", "handover_voucher_matched",
                                 "handover_voucher_locked"} : [action |-> a, voucher |-> v] \in Entry
BY DEF Entry

\* Requests as ReverseCommit, RejectCommit and ApproveCommit write them.
LEMMA RequestForms ==
    /\ \A c \in Colls, u \in Users : [status |-> "pending", coll |-> c, by |-> u] \in Request
    /\ \A c \in Colls, u, w \in Users, x \in BOOLEAN, t \in {"approved", "rejected"} :
          [status |-> t, coll |-> c, by |-> u, reviewer |-> w, executed |-> x] \in Request
BY DEF Request

-----------------------------------------------------------------------------
(* Type correctness.                                                       *)

\* A step that only moves a handler on keeps every type.
LEMMA TypeFrame ==
    ASSUME TypeOK, ReadOnly, op' \in [Slots -> Op]
    PROVE  TypeOK'
BY DEF TypeOK, ReadOnly, receipts, vouchers, numbers

\* What a row or a handler points at exists: a request's receipt and a voucher's
\* items, the receipt a reversal was asked for, the request under review.
Referenced ==
    /\ \A q \in Reqs : req[q].status # "absent" => status[req[q].coll] # "absent"
    /\ \A v \in Vouchers : \A c \in items[v] : status[c] # "absent"
    /\ \A s \in Slots :
          /\ op[s].phase = "reverse" => status[op[s].coll] # "absent"
          /\ op[s].phase \in {"reject", "approve"} => req[op[s].req].status # "absent"

\* Every step of the desk keeps the types, given that what handlers point at exists.
LEMMA TypeStep == TypeOK /\ Referenced /\ [Next]_vars => TypeOK'
<1> SUFFICES ASSUME TypeOK, Referenced, [Next]_vars PROVE TypeOK'
  OBVIOUS
<1>1. ASSUME NEW s \in Slots, NEW u \in Users, NEW c \in Colls, NEW h \in Holders,
             NEW p \in Periods, CreateRead(s, u, c, h, p)
      PROVE TypeOK'
  <2>1. ReadOnly
    BY <1>1 DEF CreateRead
  <2>2. op' \in [Slots -> Op]
    BY <1>1, OpForms DEF CreateRead, Begin, TypeOK
  <2> QED BY <2>1, <2>2, TypeFrame
<1>2. ASSUME NEW s \in Slots, NEW u \in Users, NEW c \in Colls,
             ReverseRead(s, u, c) \/ HandoverRead(s, u, c)
      PROVE TypeOK'
  <2>1. ReadOnly
    BY <1>2 DEF ReverseRead, HandoverRead
  <2>2. PICK ph \in {"reverse", "handover"} :
           op' = [op EXCEPT ![s] = [phase |-> ph, user |-> u, coll |-> c]]
    BY <1>2 DEF ReverseRead, HandoverRead, Begin
  <2>3. op' \in [Slots -> Op]
    BY <2>2, OpForms DEF TypeOK
  <2> QED BY <2>1, <2>3, TypeFrame
<1>3. ASSUME NEW s \in Slots, NEW u \in Users, NEW q \in Reqs, NEW approve \in BOOLEAN,
             ReviewRead(s, u, q, approve)
      PROVE TypeOK'
  <2>1. ReadOnly
    BY <1>3 DEF ReviewRead
  <2>2. op' \in [Slots -> Op]
    BY <1>3, OpForms DEF ReviewRead, Begin, TypeOK
  <2> QED BY <2>1, <2>2, TypeFrame
<1>4. ASSUME NEW s \in Slots, NEW u \in Users, NEW picked \in SUBSET Colls,
             NEW h \in Holders, SubmitRead(s, u, picked, h)
      PROVE TypeOK'
  <2>1. ReadOnly
    BY <1>4 DEF SubmitRead
  <2>2. op' \in [Slots -> Op]
    BY <1>4, OpForms DEF SubmitRead, Begin, TypeOK
  <2> QED BY <2>1, <2>2, TypeFrame
<1>5. ASSUME NEW s \in Slots, NEW u \in Users, NEW v \in Vouchers,
             MatchRead(s, u, v) \/ LockRead(s, u, v)
      PROVE TypeOK'
  <2>1. ReadOnly
    BY <1>5 DEF MatchRead, LockRead
  <2>2. PICK ph \in {"match", "lock"} :
           op' = [op EXCEPT ![s] = [phase |-> ph, user |-> u, voucher |-> v]]
    BY <1>5 DEF MatchRead, LockRead, Begin
  <2>3. op' \in [Slots -> Op]
    BY <2>2, OpForms DEF TypeOK
  <2> QED BY <2>1, <2>3, TypeFrame
<1> USE DEF TypeOK, ReadOnly, receipts, vouchers, numbers
<1>6. ASSUME NEW s \in Slots, CreateCommit(s) PROVE TypeOK'
  <2>1. /\ op[s].user \in Users /\ op[s].coll \in Colls /\ op[s].holder \in Holders
        /\ [action |-> "collection_created", coll |-> op[s].coll] \in Entry
    BY <1>6, OpShape, EntryForms DEF CreateCommit
  <2>2. op' \in [Slots -> Op]
    BY <1>6, <2>1, OpForms DEF CreateCommit, ThenLog
  <2>3. ledger' \subseteq LedgerRow
    BY <1>6, <2>1 DEF CreateCommit, LedgerRow
  <2>4. /\ status' \in [Colls -> CollStatus]
        /\ holder' \in [Colls -> Holders \cup {None}]
        /\ reversedBy' \in [Colls -> BOOLEAN]
    BY <1>6, <2>1 DEF CreateCommit, CollStatus
  <2>5. receiptNo' \in [Colls -> Nat] /\ nextReceipt' \in [Holders -> Nat]
    BY <1>6, <2>1 DEF CreateCommit, Successor
  <2> QED BY <1>6, <2>2, <2>3, <2>4, <2>5 DEF CreateCommit
<1>7. ASSUME NEW s \in Slots, NEW q \in Reqs, ReverseCommit(s, q) PROVE TypeOK'
  BY <1>7, OpShape, OpForms, EntryForms, RequestForms DEF CanRequest, ReverseCommit, ThenLog
<1>8. ASSUME NEW s \in Slots, RejectCommit(s) PROVE TypeOK'
  <2> DEFINE q == op[s].req
             x == req[q].status # "pending" /\ req[q].executed
  <2>1. q \in Reqs /\ op[s].user \in Users /\ req[q].status # "absent"
    BY <1>8, OpShape DEF SecondPerson, RejectCommit, Referenced
  <2>2. req[q].coll \in Colls /\ req[q].by \in Users /\ x \in BOOLEAN
    BY <2>1, RequestShape
  <2>3. req' \in [Reqs -> Request]
    BY <1>8, <2>1, <2>2, RequestForms DEF SecondPerson, RejectCommit
  <2>4. op' \in [Slots -> Op]
    BY <1>8, <2>1, OpForms, EntryForms DEF SecondPerson, RejectCommit, ThenLog
  <2> QED BY <1>8, <2>3, <2>4 DEF SecondPerson, RejectCommit
<1>9. ASSUME NEW s \in Slots, ApproveCommit(s) PROVE TypeOK'
  <2> DEFINE q == op[s].req
  <2>1. q \in Reqs /\ op[s].user \in Users /\ req[q].status = "pending"
    BY <1>9, OpShape DEF SecondPerson, ApproveCommit, CanExecute
  <2>2. req[q].coll \in Colls /\ req[q].by \in Users
    BY <2>1, RequestShape
  <2>3. req' \in [Reqs -> Request]
    BY <1>9, <2>1, <2>2, RequestForms DEF ApproveCommit
  <2>4. op' \in [Slots -> Op]
    BY <1>9, <2>1, OpForms, EntryForms DEF ApproveCommit, ThenLog
  <2>5. ledger' \subseteq LedgerRow
    BY <1>9, <2>1, <2>2 DEF ApproveCommit, LedgerRow
  <2>6. /\ status' \in [Colls -> CollStatus]
        /\ reversedBy' \in [Colls -> BOOLEAN]
    BY <1>9, <2>2 DEF ApproveCommit, CollStatus
  <2> QED BY <1>9, <2>3, <2>4, <2>5, <2>6 DEF ApproveCommit
<1>10. ASSUME NEW s \in Slots, NEW v \in Vouchers, SubmitCommit(s, v) PROVE TypeOK'
  <2>1. op[s].items \subseteq Colls /\ op[s].holder \in Holders
    BY <1>10, OpShape DEF SubmitCommit
  <2>2. voucherNo' \in [Vouchers -> Nat] /\ nextVoucher' \in [Holders -> Nat]
    BY <1>10, <2>1 DEF SubmitCommit, Successor
  <2>3. /\ voucher' \in [Vouchers -> VoucherStatus] /\ items' \in [Vouchers -> SUBSET Colls]
        /\ status' \in [Colls -> CollStatus]
    BY <1>10, <2>1 DEF SubmitCommit, CollStatus, VoucherStatus
  <2>4. op' \in [Slots -> Op]
    BY <1>10, OpForms, EntryForms DEF SubmitCommit, ThenLog
  <2> QED BY <1>10, <2>2, <2>3, <2>4 DEF SubmitCommit
<1>11. ASSUME NEW s \in Slots, MatchTx(s) PROVE TypeOK'
  <2>1. op[s].user \in Users /\ op[s].voucher \in Vouchers
    BY <1>11 DEF MatchTx, Op, Idle
  <2> QED BY <1>11, <2>1, OpForms DEF MatchTx
<1>12. ASSUME NEW s \in Slots, MatchCommit(s) PROVE TypeOK'
  BY <1>12, OpShape, OpForms, EntryForms DEF MatchCommit, ThenLog, CollStatus, VoucherStatus
<1>13. ASSUME NEW s \in Slots, LockCommit(s) PROVE TypeOK'
  BY <1>13, OpShape, OpForms, EntryForms DEF LockCommit, ThenLog, CollStatus, VoucherStatus
<1>14. ASSUME NEW s \in Slots, HandoverCommit(s) PROVE TypeOK'
  BY <1>14, OpShape, OpForms, EntryForms DEF HandoverCommit, ThenLog, CollStatus
<1>15. ASSUME NEW s \in Slots, Conflict(s) \/ Log(s) \/ Fail(s) PROVE TypeOK'
  BY <1>15, OpShape, OpForms DEF Conflict, Log, Fail, Free
<1>16. ASSUME NEW p \in Periods, LockPeriod(p) \/ UnlockPeriod(p) PROVE TypeOK'
  BY <1>16 DEF LockPeriod, UnlockPeriod
<1>17. CASE UNCHANGED vars
  BY <1>17 DEF vars
<1> QED BY <1>1, <1>2, <1>3, <1>4, <1>5, <1>6, <1>7, <1>8, <1>9, <1>10, <1>11, <1>12,
           <1>13, <1>14, <1>15, <1>16, <1>17 DEF Next

-----------------------------------------------------------------------------
(* What is referenced exists and stays.                                    *)

\* Every step keeps what rows and handlers point at in existence.
LEMMA ReferencedStep == TypeOK /\ TypeOK' /\ Referenced /\ [Next]_vars => Referenced'
<1> SUFFICES ASSUME TypeOK, TypeOK', Referenced, [Next]_vars PROVE Referenced'
  OBVIOUS
<1> USE DEF TypeOK, ReadOnly, receipts, vouchers, numbers
<1> DEFINE Stays == /\ \A c \in Colls : status[c] # "absent" => status'[c] # "absent"
                    /\ \A q \in Reqs : req[q].status # "absent" =>
                          req'[q].status # "absent" /\ req'[q].coll = req[q].coll
           NewOk == /\ \A q \in Reqs : req'[q].status # "absent" /\ req[q].status = "absent"
                          => status[req'[q].coll] # "absent"
                    /\ \A v \in Vouchers : \A c \in items'[v] \ items[v] : status[c] # "absent"
                    /\ \A s \in Slots : op'[s] # op[s] =>
                          /\ op'[s].phase = "reverse" => status[op'[s].coll] # "absent"
                          /\ op'[s].phase \in {"reject", "approve"}
                             => req[op'[s].req].status # "absent"
<1>0. Stays /\ NewOk => Referenced'
  <2> SUFFICES ASSUME Stays, NewOk PROVE Referenced'
    OBVIOUS
  <2>1. ASSUME NEW q \in Reqs, req'[q].status # "absent" PROVE status'[req'[q].coll] # "absent"
    <3>1. req[q].coll \in Colls \/ req[q].status = "absent"
      BY RequestShape
    <3>2. req'[q].coll \in Colls
      BY <2>1, RequestShape
    <3> QED BY <2>1, <3>1, <3>2 DEF Referenced
  <2>2. ASSUME NEW v \in Vouchers, NEW c \in items'[v] PROVE status'[c] # "absent"
    BY DEF Referenced
  <2>3. ASSUME NEW s \in Slots
        PROVE /\ op'[s].phase = "reverse" => status'[op'[s].coll] # "absent"
              /\ op'[s].phase \in {"reject", "approve"} => req'[op'[s].req].status # "absent"
    <3>1. op'[s] \in Op
      OBVIOUS
    <3> QED BY <3>1, OpShape DEF Referenced
  <2> HIDE DEF Stays, NewOk
  <2> QED BY <2>1, <2>2, <2>3 DEF Referenced
<1> USE DEF Begin, ThenLog, Free, Idle
<1>1. ASSUME NEW s \in Slots, NEW u \in Users, NEW c \in Colls, NEW h \in Holders,
             NEW p \in Periods, CreateRead(s, u, c, h, p)
      PROVE Stays /\ NewOk
  BY <1>1 DEF CreateRead
<1>2. ASSUME NEW s \in Slots, NEW u \in Users, NEW c \in Colls,
             ReverseRead(s, u, c) \/ HandoverRead(s, u, c)
      PROVE Stays /\ NewOk
  BY <1>2 DEF ReverseRead, HandoverRead
<1>3. ASSUME NEW s \in Slots, NEW u \in Users, NEW q \in Reqs, NEW approve \in BOOLEAN,
             ReviewRead(s, u, q, approve)
      PROVE Stays /\ NewOk
  BY <1>3 DEF ReviewRead
<1>4. ASSUME NEW s \in Slots, NEW u \in Users, NEW picked \in SUBSET Colls,
             NEW h \in Holders, SubmitRead(s, u, picked, h)
      PROVE Stays /\ NewOk
  BY <1>4 DEF SubmitRead
<1>5. ASSUME NEW s \in Slots, NEW u \in Users, NEW v \in Vouchers,
             MatchRead(s, u, v) \/ LockRead(s, u, v)
      PROVE Stays /\ NewOk
  BY <1>5 DEF MatchRead, LockRead
<1>6. ASSUME NEW s \in Slots, CreateCommit(s) PROVE Stays /\ NewOk
  BY <1>6 DEF CreateCommit
<1>7. ASSUME NEW s \in Slots, NEW q \in Reqs, ReverseCommit(s, q) PROVE Stays /\ NewOk
  BY <1>7 DEF CanRequest, ReverseCommit, Referenced
<1>8. ASSUME NEW s \in Slots, RejectCommit(s) PROVE Stays /\ NewOk
  BY <1>8, OpShape DEF SecondPerson, RejectCommit, Referenced
<1>9. ASSUME NEW s \in Slots, ApproveCommit(s) PROVE Stays /\ NewOk
  BY <1>9, OpShape DEF SecondPerson, ApproveCommit, CanExecute
<1>10. ASSUME NEW s \in Slots, NEW v \in Vouchers, SubmitCommit(s, v) PROVE Stays /\ NewOk
  BY <1>10 DEF SubmitCommit, CanSubmit
<1>11. ASSUME NEW s \in Slots, MatchTx(s) \/ MatchCommit(s) \/ LockCommit(s)
       PROVE Stays /\ NewOk
  BY <1>11 DEF MatchTx, MatchCommit, LockCommit
<1>12. ASSUME NEW s \in Slots, HandoverCommit(s) PROVE Stays /\ NewOk
  BY <1>12 DEF HandoverCommit
<1>13. ASSUME NEW s \in Slots, Conflict(s) \/ Log(s) \/ Fail(s) PROVE Stays /\ NewOk
  BY <1>13 DEF Conflict, Log, Fail
<1>14. ASSUME NEW p \in Periods, LockPeriod(p) \/ UnlockPeriod(p) PROVE Stays /\ NewOk
  BY <1>14 DEF LockPeriod, UnlockPeriod
<1>15. CASE UNCHANGED vars
  <2>1. status' = status /\ items' = items /\ req' = req /\ op' = op
    BY <1>15 DEF vars
  <2> QED BY <2>1 DEF Referenced
<1> HIDE DEF Stays, NewOk
<1> QED BY <1>0, <1>1, <1>2, <1>3, <1>4, <1>5, <1>6, <1>7, <1>8, <1>9, <1>10, <1>11, <1>12,
           <1>13, <1>14, <1>15 DEF Next

-----------------------------------------------------------------------------
(* The ledger.                                                             *)

\* Steps other than recording and executing leave the ledger and the mirrors as
\* they are, and neither bring a receipt into being nor make one vanish.
LEMMA LedgerFrame ==
    ASSUME TypeOK, LedgerSound, ledger' = ledger, reversedBy' = reversedBy,
           \A c \in Colls : status'[c] = "absent" <=> status[c] = "absent"
    PROVE  LedgerSound'
BY DEF LedgerSound, LedgerHas

\* A row added to the ledger adds its own key.
LEMMA LedgerInsert ==
    ASSUME NEW e, ledger' = ledger \cup {e}, NEW d, NEW t
    PROVE  LedgerHas(d, t)' <=> LedgerHas(d, t) \/ (d = e.coll /\ t = e.type)
BY DEF LedgerHas

\* Every step keeps the ledger sound: only recording and executing write to it, and
\* each adds a key that was not there.
LEMMA LedgerStep == TypeOK /\ Referenced /\ LedgerSound /\ [Next]_vars => LedgerSound'
<1> SUFFICES ASSUME TypeOK, Referenced, LedgerSound, [Next]_vars PROVE LedgerSound'
  OBVIOUS
<1> USE DEF ReadOnly, receipts, vouchers, numbers
<1>1. ASSUME NEW s \in Slots, CreateCommit(s) PROVE LedgerSound'
  <2>1. PICK c \in Colls : c = op[s].coll
    BY <1>1, OpShape DEF TypeOK, CreateCommit
  <2>2. PICK e : e = [coll |-> c, type |-> "collection", by |-> op[s].user]
    OBVIOUS
  <2>3. /\ ~ LedgerHas(c, "collection")
        /\ ledger' = ledger \cup {e}
        /\ status' = [status EXCEPT ![c] = "recorded"]
        /\ reversedBy' = [reversedBy EXCEPT ![c] = FALSE]
    BY <1>1, <2>1, <2>2 DEF CreateCommit
  <2>4. e.coll = c /\ e.type = "collection"
    BY <2>2
  <2>5. \A f, g \in ledger' : f.coll = g.coll /\ f.type = g.type => f = g
    BY <2>3, <2>4 DEF LedgerSound, LedgerHas
  <2>6. status[c] = "absent" /\ ~ reversedBy[c]
    BY <2>3 DEF LedgerSound
  <2> QED BY <2>3, <2>4, <2>5, <2>6, LedgerInsert DEF LedgerSound, TypeOK
<1>2. ASSUME NEW s \in Slots, ApproveCommit(s) PROVE LedgerSound'
  <2>0. op[s].req \in Reqs /\ req[op[s].req].status = "pending"
    BY <1>2, OpShape DEF TypeOK, SecondPerson, ApproveCommit, CanExecute
  <2>1. PICK c \in Colls : c = req[op[s].req].coll
    BY <2>0, RequestShape DEF TypeOK
  <2>2. PICK e : e = [coll |-> c, type |-> "collection_reversal", by |-> op[s].user]
    OBVIOUS
  <2>3. /\ ~ LedgerHas(c, "collection_reversal")
        /\ ledger' = ledger \cup {e}
        /\ status' = [status EXCEPT ![c] = "reversed"]
        /\ reversedBy' = [reversedBy EXCEPT ![c] = TRUE]
    BY <1>2, <2>1, <2>2 DEF SecondPerson, ApproveCommit, CanExecute
  <2>4. e.coll = c /\ e.type = "collection_reversal"
    BY <2>2
  <2>5. \A f, g \in ledger' : f.coll = g.coll /\ f.type = g.type => f = g
    BY <2>3, <2>4 DEF LedgerSound, LedgerHas
  <2>6. status[c] # "absent"
    BY <2>0, <2>1 DEF Referenced
  <2> QED BY <2>3, <2>4, <2>5, <2>6, LedgerInsert DEF LedgerSound, TypeOK
<1>3. ASSUME NEW s \in Slots, NEW v \in Vouchers, SubmitCommit(s, v) PROVE LedgerSound'
  BY <1>3, LedgerFrame DEF SubmitCommit, CanSubmit
<1>4. ASSUME NEW s \in Slots, MatchCommit(s) \/ LockCommit(s) PROVE LedgerSound'
  <2>1. op[s].voucher \in Vouchers
    BY <1>4, OpShape DEF TypeOK, MatchCommit, LockCommit
  <2> QED BY <1>4, <2>1, LedgerFrame DEF MatchCommit, LockCommit, Referenced
<1>5. ASSUME NEW s \in Slots, HandoverCommit(s) PROVE LedgerSound'
  BY <1>5, LedgerFrame, OpShape DEF HandoverCommit, CanHandover, TypeOK
<1>6. CASE UNCHANGED <<receipts, ledger>>
  BY <1>6, LedgerFrame
<1>7. ASSUME NEW s \in Slots, NEW u \in Users,
             \/ \E c \in Colls, h \in Holders, p \in Periods : CreateRead(s, u, c, h, p)
             \/ \E c \in Colls : ReverseRead(s, u, c) \/ HandoverRead(s, u, c)
             \/ \E q \in Reqs, approve \in BOOLEAN : ReviewRead(s, u, q, approve)
             \/ \E picked \in SUBSET Colls, h \in Holders : SubmitRead(s, u, picked, h)
             \/ \E v \in Vouchers : MatchRead(s, u, v) \/ LockRead(s, u, v)
      PROVE UNCHANGED <<receipts, ledger>>
  BY <1>7 DEF CreateRead, ReverseRead, HandoverRead, ReviewRead, SubmitRead, MatchRead, LockRead
<1>8. ASSUME NEW s \in Slots,
             \/ \E q \in Reqs : ReverseCommit(s, q)
             \/ RejectCommit(s) \/ MatchTx(s) \/ Conflict(s) \/ Log(s) \/ Fail(s)
      PROVE UNCHANGED <<receipts, ledger>>
  BY <1>8 DEF CanRequest, ReverseCommit, RejectCommit, MatchTx, Conflict, Log, Fail
<1>9. ASSUME NEW p \in Periods, LockPeriod(p) \/ UnlockPeriod(p)
      PROVE UNCHANGED <<receipts, ledger>>
  BY <1>9 DEF LockPeriod, UnlockPeriod
<1>10. CASE UNCHANGED vars
  BY <1>10, <1>6 DEF vars
<1> QED BY <1>1, <1>2, <1>3, <1>4, <1>5, <1>6, <1>7, <1>8, <1>9, <1>10 DEF Next

-----------------------------------------------------------------------------
(* The two people of a reversal.                                           *)

Decided(q) == req[q].status \in {"approved", "rejected"}

\* Which steps touch the requests, the mirrors or the reversals in the ledger.
LEMMA ReversalFrame ==
    ASSUME TypeOK, ReversalTakesTwo, OnePendingRequest, req' = req,
           \A c \in Colls : reversedBy[c] => reversedBy'[c],
           \A e \in ledger' : e.type = "collection_reversal" => e \in ledger
    PROVE  ReversalTakesTwo' /\ OnePendingRequest'
<1>1. \A q \in Reqs : Decided(q) => req[q].coll \in Colls
  BY RequestShape DEF TypeOK, Decided
<1> QED BY <1>1 DEF ReversalTakesTwo, OnePendingRequest, Decided

\* Every step keeps a reversal the work of two people and a receipt's pending request
\* unique, although reviews decide on what they read earlier.
LEMMA ReversalStep ==
    TypeOK /\ Referenced /\ LedgerSound /\ ReversalTakesTwo /\ OnePendingRequest /\ [Next]_vars
    => ReversalTakesTwo' /\ OnePendingRequest'
<1> SUFFICES ASSUME TypeOK, Referenced, LedgerSound, ReversalTakesTwo, OnePendingRequest,
                    [Next]_vars
             PROVE  ReversalTakesTwo' /\ OnePendingRequest'
  OBVIOUS
<1> USE DEF ReadOnly, receipts, vouchers, numbers
<1>1. ASSUME NEW s \in Slots, CreateCommit(s) PROVE ReversalTakesTwo' /\ OnePendingRequest'
  <2>1. op[s].coll \in Colls /\ ~ LedgerHas(op[s].coll, "collection")
    BY <1>1, OpShape DEF TypeOK, CreateCommit
  <2>2. ~ reversedBy[op[s].coll]
    BY <2>1 DEF LedgerSound
  <2>3. \A c \in Colls : reversedBy[c] => reversedBy'[c]
    BY <1>1, <2>2 DEF CreateCommit, TypeOK
  <2>4. req' = req /\ \A e \in ledger' : e.type = "collection_reversal" => e \in ledger
    BY <1>1 DEF CreateCommit
  <2> QED BY <2>3, <2>4, ReversalFrame
<1>2. ASSUME NEW s \in Slots, NEW q \in Reqs, ReverseCommit(s, q)
      PROVE ReversalTakesTwo' /\ OnePendingRequest'
  <2>1. PICK r : r = [status |-> "pending", coll |-> op[s].coll, by |-> op[s].user]
    OBVIOUS
  <2>2. /\ req' = [req EXCEPT ![q] = r] /\ req[q].status = "absent"
        /\ r.status = "pending" /\ r.coll = op[s].coll /\ ~ PendingOn(op[s].coll)
        /\ ledger' = ledger /\ reversedBy' = reversedBy
    BY <1>2, <2>1 DEF CanRequest, ReverseCommit
  <2>3. ReversalTakesTwo'
    BY <2>2 DEF ReversalTakesTwo, TypeOK
  <2>4. OnePendingRequest'
    BY <2>2 DEF OnePendingRequest, PendingOn, TypeOK
  <2> QED BY <2>3, <2>4
<1>3. ASSUME NEW s \in Slots, RejectCommit(s) PROVE ReversalTakesTwo' /\ OnePendingRequest'
  <2>1. PICK q \in Reqs : q = op[s].req
    BY <1>3, OpShape DEF TypeOK, RejectCommit
  <2>2. PICK r : r = [status |-> "rejected", coll |-> req[q].coll, by |-> req[q].by,
                      reviewer |-> op[s].user,
                      executed |-> req[q].status # "pending" /\ req[q].executed]
    OBVIOUS
  <2>3. /\ req' = [req EXCEPT ![q] = r] /\ req[q].by # op[s].user
        /\ ledger' = ledger /\ reversedBy' = reversedBy
    BY <1>3, <2>1, <2>2 DEF SecondPerson, RejectCommit
  <2>4. /\ r.status = "rejected" /\ r.coll = req[q].coll /\ r.by = req[q].by
        /\ r.reviewer # r.by
    BY <2>2, <2>3
  <2>5. r.executed <=> req[q].status # "pending" /\ req[q].executed
    BY <2>2
  <2>6. req[q].status # "absent"
    BY <1>3, <2>1 DEF SecondPerson, RejectCommit, Referenced
  <2>7. r.executed <=> Decided(q) /\ req[q].executed
    BY <2>5, <2>6, RequestShape DEF Decided, TypeOK
  <2>8. ReversalTakesTwo'
    BY <2>3, <2>4, <2>7 DEF ReversalTakesTwo, TypeOK, Decided
  <2>9. OnePendingRequest'
    BY <2>3, <2>4 DEF OnePendingRequest, TypeOK
  <2> QED BY <2>8, <2>9
<1>4. ASSUME NEW s \in Slots, ApproveCommit(s) PROVE ReversalTakesTwo' /\ OnePendingRequest'
  <2>1. PICK q \in Reqs : q = op[s].req
    BY <1>4, OpShape DEF TypeOK, ApproveCommit
  <2>2. PICK c \in Colls : c = req[q].coll
    BY <1>4, <2>1, RequestShape DEF TypeOK, SecondPerson, ApproveCommit, CanExecute
  <2>3. PICK r : r = [status |-> "approved", coll |-> c, by |-> req[q].by,
                      reviewer |-> op[s].user, executed |-> TRUE]
    OBVIOUS
  <2>4. PICK e : e = [coll |-> c, type |-> "collection_reversal", by |-> op[s].user]
    OBVIOUS
  <2>5. /\ req' = [req EXCEPT ![q] = r] /\ req[q].by # op[s].user /\ req[q].status = "pending"
        /\ ledger' = ledger \cup {e} /\ ~ reversedBy[c]
        /\ reversedBy' = [reversedBy EXCEPT ![c] = TRUE]
    BY <1>4, <2>1, <2>2, <2>3, <2>4 DEF SecondPerson, ApproveCommit, CanExecute
  <2>6. /\ r.status = "approved" /\ r.coll = c /\ r.by = req[q].by /\ r.executed
        /\ r.reviewer # r.by /\ e.coll = c /\ e.type = "collection_reversal" /\ e.by # r.by
    BY <2>3, <2>4, <2>5
  <2>7. \A p \in Reqs : Decided(p) => req[p].coll \in Colls
    BY RequestShape DEF Decided, TypeOK
  <2>8. \A f \in ledger' : f.type = "collection_reversal" =>
           \E p \in Reqs : /\ Decided(p)' /\ req'[p].coll = f.coll
                           /\ req'[p].executed /\ req'[p].by # f.by
    BY <2>5, <2>6 DEF ReversalTakesTwo, TypeOK, Decided
  <2>9. \A p \in Reqs : Decided(p)' =>
           /\ req'[p].reviewer # req'[p].by
           /\ req'[p].status = "approved" => req'[p].executed
           /\ req'[p].executed => reversedBy'[req'[p].coll]
    BY <2>5, <2>6, <2>7 DEF ReversalTakesTwo, TypeOK, Decided
  <2>10. \A p \in Reqs : Decided(p) /\ req[p].executed => req[p].coll # c
    BY <2>5 DEF ReversalTakesTwo, Decided
  <2>11. \A p, t \in Reqs : /\ Decided(p)' /\ req'[p].executed
                            /\ Decided(t)' /\ req'[t].executed
                            /\ req'[p].coll = req'[t].coll
                            => p = t
    BY <2>5, <2>6, <2>10 DEF ReversalTakesTwo, TypeOK, Decided
  <2>12. ReversalTakesTwo'
    BY <2>8, <2>9, <2>11 DEF ReversalTakesTwo, Decided
  <2>13. OnePendingRequest'
    BY <2>5, <2>6 DEF OnePendingRequest, TypeOK
  <2> QED BY <2>12, <2>13
<1>5. CASE UNCHANGED <<req, reversedBy, ledger>>
  BY <1>5, ReversalFrame
<1>6. ASSUME NEW s \in Slots, NEW u \in Users,
             \/ \E c \in Colls, h \in Holders, p \in Periods : CreateRead(s, u, c, h, p)
             \/ \E c \in Colls : ReverseRead(s, u, c) \/ HandoverRead(s, u, c)
             \/ \E q \in Reqs, approve \in BOOLEAN : ReviewRead(s, u, q, approve)
             \/ \E picked \in SUBSET Colls, h \in Holders : SubmitRead(s, u, picked, h)
             \/ \E v \in Vouchers : MatchRead(s, u, v) \/ LockRead(s, u, v)
      PROVE UNCHANGED <<req, reversedBy, ledger>>
  BY <1>6 DEF CreateRead, ReverseRead, HandoverRead, ReviewRead, SubmitRead, MatchRead, LockRead
<1>7. ASSUME NEW s \in Slots,
             \/ \E v \in Vouchers : SubmitCommit(s, v)
             \/ MatchTx(s) \/ MatchCommit(s) \/ LockCommit(s) \/ HandoverCommit(s)
             \/ Conflict(s) \/ Log(s) \/ Fail(s)
      PROVE UNCHANGED <<req, reversedBy, ledger>>
  BY <1>7 DEF SubmitCommit, MatchTx, MatchCommit, LockCommit, HandoverCommit, Conflict, Log, Fail
<1>8. ASSUME NEW p \in Periods, LockPeriod(p) \/ UnlockPeriod(p)
      PROVE UNCHANGED <<req, reversedBy, ledger>>
  BY <1>8 DEF LockPeriod, UnlockPeriod
<1>9. CASE UNCHANGED vars
  BY <1>9, <1>5 DEF vars
<1> QED BY <1>1, <1>2, <1>3, <1>4, <1>5, <1>6, <1>7, <1>8, <1>9 DEF Next

-----------------------------------------------------------------------------
(* Vouchers and cash.                                                      *)

\* A slot between a match's reading and its write holds the voucher row alone, and
\* the voucher is still 'submitted'.
MatchHoldsRow ==
    \A s \in Slots : op[s].phase = "matching" =>
       /\ voucher[op[s].voucher] = "submitted"
       /\ \A t \in Slots : op[t].phase = "matching" /\ op[t].voucher = op[s].voucher => t = s

DeskInv == VoucherMatchesItems /\ CashBehindStatus /\ MatchHoldsRow

\* Steps that leave receipts, vouchers and cash alone, and start no write of a match.
LEMMA DeskFrame ==
    ASSUME TypeOK, DeskInv, status' = status, voucher' = voucher, items' = items, cash' = cash,
           \A s \in Slots : op'[s].phase = "matching" => op'[s] = op[s]
    PROVE  DeskInv'
BY DEF DeskInv, VoucherMatchesItems, CashBehindStatus, MatchHoldsRow, InVoucher

\* A receipt that is recorded, or becomes reversed, disturbs no voucher.
LEMMA DeskOneReceipt ==
    ASSUME TypeOK, DeskInv, NEW c \in Colls, NEW x, status' = [status EXCEPT ![c] = x],
           \/ x = "reversed"
           \/ x = "recorded" /\ ~ InVoucher(c) /\ c \notin cash,
           voucher' = voucher, items' = items, cash' = cash,
           \A s \in Slots : op'[s].phase = "matching" => op'[s] = op[s]
    PROVE  DeskInv'
<1>1. VoucherMatchesItems'
  BY DEF DeskInv, VoucherMatchesItems, InVoucher, TypeOK
<1>2. CashBehindStatus'
  BY DEF DeskInv, CashBehindStatus, InVoucher, TypeOK
<1>3. MatchHoldsRow'
  BY DEF DeskInv, MatchHoldsRow
<1> QED BY <1>1, <1>2, <1>3 DEF DeskInv

\* Every step keeps vouchers, receipts and cash in agreement; a match between its
\* reading and its write holds the voucher's row.
LEMMA DeskStep == TypeOK /\ LedgerSound /\ DeskInv /\ [Next]_vars => DeskInv'
<1> SUFFICES ASSUME TypeOK, LedgerSound, DeskInv, [Next]_vars PROVE DeskInv'
  OBVIOUS
<1> USE DEF ReadOnly, receipts, vouchers, numbers, Idle, Begin, ThenLog, Free
<1>1. ASSUME NEW s \in Slots, CreateCommit(s) PROVE DeskInv'
  <2>1. PICK c \in Colls : c = op[s].coll
    BY <1>1, OpShape DEF TypeOK, CreateCommit
  <2>2. status[c] = "absent"
    BY <1>1, <2>1 DEF CreateCommit, LedgerSound
  <2>3. ~ InVoucher(c) /\ c \notin cash
    BY <2>2 DEF DeskInv, CashBehindStatus
  <2>4. /\ status' = [status EXCEPT ![c] = "recorded"]
        /\ \A t \in Slots : op'[t].phase = "matching" => op'[t] = op[t]
        /\ UNCHANGED <<voucher, items, cash>>
    BY <1>1, <2>1 DEF CreateCommit, TypeOK
  <2> QED BY <2>3, <2>4, DeskOneReceipt
<1>2. ASSUME NEW s \in Slots, ApproveCommit(s) PROVE DeskInv'
  <2>1. PICK c \in Colls : c = req[op[s].req].coll
    BY <1>2, OpShape, RequestShape DEF TypeOK, SecondPerson, ApproveCommit, CanExecute
  <2>2. /\ status' = [status EXCEPT ![c] = "reversed"]
        /\ \A t \in Slots : op'[t].phase = "matching" => op'[t] = op[t]
        /\ UNCHANGED <<voucher, items, cash>>
    BY <1>2, <2>1 DEF ApproveCommit, TypeOK
  <2> QED BY <2>2, DeskOneReceipt
<1>3. ASSUME NEW s \in Slots, NEW v \in Vouchers, SubmitCommit(s, v) PROVE DeskInv'
  <2>1. PICK picked \in SUBSET Colls : picked = op[s].items
    BY <1>3, OpShape DEF TypeOK, SubmitCommit
  <2>2. /\ voucher[v] = "absent" /\ voucher' = [voucher EXCEPT ![v] = "submitted"]
        /\ items' = [items EXCEPT ![v] = picked] /\ cash' = cash
        /\ status' = [c \in Colls |-> IF c \in picked THEN "handed_to_cashier" ELSE status[c]]
        /\ \A c \in picked : status[c] = "recorded" /\ ~ InVoucher(c)
    BY <1>3, <2>1 DEF SubmitCommit, CanSubmit
  <2>3. \A t \in Slots : op'[t].phase = "matching" => op'[t] = op[t]
    BY <1>3 DEF SubmitCommit, TypeOK
  <2>4. items[v] = {}
    BY <2>2 DEF DeskInv, VoucherMatchesItems
  <2>5. VoucherMatchesItems'
    BY <2>2 DEF DeskInv, VoucherMatchesItems, InVoucher, TypeOK
  <2>6. \A c \in picked : c \notin cash
    BY <2>2 DEF DeskInv, CashBehindStatus
  <2>7. \A c \in Colls : InVoucher(c)' <=> InVoucher(c) \/ c \in picked
    BY <2>2, <2>4 DEF InVoucher, TypeOK
  <2>8. CashBehindStatus'
    BY <2>2, <2>6, <2>7 DEF DeskInv, CashBehindStatus, TypeOK
  <2>9. MatchHoldsRow'
    BY <2>2, <2>3 DEF DeskInv, MatchHoldsRow, TypeOK
  <2> QED BY <2>5, <2>8, <2>9 DEF DeskInv
<1>4. ASSUME NEW s \in Slots, MatchTx(s) PROVE DeskInv'
  <2>1. /\ op' = [op EXCEPT ![s] = [phase |-> "matching", user |-> op[s].user,
                                   voucher |-> op[s].voucher]]
        /\ ~ RowLocked(op[s].voucher) /\ voucher[op[s].voucher] = "submitted"
        /\ UNCHANGED <<status, voucher, items, cash>>
    BY <1>4 DEF MatchTx, CanStartMatch
  <2>2. MatchHoldsRow'
    BY <2>1 DEF DeskInv, MatchHoldsRow, RowLocked, TypeOK
  <2>3. VoucherMatchesItems' /\ CashBehindStatus'
    BY <2>1 DEF DeskInv, VoucherMatchesItems, CashBehindStatus, InVoucher
  <2> QED BY <2>2, <2>3 DEF DeskInv
<1>5. ASSUME NEW s \in Slots, MatchCommit(s) PROVE DeskInv'
  <2>1. PICK v \in Vouchers : v = op[s].voucher
    BY <1>5, OpShape DEF TypeOK, MatchCommit
  <2>2. /\ voucher[v] = "submitted" /\ voucher' = [voucher EXCEPT ![v] = "matched"]
        /\ items' = items /\ cash' = cash \cup items[v]
        /\ status' = [c \in Colls |-> IF c \in items[v] THEN "matched" ELSE status[c]]
    BY <1>5, <2>1 DEF MatchCommit, DeskInv, MatchHoldsRow
  <2>3. \A t \in Slots : op'[t].phase = "matching" => op'[t] = op[t] /\ t # s
    BY <1>5 DEF MatchCommit, TypeOK
  <2>4. VoucherMatchesItems'
    BY <2>2 DEF DeskInv, VoucherMatchesItems, TypeOK
  <2>5. CashBehindStatus'
    BY <2>2 DEF DeskInv, CashBehindStatus, VoucherMatchesItems, InVoucher, TypeOK
  <2>6. MatchHoldsRow'
    BY <1>5, <2>1, <2>2, <2>3 DEF DeskInv, MatchHoldsRow, MatchCommit, TypeOK
  <2> QED BY <2>4, <2>5, <2>6 DEF DeskInv
<1>6. ASSUME NEW s \in Slots, LockCommit(s) PROVE DeskInv'
  <2>1. PICK v \in Vouchers : v = op[s].voucher
    BY <1>6, OpShape DEF TypeOK, LockCommit
  <2>2. /\ voucher[v] = "matched" /\ voucher' = [voucher EXCEPT ![v] = "locked"]
        /\ items' = items /\ cash' = cash
        /\ status' = [c \in Colls |-> IF c \in items[v] THEN "approved" ELSE status[c]]
        /\ \A c \in items[v] : status[c] = "matched"
    BY <1>6, <2>1 DEF LockCommit, CanLock
  <2>3. \A t \in Slots : op'[t].phase = "matching" => op'[t] = op[t]
    BY <1>6 DEF LockCommit, TypeOK
  <2>4. VoucherMatchesItems'
    BY <2>2 DEF DeskInv, VoucherMatchesItems, TypeOK
  <2>5. CashBehindStatus'
    BY <2>2 DEF DeskInv, CashBehindStatus, InVoucher, TypeOK
  <2>6. MatchHoldsRow'
    BY <2>2, <2>3 DEF DeskInv, MatchHoldsRow, TypeOK
  <2> QED BY <2>4, <2>5, <2>6 DEF DeskInv
<1>7. ASSUME NEW s \in Slots, HandoverCommit(s) PROVE DeskInv'
  <2>1. PICK c \in Colls : c = op[s].coll
    BY <1>7, OpShape DEF TypeOK, HandoverCommit
  <2>2. /\ status[c] = "recorded" /\ status' = [status EXCEPT ![c] = "handed_to_cashier"]
        /\ cash' = cash \cup {c} /\ UNCHANGED <<voucher, items>>
    BY <1>7, <2>1 DEF HandoverCommit, CanHandover
  <2>3. \A t \in Slots : op'[t].phase = "matching" => op'[t] = op[t]
    BY <1>7 DEF HandoverCommit, TypeOK
  <2>4. ~ InVoucher(c)
    BY <2>2 DEF DeskInv, CashBehindStatus
  <2>5. VoucherMatchesItems'
    BY <2>2, <2>4 DEF DeskInv, VoucherMatchesItems, InVoucher, TypeOK
  <2>6. CashBehindStatus'
    BY <2>2, <2>4 DEF DeskInv, CashBehindStatus, InVoucher, TypeOK
  <2>7. MatchHoldsRow'
    BY <2>2, <2>3 DEF DeskInv, MatchHoldsRow
  <2> QED BY <2>5, <2>6, <2>7 DEF DeskInv
<1>8. ASSUME UNCHANGED <<status, voucher, items, cash>>,
             \A t \in Slots : op'[t].phase = "matching" => op'[t] = op[t]
      PROVE DeskInv'
  BY <1>8, DeskFrame
<1> DEFINE Still == /\ UNCHANGED <<status, voucher, items, cash>>
                    /\ \A t \in Slots : op'[t].phase = "matching" => op'[t] = op[t]
<1>9. ASSUME NEW s \in Slots, NEW u \in Users,
             \/ \E c \in Colls, h \in Holders, p \in Periods : CreateRead(s, u, c, h, p)
             \/ \E c \in Colls : ReverseRead(s, u, c) \/ HandoverRead(s, u, c)
             \/ \E q \in Reqs, approve \in BOOLEAN : ReviewRead(s, u, q, approve)
             \/ \E picked \in SUBSET Colls, h \in Holders : SubmitRead(s, u, picked, h)
             \/ \E v \in Vouchers : MatchRead(s, u, v) \/ LockRead(s, u, v)
      PROVE Still
  BY <1>9 DEF TypeOK, CreateRead, ReverseRead, HandoverRead, ReviewRead, SubmitRead, MatchRead, LockRead
<1>10. ASSUME NEW s \in Slots,
             \/ \E q \in Reqs : ReverseCommit(s, q)
             \/ RejectCommit(s) \/ Conflict(s) \/ Log(s) \/ Fail(s)
      PROVE Still
  BY <1>10 DEF TypeOK, ReverseCommit, RejectCommit, Conflict, Log, Fail
<1>11. ASSUME NEW p \in Periods, LockPeriod(p) \/ UnlockPeriod(p) PROVE Still
  BY <1>11 DEF LockPeriod, UnlockPeriod
<1>12. CASE UNCHANGED vars
  BY <1>12, <1>8 DEF vars
<1> QED BY <1>1, <1>2, <1>3, <1>4, <1>5, <1>6, <1>7, <1>8, <1>9, <1>10, <1>11, <1>12 DEF Next

-----------------------------------------------------------------------------
(* The theorems.                                                           *)

\* The inductive invariant of the desk.
DeskInvariant ==
    /\ TypeOK /\ Referenced
    /\ LedgerSound /\ ReversalTakesTwo /\ OnePendingRequest
    /\ DeskInv

\* The empty desk satisfies the inductive invariant.
LEMMA InitInvariant == Init => DeskInvariant
<1> SUFFICES ASSUME Init PROVE DeskInvariant
  OBVIOUS
<1>1. TypeOK
  BY OpForms DEF Init, TypeOK, CollStatus, VoucherStatus, Request
<1>2. Referenced
  BY DEF Init, Referenced, Idle
<1>3. LedgerSound /\ ReversalTakesTwo /\ OnePendingRequest
  BY DEF Init, LedgerSound, LedgerHas, ReversalTakesTwo, OnePendingRequest
<1>4. DeskInv
  BY DEF Init, DeskInv, VoucherMatchesItems, CashBehindStatus, MatchHoldsRow, InVoucher, Idle
<1> QED BY <1>1, <1>2, <1>3, <1>4 DEF DeskInvariant

\* Every reachable state satisfies the inductive invariant.
THEOREM DeskInvariance == Spec => []DeskInvariant
<1>1. DeskInvariant /\ [Next]_vars => DeskInvariant'
  BY TypeStep, ReferencedStep, LedgerStep, ReversalStep, DeskStep DEF DeskInvariant
<1> QED BY <1>1, InitInvariant, PTL DEF Spec

\* The variables keep their types whatever the sets of people, receipts and slots.
THEOREM TypeCorrect == Spec => []TypeOK
BY DeskInvariance, PTL DEF DeskInvariant

\* No receipt is charged or reversed twice, for any number of concurrent reviews.
THEOREM LedgerIsSound == Spec => []LedgerSound
BY DeskInvariance, PTL DEF DeskInvariant

\* No reversal reaches the ledger without a request by one person and an execution
\* by another.
THEOREM ReversalIsDual == Spec => []ReversalTakesTwo
BY DeskInvariance, PTL DEF DeskInvariant

\* Nor do two requests wait on one receipt (uq_collection_reversal_pending).
THEOREM RequestsWaitAlone == Spec => []OnePendingRequest
BY DeskInvariance, PTL DEF DeskInvariant

\* Vouchers and their receipts agree (createHandoverVoucher to lockHandoverVoucher).
THEOREM DeskIsConsistent == Spec => []VoucherMatchesItems
BY DeskInvariance, PTL DEF DeskInvariant, DeskInv

\* Cash is behind what the desk claims of a receipt (handover, matchHandoverVoucher).
THEOREM CashIsBehind == Spec => []CashBehindStatus
BY DeskInvariance, PTL DEF DeskInvariant, DeskInv

\* Receipts that are not reversed advance one stage at a time.
THEOREM StatusAdvances == Spec => StatusMovesForward
<1> DEFINE Forward == \A c \in Colls :
          status[c] \notin {"reversed", status'[c]} =>
             \/ <<status[c], status'[c]>> \in Stages
             \/ status'[c] = "reversed" /\ status[c] # "absent"
<1>1. ASSUME DeskInvariant, [Next]_vars PROVE Forward
  <2> USE <1>1 DEF DeskInvariant, DeskInv, ReadOnly, receipts, vouchers, numbers
  <2>1. ASSUME NEW s \in Slots, CreateCommit(s) PROVE Forward
    BY <2>1, OpShape DEF CreateCommit, Stages, LedgerSound, TypeOK
  <2>2. ASSUME NEW s \in Slots, ApproveCommit(s) PROVE Forward
    BY <2>2, OpShape, RequestShape DEF SecondPerson, ApproveCommit, CanExecute, Referenced, TypeOK
  <2>3. ASSUME NEW s \in Slots, NEW v \in Vouchers, SubmitCommit(s, v) PROVE Forward
    BY <2>3 DEF SubmitCommit, CanSubmit, Stages
  <2>4. ASSUME NEW s \in Slots, MatchCommit(s) PROVE Forward
    <3>1. op[s].voucher \in Vouchers
      BY <2>4, OpShape DEF MatchCommit, TypeOK
    <3> QED BY <2>4, <3>1 DEF MatchCommit, MatchHoldsRow, VoucherMatchesItems, Stages
  <2>5. ASSUME NEW s \in Slots, LockCommit(s) PROVE Forward
    BY <2>5 DEF LockCommit, CanLock, Stages
  <2>6. ASSUME NEW s \in Slots, HandoverCommit(s) PROVE Forward
    BY <2>6, OpShape DEF HandoverCommit, CanHandover, Stages, TypeOK
  <2>7. CASE status' = status
    BY <2>7
  <2>8. ASSUME NEW s \in Slots, NEW u \in Users,
             \/ \E c \in Colls, h \in Holders, p \in Periods : CreateRead(s, u, c, h, p)
             \/ \E c \in Colls : ReverseRead(s, u, c) \/ HandoverRead(s, u, c)
             \/ \E q \in Reqs, approve \in BOOLEAN : ReviewRead(s, u, q, approve)
             \/ \E picked \in SUBSET Colls, h \in Holders : SubmitRead(s, u, picked, h)
             \/ \E v \in Vouchers : MatchRead(s, u, v) \/ LockRead(s, u, v)
        PROVE status' = status
    BY <2>8 DEF CreateRead, ReverseRead, HandoverRead, ReviewRead, SubmitRead, MatchRead, LockRead
  <2>9. ASSUME NEW s \in Slots,
             \/ \E q \in Reqs : ReverseCommit(s, q)
             \/ RejectCommit(s) \/ MatchTx(s) \/ Conflict(s) \/ Log(s) \/ Fail(s)
        PROVE status' = status
    BY <2>9 DEF CanRequest, ReverseCommit, RejectCommit, MatchTx, Conflict, Log, Fail
  <2>10. ASSUME NEW p \in Periods, LockPeriod(p) \/ UnlockPeriod(p) PROVE status' = status
    BY <2>10 DEF LockPeriod, UnlockPeriod
  <2>11. CASE UNCHANGED vars
    BY <2>11 DEF vars
  <2> QED BY <2>1, <2>2, <2>3, <2>4, <2>5, <2>6, <2>7, <2>8, <2>9, <2>10, <2>11 DEF Next
<1>2. DeskInvariant /\ [Next]_vars => [Forward]_vars
  BY <1>1
<1> HIDE DEF Forward
<1>3. Spec => [][Forward]_vars
  BY <1>2, DeskInvariance, PTL DEF Spec
<1> QED BY <1>3 DEF StatusMovesForward, Forward

-----------------------------------------------------------------------------
(* The refinement.                                                         *)

\* The requests' contribution to the abstract state, step by step.
LEMMA AskedFrame ==
    ASSUME \A q \in Reqs : /\ req'[q].status = "absent" <=> req[q].status = "absent"
                           /\ req[q].status # "absent" =>
                                 req'[q].coll = req[q].coll /\ req'[q].by = req[q].by
    PROVE  Asked' = Asked
BY DEF Asked

\* The desk implements DualControl: recording, asking and executing are its steps,
\* everything else a stutter.
THEOREM DeskRefinesDualControl == Spec => ImplementsDualControl
<1>1. Init => Money!Init
  BY DEF Init, Money!Init, Counted, LedgerHas, Asked, Cancels
<1>2. ASSUME DeskInvariant, [Next]_vars PROVE [Money!Next]_(Money!vars)
  <2> USE <1>2 DEF DeskInvariant, ReadOnly, receipts, vouchers, numbers
  <2>1. ASSUME ledger' = ledger PROVE Counted' = Counted /\ Cancels' = Cancels
    BY <2>1 DEF Counted, LedgerHas, Cancels
  <2>2. ASSUME Counted' = Counted, Cancels' = Cancels, Asked' = Asked PROVE [Money!Next]_(Money!vars)
    BY <2>2 DEF Money!vars
  <2>3. ASSUME NEW s \in Slots, CreateCommit(s) PROVE [Money!Next]_(Money!vars)
    <3>1. PICK c \in Colls : c = op[s].coll
      BY <2>3, OpShape DEF CreateCommit, TypeOK
    <3>2. PICK e : e = [coll |-> c, type |-> "collection", by |-> op[s].user]
      OBVIOUS
    <3>3. /\ ~ LedgerHas(c, "collection") /\ ledger' = ledger \cup {e}
          /\ e.coll = c /\ e.type = "collection" /\ req' = req
      BY <2>3, <3>1, <3>2 DEF CreateCommit
    <3>5. Counted' = Counted \cup {c} /\ c \notin Counted
      BY <3>3, LedgerInsert DEF Counted
    <3>7. Cancels' = Cancels
      BY <3>3 DEF Cancels
    <3>8. Asked' = Asked
      BY <3>3 DEF Asked
    <3>9. Money!Record(c)
      BY <3>5, <3>7, <3>8 DEF Money!Record
    <3> QED BY <3>9 DEF Money!Next
  <2>4. ASSUME NEW s \in Slots, NEW q \in Reqs, ReverseCommit(s, q)
        PROVE [Money!Next]_(Money!vars)
    <3>1. PICK c \in Colls, u \in Users : c = op[s].coll /\ u = op[s].user
      BY <2>4, OpShape DEF CanRequest, ReverseCommit, TypeOK
    <3>2. PICK r : r = [status |-> "pending", coll |-> c, by |-> u]
      OBVIOUS
    <3>3. /\ req' = [req EXCEPT ![q] = r] /\ req[q].status = "absent"
          /\ r.status = "pending" /\ r.coll = c /\ r.by = u /\ ledger' = ledger
      BY <2>4, <3>1, <3>2 DEF CanRequest, ReverseCommit
    <3>4. c \in Counted
      BY <2>4, <3>1 DEF CanRequest, ReverseCommit, Referenced, LedgerSound, Counted
    <3>5. Asked' = Asked \cup {<<c, u>>}
      BY <3>3 DEF Asked, TypeOK
    <3>6. Money!Ask(c, u)
      BY <2>1, <3>3, <3>4, <3>5 DEF Money!Ask
    <3> QED BY <3>6 DEF Money!Next
  <2>5. ASSUME NEW s \in Slots, RejectCommit(s) PROVE [Money!Next]_(Money!vars)
    <3>1. PICK q \in Reqs : q = op[s].req
      BY <2>5, OpShape DEF SecondPerson, RejectCommit, TypeOK
    <3>2. PICK r : r = [status |-> "rejected", coll |-> req[q].coll, by |-> req[q].by,
                        reviewer |-> op[s].user,
                        executed |-> req[q].status # "pending" /\ req[q].executed]
      OBVIOUS
    <3>3. /\ req' = [req EXCEPT ![q] = r] /\ req[q].status # "absent"
          /\ r.status = "rejected" /\ r.coll = req[q].coll /\ r.by = req[q].by
          /\ ledger' = ledger
      BY <2>5, <3>1, <3>2 DEF SecondPerson, RejectCommit, Referenced
    <3>4. Asked' = Asked
      BY <3>3, AskedFrame DEF TypeOK
    <3> QED BY <2>1, <2>2, <3>3, <3>4
  <2>6. ASSUME NEW s \in Slots, ApproveCommit(s) PROVE [Money!Next]_(Money!vars)
    <3>1. PICK q \in Reqs, u \in Users : q = op[s].req /\ u = op[s].user
      BY <2>6, OpShape DEF ApproveCommit, TypeOK
    <3>2. PICK c \in Colls, w \in Users : c = req[q].coll /\ w = req[q].by
      BY <2>6, <3>1, RequestShape DEF SecondPerson, ApproveCommit, CanExecute, TypeOK
    <3>3. PICK r : r = [status |-> "approved", coll |-> c, by |-> w, reviewer |-> u,
                        executed |-> TRUE]
      OBVIOUS
    <3>4. PICK e : e = [coll |-> c, type |-> "collection_reversal", by |-> u]
      OBVIOUS
    <3>5. /\ req' = [req EXCEPT ![q] = r] /\ req[q].status = "pending" /\ w # u
          /\ r.status = "approved" /\ r.coll = req[q].coll /\ r.by = req[q].by
          /\ e.coll = c /\ e.type = "collection_reversal"
          /\ ledger' = ledger \cup {e} /\ ~ LedgerHas(c, "collection_reversal")
      BY <2>6, <3>1, <3>2, <3>3, <3>4 DEF SecondPerson, ApproveCommit, CanExecute
    <3>6. c \in Counted
      BY <3>2, <3>5 DEF Referenced, LedgerSound, Counted
    <3>7. Counted' = Counted
      BY <3>5, LedgerInsert DEF Counted
    <3>8. e.by = u
      BY <3>4
    <3>9. Cancels' = Cancels \cup {<<c, u>>} /\ \A x \in Users : <<c, x>> \notin Cancels
      BY <3>5, <3>8 DEF Cancels, LedgerHas
    <3>10. Asked' = Asked
      BY <3>5, AskedFrame DEF TypeOK
    <3>11. <<c, w>> \in Asked
      BY <3>2, <3>5 DEF Asked
    <3>12. Money!Cancel(c, u)
      BY <3>5, <3>6, <3>7, <3>9, <3>10, <3>11 DEF Money!Cancel
    <3> QED BY <3>12 DEF Money!Next
  <2>7. CASE UNCHANGED <<ledger, req>>
    <3>1. Asked' = Asked
      BY <2>7 DEF Asked
    <3> QED BY <2>1, <2>2, <2>7, <3>1
  <2>8. ASSUME NEW s \in Slots, NEW u \in Users,
             \/ \E c \in Colls, h \in Holders, p \in Periods : CreateRead(s, u, c, h, p)
             \/ \E c \in Colls : ReverseRead(s, u, c) \/ HandoverRead(s, u, c)
             \/ \E q \in Reqs, approve \in BOOLEAN : ReviewRead(s, u, q, approve)
             \/ \E picked \in SUBSET Colls, h \in Holders : SubmitRead(s, u, picked, h)
             \/ \E v \in Vouchers : MatchRead(s, u, v) \/ LockRead(s, u, v)
        PROVE UNCHANGED <<ledger, req>>
    BY <2>8 DEF CreateRead, ReverseRead, HandoverRead, ReviewRead, SubmitRead, MatchRead, LockRead
  <2>9. ASSUME NEW s \in Slots,
             \/ \E v \in Vouchers : SubmitCommit(s, v)
             \/ MatchTx(s) \/ MatchCommit(s) \/ LockCommit(s) \/ HandoverCommit(s)
             \/ Conflict(s) \/ Log(s) \/ Fail(s)
        PROVE UNCHANGED <<ledger, req>>
    BY <2>9 DEF SubmitCommit, MatchTx, MatchCommit, LockCommit, HandoverCommit, Conflict, Log, Fail
  <2>10. ASSUME NEW p \in Periods, LockPeriod(p) \/ UnlockPeriod(p)
         PROVE UNCHANGED <<ledger, req>>
    BY <2>10 DEF LockPeriod, UnlockPeriod
  <2>11. CASE UNCHANGED vars
    BY <2>11, <2>7 DEF vars
  <2> QED BY <2>3, <2>4, <2>5, <2>6, <2>7, <2>8, <2>9, <2>10, <2>11 DEF Next
<1> QED BY <1>1, <1>2, DeskInvariance, PTL DEF Spec, ImplementsDualControl, Money!Spec

-----------------------------------------------------------------------------
(* The audit trail.                                                        *)

\* What a row says of the tables.
Claim(e) ==
    /\ e.action = "collection_created" => LedgerHas(e.coll, "collection")
    /\ e.action = "collection_handed_to_cashier" => e.coll \in cash
    /\ e.action = "collection_reversal_requested" => req[e.req].status # "absent"
    /\ e.action = "collection_reversal_rejected" => req[e.req].status = "rejected"
    /\ e.action = "collection_reversed" => /\ req[e.req].status \in {"approved", "rejected"}
                                           /\ LedgerHas(req[e.req].coll, "collection_reversal")
    /\ e.action = "handover_voucher_created" => voucher[e.voucher] # "absent"
    /\ e.action = "handover_voucher_matched" => voucher[e.voucher] \in {"matched", "locked"}
    /\ e.action = "handover_voucher_locked" => voucher[e.voucher] = "locked"

\* Rows written, and those a handler is about to write.
Claims ==
    /\ \A e \in audit : Claim(e)
    /\ \A s \in Slots : op[s].phase = "log" => Claim(op[s].entry)

\* Nothing that a row could have said is undone.
Lasting ==
    /\ ledger \subseteq ledger' /\ cash \subseteq cash'
    /\ \A q \in Reqs :
          /\ req[q].status # "absent" => req'[q].status # "absent" /\ req'[q].coll = req[q].coll
          /\ req[q].status = "rejected" => req'[q].status = "rejected"
          /\ req[q].status = "approved" => req'[q].status \in {"approved", "rejected"}
    /\ \A v \in Vouchers :
          /\ voucher[v] # "absent" => voucher'[v] # "absent"
          /\ voucher[v] = "matched" => voucher'[v] \in {"matched", "locked"}
          /\ voucher[v] = "locked" => voucher'[v] = "locked"

\* What each kind of row is about.
LEMMA EntryShape ==
    ASSUME NEW e \in Entry
    PROVE  \/ /\ e.action \in {"collection_created", "collection_handed_to_cashier"}
              /\ e.coll \in Colls
           \/ /\ e.action \in {"collection_reversal_requested", "collection_reversal_rejected",
                               "collection_reversed"}
              /\ e.req \in Reqs
           \/ /\ e.action \in {"handover_voucher_created", "handover_voucher_matched",
                               "handover_voucher_locked"}
              /\ e.voucher \in Vouchers
BY DEF Entry

\* True rows make a truthful trail.
LEMMA ClaimsAreTruthful == TypeOK /\ Claims => AuditTruthful
<1> SUFFICES ASSUME TypeOK, Claims PROVE AuditTruthful
  OBVIOUS
<1>1. \A e \in audit : e \in Entry /\ Claim(e)
  BY DEF TypeOK, Claims
<1> QED
  BY <1>1, EntryShape DEF AuditTruthful, Claim

\* Every step of the desk lasts: a match finds its voucher still submitted
\* (MatchHoldsRow), and the other updates ask for the stage before.
LEMMA EveryStepLasts == DeskInvariant /\ [Next]_vars => Lasting
<1> SUFFICES ASSUME DeskInvariant, [Next]_vars PROVE Lasting
  OBVIOUS
<1>t. TypeOK /\ Referenced /\ MatchHoldsRow
  BY DEF DeskInvariant, DeskInv
<1>1. CASE UNCHANGED <<ledger, cash, req, voucher>>
  BY <1>1 DEF Lasting
<1>2. ASSUME NEW s \in Slots, CreateCommit(s) PROVE Lasting
  BY <1>2 DEF CreateCommit, vouchers, Lasting
<1>3. ASSUME NEW s \in Slots, NEW q \in Reqs, ReverseCommit(s, q) PROVE Lasting
  BY <1>t, <1>3 DEF ReverseCommit, vouchers, TypeOK, Lasting
<1>4. ASSUME NEW s \in Slots, RejectCommit(s) PROVE Lasting
  <2>1. PICK q \in Reqs : q = op[s].req
    BY <1>t, <1>4, OpShape DEF TypeOK, RejectCommit
  <2>2. req' = [req EXCEPT ![q] = [status |-> "rejected", coll |-> req[q].coll, by |-> req[q].by,
                                   reviewer |-> op[s].user,
                                   executed |-> req[q].status # "pending" /\ req[q].executed]]
    BY <1>4, <2>1 DEF RejectCommit
  <2> QED BY <1>t, <1>4, <2>2 DEF RejectCommit, vouchers, TypeOK, Lasting
<1>5. ASSUME NEW s \in Slots, ApproveCommit(s) PROVE Lasting
  <2>1. PICK q \in Reqs : q = op[s].req
    BY <1>t, <1>5, OpShape DEF TypeOK, ApproveCommit
  <2> QED BY <1>t, <1>5, <2>1 DEF ApproveCommit, CanExecute, vouchers, TypeOK, Lasting
<1>6. ASSUME NEW s \in Slots, NEW v \in Vouchers, SubmitCommit(s, v) PROVE Lasting
  BY <1>t, <1>6 DEF SubmitCommit, TypeOK, Lasting
<1>7. ASSUME NEW s \in Slots, MatchCommit(s) PROVE Lasting
  <2>1. PICK v \in Vouchers : v = op[s].voucher
    BY <1>t, <1>7, OpShape DEF TypeOK, MatchCommit
  <2>2. voucher[v] = "submitted"
    BY <1>t, <1>7, <2>1 DEF MatchCommit, MatchHoldsRow
  <2> QED BY <1>t, <1>7, <2>1, <2>2 DEF MatchCommit, TypeOK, Lasting
<1>8. ASSUME NEW s \in Slots, LockCommit(s) PROVE Lasting
  <2>1. PICK v \in Vouchers : v = op[s].voucher
    BY <1>t, <1>8, OpShape DEF TypeOK, LockCommit
  <2> QED BY <1>t, <1>8, <2>1 DEF LockCommit, CanLock, TypeOK, Lasting
<1>9. ASSUME NEW s \in Slots, HandoverCommit(s) PROVE Lasting
  BY <1>9 DEF HandoverCommit, vouchers, Lasting
<1>10. ASSUME NEW s \in Slots, MatchTx(s) \/ Conflict(s) \/ Fail(s) \/ Log(s)
       PROVE  UNCHANGED <<ledger, cash, req, voucher>>
  BY <1>10 DEF MatchTx, Conflict, Fail, Log, ReadOnly, vouchers
<1>11. ASSUME NEW s \in Slots, NEW u \in Users,
              \/ \E c \in Colls, h \in Holders, p \in Periods : CreateRead(s, u, c, h, p)
              \/ \E c \in Colls : ReverseRead(s, u, c) \/ HandoverRead(s, u, c)
              \/ \E q \in Reqs, approve \in BOOLEAN : ReviewRead(s, u, q, approve)
              \/ \E picked \in SUBSET Colls, h \in Holders : SubmitRead(s, u, picked, h)
              \/ \E v \in Vouchers : MatchRead(s, u, v) \/ LockRead(s, u, v)
       PROVE  UNCHANGED <<ledger, cash, req, voucher>>
  BY <1>11 DEF CreateRead, ReverseRead, HandoverRead, ReviewRead, SubmitRead, MatchRead, LockRead,
               ReadOnly, vouchers
<1>12. ASSUME NEW p \in Periods, LockPeriod(p) \/ UnlockPeriod(p)
       PROVE  UNCHANGED <<ledger, cash, req, voucher>>
  BY <1>12 DEF LockPeriod, UnlockPeriod, vouchers
<1>13. CASE UNCHANGED vars
  BY <1>13, <1>1 DEF vars
<1> QED
  BY <1>1, <1>2, <1>3, <1>4, <1>5, <1>6, <1>7, <1>8, <1>9, <1>10, <1>11, <1>12, <1>13 DEF Next

\* A row that was true stays true.
LEMMA ClaimLasts ==
    ASSUME Lasting, NEW e \in Entry, Claim(e)
    PROVE  Claim(e)'
<1>1. \A c, t : LedgerHas(c, t) => LedgerHas(c, t)'
  BY DEF Lasting, LedgerHas
<1>2. CASE e.action \in {"collection_created", "collection_handed_to_cashier"}
  BY <1>1, <1>2 DEF Lasting, Claim
<1>3. CASE e.req \in Reqs /\ e.action \in {"collection_reversal_requested",
                                           "collection_reversal_rejected", "collection_reversed"}
  <2>1. /\ req[e.req].status # "absent" => req'[e.req].status # "absent" /\ req'[e.req].coll = req[e.req].coll
        /\ req[e.req].status = "rejected" => req'[e.req].status = "rejected"
        /\ req[e.req].status = "approved" => req'[e.req].status \in {"approved", "rejected"}
    BY <1>3 DEF Lasting
  <2> QED BY <1>1, <1>3, <2>1 DEF Claim
<1>4. CASE e.voucher \in Vouchers /\ e.action \in {"handover_voucher_created",
                                           "handover_voucher_matched", "handover_voucher_locked"}
  BY <1>4 DEF Lasting, Claim
<1> QED
  BY <1>2, <1>3, <1>4, EntryShape

\* A handler about to write its row was so before, or has just committed what the
\* row says (ThenLog at the end of each transaction).
LEMMA LogIsTrue ==
    ASSUME DeskInvariant, [Next]_vars, NEW t \in Slots, op'[t].phase = "log"
    PROVE  op'[t] = op[t] \/ Claim(op[t].entry)'
<1>t. TypeOK /\ MatchHoldsRow
  BY DEF DeskInvariant, DeskInv
<1> USE DEF ThenLog, Claim
<1>1. ASSUME NEW s \in Slots, CreateCommit(s) PROVE op'[t] = op[t] \/ Claim(op[t].entry)'
  <2>1. PICK c \in Colls : c = op[s].coll
    BY <1>t, <1>1, OpShape DEF TypeOK, CreateCommit
  <2>2. op' = [op EXCEPT ![s] = [phase |-> "log", entry |-> [action |-> "collection_created", coll |-> c]]]
    BY <1>1, <2>1 DEF CreateCommit
  <2>3. LedgerHas(c, "collection")'
    <3>1. [coll |-> c, type |-> "collection", by |-> op[s].user] \in ledger'
      BY <1>1, <2>1 DEF CreateCommit
    <3> QED BY <3>1 DEF LedgerHas
  <2> QED BY <1>t, <2>2, <2>3 DEF TypeOK
<1>2. ASSUME NEW s \in Slots, NEW q \in Reqs, ReverseCommit(s, q)
      PROVE op'[t] = op[t] \/ Claim(op[t].entry)'
  BY <1>t, <1>2 DEF ReverseCommit, TypeOK
<1>3. ASSUME NEW s \in Slots, RejectCommit(s) PROVE op'[t] = op[t] \/ Claim(op[t].entry)'
  <2>1. PICK q \in Reqs : q = op[s].req
    BY <1>t, <1>3, OpShape DEF TypeOK, RejectCommit
  <2>2. req'[q].status = "rejected"
    BY <1>t, <1>3, <2>1 DEF RejectCommit, TypeOK
  <2>3. op' = [op EXCEPT ![s] = [phase |-> "log", entry |-> [action |-> "collection_reversal_rejected", req |-> q]]]
    BY <1>3, <2>1 DEF RejectCommit
  <2> QED BY <1>t, <2>2, <2>3 DEF TypeOK
<1>4. ASSUME NEW s \in Slots, ApproveCommit(s) PROVE op'[t] = op[t] \/ Claim(op[t].entry)'
  <2>1. PICK q \in Reqs : q = op[s].req
    BY <1>t, <1>4, OpShape DEF TypeOK, ApproveCommit
  <2>2. PICK c : c = req[q].coll
    OBVIOUS
  <2>3. req'[q].status = "approved" /\ req'[q].coll = c /\ LedgerHas(c, "collection_reversal")'
    <3>1. [coll |-> c, type |-> "collection_reversal", by |-> op[s].user] \in ledger'
      BY <1>4, <2>1, <2>2 DEF ApproveCommit
    <3>2. req'[q].status = "approved" /\ req'[q].coll = c
      BY <1>t, <1>4, <2>1, <2>2 DEF ApproveCommit, TypeOK
    <3> QED BY <3>1, <3>2 DEF LedgerHas
  <2>4. op' = [op EXCEPT ![s] = [phase |-> "log", entry |-> [action |-> "collection_reversed", req |-> q]]]
    BY <1>4, <2>1 DEF ApproveCommit
  <2> QED BY <1>t, <2>3, <2>4 DEF TypeOK
<1>5. ASSUME NEW s \in Slots, NEW v \in Vouchers, SubmitCommit(s, v)
      PROVE op'[t] = op[t] \/ Claim(op[t].entry)'
  BY <1>t, <1>5 DEF SubmitCommit, TypeOK
<1>6. ASSUME NEW s \in Slots, MatchCommit(s) PROVE op'[t] = op[t] \/ Claim(op[t].entry)'
  <2>1. op[s].voucher \in Vouchers
    BY <1>t, <1>6, OpShape DEF TypeOK, MatchCommit
  <2> QED BY <1>t, <1>6, <2>1 DEF MatchCommit, TypeOK
<1>7. ASSUME NEW s \in Slots, LockCommit(s) PROVE op'[t] = op[t] \/ Claim(op[t].entry)'
  <2>1. op[s].voucher \in Vouchers
    BY <1>t, <1>7, OpShape DEF TypeOK, LockCommit
  <2> QED BY <1>t, <1>7, <2>1 DEF LockCommit, TypeOK
<1>8. ASSUME NEW s \in Slots, HandoverCommit(s) PROVE op'[t] = op[t] \/ Claim(op[t].entry)'
  BY <1>t, <1>8 DEF HandoverCommit, TypeOK
<1>9. ASSUME NEW s \in Slots, MatchTx(s) \/ Conflict(s) \/ Fail(s) \/ Log(s) PROVE op'[t] = op[t]
  BY <1>t, <1>9 DEF MatchTx, Conflict, Fail, Log, Free, Idle, TypeOK
<1>10. ASSUME NEW s \in Slots, NEW u \in Users,
              \/ \E c \in Colls, h \in Holders, p \in Periods : CreateRead(s, u, c, h, p)
              \/ \E c \in Colls : ReverseRead(s, u, c) \/ HandoverRead(s, u, c)
              \/ \E q \in Reqs, approve \in BOOLEAN : ReviewRead(s, u, q, approve)
              \/ \E picked \in SUBSET Colls, h \in Holders : SubmitRead(s, u, picked, h)
              \/ \E v \in Vouchers : MatchRead(s, u, v) \/ LockRead(s, u, v)
       PROVE  op'[t] = op[t]
  BY <1>t, <1>10 DEF CreateRead, ReverseRead, HandoverRead, ReviewRead, SubmitRead, MatchRead, LockRead,
                     Begin, TypeOK
<1>11. ASSUME NEW p \in Periods, LockPeriod(p) \/ UnlockPeriod(p) PROVE op'[t] = op[t]
  BY <1>11 DEF LockPeriod, UnlockPeriod
<1>12. CASE UNCHANGED vars
  BY <1>12 DEF vars
<1> QED
  BY <1>1, <1>2, <1>3, <1>4, <1>5, <1>6, <1>7, <1>8, <1>9, <1>10, <1>11, <1>12 DEF Next

\* Only Log writes a row, and the row its handler was about to write.
LEMMA RowsAreLogged ==
    ASSUME TypeOK, [Next]_vars
    PROVE  \A e \in audit' : e \in audit \/ \E s \in Slots : op[s].phase = "log" /\ e = op[s].entry
<1> DEFINE Logged == \A e \in audit' : e \in audit \/ \E r \in Slots : op[r].phase = "log" /\ e = op[r].entry
<1>0. audit' = audit => Logged
  OBVIOUS
<1>1. ASSUME NEW s \in Slots, Log(s) PROVE Logged
  BY <1>1 DEF Log
<1>2. ASSUME NEW s \in Slots, NEW u \in Users,
             \/ \E c \in Colls, h \in Holders, p \in Periods : CreateRead(s, u, c, h, p)
             \/ \E c \in Colls : ReverseRead(s, u, c) \/ HandoverRead(s, u, c)
             \/ \E q \in Reqs, approve \in BOOLEAN : ReviewRead(s, u, q, approve)
             \/ \E picked \in SUBSET Colls, h \in Holders : SubmitRead(s, u, picked, h)
             \/ \E v \in Vouchers : MatchRead(s, u, v) \/ LockRead(s, u, v)
      PROVE  Logged
  BY <1>0, <1>2 DEF CreateRead, ReverseRead, ReviewRead, SubmitRead, MatchRead, LockRead, HandoverRead, ReadOnly
<1>3. ASSUME NEW s \in Slots,
             \/ CreateCommit(s) \/ RejectCommit(s) \/ ApproveCommit(s) \/ HandoverCommit(s)
             \/ \E q \in Reqs : ReverseCommit(s, q)
             \/ \E v \in Vouchers : SubmitCommit(s, v)
      PROVE  Logged
  BY <1>0, <1>3 DEF CreateCommit, RejectCommit, ApproveCommit, HandoverCommit, ReverseCommit, SubmitCommit
<1>4. ASSUME NEW s \in Slots, MatchTx(s) \/ MatchCommit(s) \/ LockCommit(s) \/ Conflict(s) \/ Fail(s)
      PROVE  Logged
  BY <1>0, <1>4 DEF MatchTx, MatchCommit, LockCommit, Conflict, Fail, ReadOnly
<1>5. ASSUME NEW p \in Periods, LockPeriod(p) \/ UnlockPeriod(p) PROVE Logged
  BY <1>0, <1>5 DEF LockPeriod, UnlockPeriod
<1>6. CASE UNCHANGED vars
  BY <1>0, <1>6 DEF vars
<1> QED
  BY <1>1, <1>2, <1>3, <1>4, <1>5, <1>6 DEF Next

\* What every written row and every row about to be written says stays true:
\* the rows there were last, and a commit announces only what it did.
LEMMA ClaimsStep == DeskInvariant /\ Claims /\ [Next]_vars => Claims'
<1> SUFFICES ASSUME DeskInvariant, Claims, [Next]_vars PROVE Claims'
  OBVIOUS
<1>1. TypeOK /\ Lasting
  BY EveryStepLasts DEF DeskInvariant
<1>2. \A s \in Slots : op[s].phase = "log" => op[s].entry \in Entry
  BY <1>1, OpShape DEF TypeOK
<1>3. \A e \in Entry : Claim(e) => Claim(e)'
  BY <1>1, ClaimLasts
<1>4. \A e \in audit' : Claim(e)'
  <2>1. \A e \in audit : e \in Entry /\ Claim(e)
    BY <1>1 DEF TypeOK, Claims
  <2>2. \A s \in Slots : op[s].phase = "log" => op[s].entry \in Entry /\ Claim(op[s].entry)
    BY <1>2 DEF Claims
  <2> QED BY <1>1, <1>3, <2>1, <2>2, RowsAreLogged
<1>5. \A s \in Slots : op'[s].phase = "log" => Claim(op[s].entry)'
  <2> SUFFICES ASSUME NEW s \in Slots, op'[s].phase = "log" PROVE Claim(op[s].entry)'
    OBVIOUS
  <2>1. CASE op'[s] = op[s]
    <3>1. op[s].entry \in Entry /\ Claim(op[s].entry)
      BY <2>1, <1>2 DEF Claims
    <3> QED BY <2>1, <1>3, <3>1
  <2> QED BY <2>1, LogIsTrue
<1> QED
  BY <1>4, <1>5 DEF Claims

\* No audit row claims what did not happen or was undone, whatever commits between a
\* handler's transaction and its row (AuditService.log).
THEOREM AuditTells == Spec => []AuditTruthful
<1>1. Init => Claims
  BY DEF Init, Claims, Idle
<1>2. TypeOK /\ Claims => AuditTruthful
  BY ClaimsAreTruthful
<1>3. DeskInvariant => TypeOK
  BY DEF DeskInvariant
<1> QED
  BY <1>1, <1>2, <1>3, ClaimsStep, DeskInvariance, PTL DEF Spec
=============================================================================
