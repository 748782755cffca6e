----------------------------- MODULE Transfers -----------------------------
(***************************************************************************)
(* Inventory transfers: drawn up, submitted, approved by somebody else or  *)
(* rejected.  An approval checks the transfer against Oracle, has the      *)
(* gateway draft it under the transfer's own reference, and then writes    *)
(* its outcome by id.  Quotations and sales orders are sent to the gateway *)
(* straight from their screens.                                            *)
(*                                                                         *)
(* Linking to Oracle's document and reading its progress are left out.     *)
(***************************************************************************)
EXTENDS DraftGateway

CONSTANTS Transfers, \* transfers, which are references as well
          Content,   \* what each transfer asks for, fixed when it is drawn up
          Users,
          Slots      \* handlers running at the same time

ASSUME TransfersAssumption ==
    /\ Transfers \subseteq References \ Marked
    /\ Content \in [Transfers -> Bodies]
    /\ None \notin Users

VARIABLES status,   \* inventory_transfer_requests.status
          createdBy,
          outReqNo, \* oracleOutReqNo, or 0
          op        \* what each handler has read

desk == <<status, createdBy, outReqNo, op>>
vars == <<gateway, desk>>

Idle == [phase |-> "idle"]
Op ==
    {Idle}
    \cup [phase : {"submit", "reject", "check"}, of : Transfers]
    \cup [phase : {"await"}, of : Transfers, job : Jobs]
    \cup [phase : {"approve"}, of : Transfers, no : 1 .. MaxNo]

TypeOK ==
    /\ GatewayTypeOK
    /\ status \in [Transfers -> {"absent", "draft", "pending_approval", "approved", "rejected"}]
    /\ createdBy \in [Transfers -> Users \cup {None}]
    /\ \A t \in Transfers : createdBy[t] = None <=> status[t] = "absent"
    /\ outReqNo \in [Transfers -> 0 .. MaxNo]
    /\ op \in [Slots -> Op]

Init ==
    /\ GatewayInit
    /\ status = [t \in Transfers |-> "absent"]
    /\ createdBy = [t \in Transfers |-> None]
    /\ outReqNo = [t \in Transfers |-> 0]
    /\ op = [s \in Slots |-> Idle]

Start(s, o) == op[s] = Idle /\ op' = [op EXCEPT ![s] = o]
End(s) == op' = [op EXCEPT ![s] = Idle]

-----------------------------------------------------------------------------
(* Drawing up, submitting, rejecting.                                      *)

\* The unique idempotency key makes the transfer once.
Create(u, t) ==
    /\ status[t] = "absent"
    /\ status' = [status EXCEPT ![t] = "draft"]
    /\ createdBy' = [createdBy EXCEPT ![t] = u]
    /\ UNCHANGED <<gateway, outReqNo, op>>

SubmitRead(s, t) ==
    /\ status[t] \in {"draft", "rejected"}
    /\ Start(s, [phase |-> "submit", of |-> t])
    /\ UNCHANGED <<gateway, status, createdBy, outReqNo>>

RejectRead(s, t) ==
    /\ status[t] = "pending_approval"
    /\ Start(s, [phase |-> "reject", of |-> t])
    /\ UNCHANGED <<gateway, status, createdBy, outReqNo>>

\* Both write by id alone.
SetStatus(s, x) ==
    /\ status' = [status EXCEPT ![op[s].of] = x]
    /\ End(s)
    /\ UNCHANGED <<gateway, createdBy, outReqNo>>

SubmitCommit(s) == op[s].phase = "submit" /\ SetStatus(s, "pending_approval")
RejectCommit(s) == op[s].phase = "reject" /\ SetStatus(s, "rejected")

-----------------------------------------------------------------------------
(* Approving.                                                              *)
\* Mutant of ApproveRead: drafts may be approved without being submitted.
ApproveUnsubmitted(s, u, t) ==
    /\ status[t] \in {"draft", "pending_approval"} /\ createdBy[t] # u
    /\ Start(s, [phase |-> "check", of |-> t])
    /\ UNCHANGED <<gateway, status, createdBy, outReqNo>>

ApproveRead(s, u, t) ==
    /\ status[t] = "pending_approval" /\ createdBy[t] # u
    /\ Start(s, [phase |-> "check", of |-> t])
    /\ UNCHANGED <<gateway, status, createdBy, outReqNo>>

\* The dry run found errors.
Invalid(s) ==
    /\ op[s].phase = "check"
    /\ End(s)
    /\ UNCHANGED <<gateway, status, createdBy, outReqNo>>

\* The dry run found none, and the draft is asked for.
AskDraft(s, j) ==
    /\ op[s].phase = "check"
    /\ Post(j, [ref |-> op[s].of, body |-> Content[op[s].of]])
    /\ op' = [op EXCEPT ![s] = [phase |-> "await", of |-> op[s].of, job |-> j]]
    /\ UNCHANGED <<status, createdBy, outReqNo>>

\* An answer other than a draft's number ends the approval with an error.
DraftAnswered(s) ==
    /\ op[s].phase = "await"
    /\ LET j == op[s].job IN
       /\ Hear(j)
       /\ IF reply[j].status = "ok"
          THEN op' = [op EXCEPT ![s] = [phase |-> "approve", of |-> op[s].of, no |-> reply[j].no]]
          ELSE End(s)
    /\ UNCHANGED <<status, createdBy, outReqNo>>
\* Mutant of DraftTimeout: an unconfirmed draft is taken for approved.
Presumed(s) ==
    /\ op[s].phase = "await"
    /\ GiveUp(op[s].job)
    /\ status' = [status EXCEPT ![op[s].of] = "approved"]
    /\ End(s)
    /\ UNCHANGED <<createdBy, outReqNo>>

\* Twenty seconds without an answer; the job may still write the draft.
DraftTimeout(s) ==
    /\ op[s].phase = "await"
    /\ GiveUp(op[s].job)
    /\ End(s)
    /\ UNCHANGED <<status, createdBy, outReqNo>>

\* By id alone, whatever the status is by now.
ApproveCommit(s) ==
    /\ op[s].phase = "approve"
    /\ status' = [status EXCEPT ![op[s].of] = "approved"]
    /\ outReqNo' = [outReqNo EXCEPT ![op[s].of] = op[s].no]
    /\ End(s)
    /\ UNCHANGED <<gateway, createdBy>>

\* The server stops between two steps; a call it made goes on.
Stop(s) ==
    /\ op[s].phase \in {"submit", "reject", "check", "approve"}
    /\ End(s)
    /\ UNCHANGED <<gateway, status, createdBy, outReqNo>>

-----------------------------------------------------------------------------
(* Everything.                                                             *)

Owned(j) == \E s \in Slots : op[s].phase = "await" /\ op[s].job = j

\* The screens of the other documents, with any content.
Screen(j) ==
    /\ \/ \E r \in References \ Transfers, b \in Bodies : Post(j, [ref |-> r, body |-> b])
       \/ ~Owned(j) /\ (Hear(j) \/ GiveUp(j))
    /\ UNCHANGED desk

Writer(j) == Serve(j) /\ UNCHANGED desk

Handle(s) ==
    \/ \E t \in Transfers : SubmitRead(s, t) \/ RejectRead(s, t)
    \/ \E u \in Users, t \in Transfers : ApproveRead(s, u, t)
    \/ SubmitCommit(s) \/ RejectCommit(s) \/ Invalid(s)
    \/ \E j \in Jobs : AskDraft(s, j)
    \/ DraftAnswered(s) \/ DraftTimeout(s) \/ ApproveCommit(s) \/ Stop(s)

Next ==
    \/ \E u \in Users, t \in Transfers : Create(u, t)
    \/ \E s \in Slots : Handle(s)
    \/ \E j \in Jobs : Screen(j) \/ Writer(j)

Spec == Init /\ [][Next]_vars

-----------------------------------------------------------------------------
(* Properties.                                                             *)

\* An approved transfer has a draft of its own in Oracle, and bears its number,
\* however many approvals overlapped, timed out or were retried.
ApprovedHasDraft == \A t \in Transfers :
    status[t] = "approved" \/ outReqNo[t] # 0 =>
        [ref |-> t, body |-> Content[t], no |-> outReqNo[t]] \in drafts

\* The number a transfer bears never changes, though each approval writes it.
NumberKept == [][\A t \in Transfers : outReqNo[t] # 0 => outReqNo'[t] = outReqNo[t]]_vars

\* Nothing is asked of Oracle for a transfer that nobody has submitted yet.
NothingUnasked == \A t \in Transfers :
    status[t] \in {"absent", "draft"} =>
        Existing(t) = {} /\ \A j \in Jobs : asks[j].ref # t
=============================================================================
