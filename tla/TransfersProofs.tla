-------------------------- MODULE TransfersProofs --------------------------
(***************************************************************************)
(* Proofs about Transfers: an approved transfer has the draft it names,    *)
(* keeps its number, and is not heard of in Oracle before it is submitted; *)
(* for any transfers, people, handlers and jobs.                           *)
(***************************************************************************)
EXTENDS Transfers, DraftGatewayProofs

Known(t) == status[t] # "absent"
Submitted(t) == status[t] \notin {"absent", "draft"}

\* What may be asked of Oracle.
MayAsk(r, b) == r \in Transfers => b = Content[r] /\ Submitted(r)

\* Only that is asked and drafted.
Carried ==
    /\ \A d \in drafts : MayAsk(d.ref, d.body)
    /\ \A j \in Jobs : stage[j] # "idle" => MayAsk(asks[j].ref, asks[j].body)

\* What a handler has read still holds when it writes: its transfer has not
\* gone back, its call is still its own, its number is that of a draft.
OpOK(o) ==
    /\ o.phase = "submit" => Known(o.of)
    /\ o.phase \in {"reject", "check", "await", "approve"} => Submitted(o.of)
    /\ o.phase = "await" =>
          waits[o.job] /\ asks[o.job] = [ref |-> o.of, body |-> Content[o.of]]
    /\ o.phase = "approve" => [ref |-> o.of, body |-> Content[o.of], no |-> o.no] \in drafts

\* No two handlers wait for one call.
Sole == \A s, r \in Slots :
    op[s].phase = "await" /\ op[r].phase = "await" /\ op[s].job = op[r].job => s = r

TransfersInvariant ==
    /\ GatewayInvariant /\ TypeOK /\ Carried /\ Sole
    /\ \A s \in Slots : OpOK(op[s])
    /\ ApprovedHasDraft

-----------------------------------------------------------------------------
(* Frames.                                                                 *)

\* No transfer is undone.
Forward == \A t \in Transfers :
    (Known(t) => Known(t)') /\ (Submitted(t) => Submitted(t)')

DraftsStay == drafts \subseteq drafts'

\* A job keeps its request, drops it, or carries one it may.
JobsFair ==
    /\ \A j \in Jobs : \/ stage'[j] = "idle"
                       \/ stage[j] # "idle" /\ asks'[j] = asks[j]
                       \/ asks'[j] \in Request /\ MayAsk(asks'[j].ref, asks'[j].body)
    /\ \A d \in drafts' \ drafts : MayAsk(d.ref, d.body)

\* A handler's call is left alone.
JobKept(j) == waits[j] => waits'[j] /\ asks'[j] = asks[j]

\* The kinds of things a handler has read.
LEMMA OpForms ==
    ASSUME NEW o \in Op
    PROVE  /\ o.phase \in {"idle", "submit", "reject", "check", "await", "approve"}
           /\ o.phase # "idle" => o.of \in Transfers
           /\ o.phase = "await" => o.job \in Jobs
           /\ o.phase = "approve" => o.no \in 1 .. MaxNo
BY DEF Op, Idle

\* What a handler has read stays so.
LEMMA OpKeeps ==
    ASSUME NEW o \in Op, OpOK(o), Forward, DraftsStay,
           o.phase = "await" => JobKept(o.job)
    PROVE  OpOK(o)'
BY OpForms DEF OpOK, Forward, DraftsStay, JobKept

\* What is carried stays what may be.
LEMMA CarriedKeeps ==
    ASSUME Carried, TypeOK, TypeOK', Forward, JobsFair
    PROVE  Carried'
<1>1. ASSUME NEW r, NEW b, MayAsk(r, b) PROVE MayAsk(r, b)'
  BY <1>1 DEF MayAsk, Forward
<1>2. ASSUME NEW d \in drafts' PROVE MayAsk(d.ref, d.body)'
  BY <1>1, <1>2 DEF Carried, JobsFair
<1>3. ASSUME NEW j \in Jobs, stage'[j] # "idle"
      PROVE  MayAsk(asks[j].ref, asks[j].body)'
  <2>1. PICK q : q = asks'[j]
    OBVIOUS
  <2>2. MayAsk(q.ref, q.body)
    BY <1>3, <2>1 DEF Carried, JobsFair
  <2>3. MayAsk(q.ref, q.body)'
    BY <1>1, <2>2
  <2> QED BY <2>1, <2>3 DEF MayAsk
<1> QED BY <1>2, <1>3 DEF Carried

\* A writer's step drafts what its job carries, and leaves a caller that waits
\* its call.
LEMMA ServeEffect ==
    ASSUME GatewayInvariant, NEW j \in Jobs, Serve(j)
    PROVE  /\ Alone(j) /\ JobKept(j) /\ DraftsStay /\ stage[j] # "idle"
           /\ stage'[j] = "idle" \/ asks'[j] = asks[j]
           /\ \A d \in drafts' \ drafts : d.ref = asks[j].ref /\ d.body = asks[j].body
<1>0. JobsTyped /\ JobOK(j)
  BY TypeParts DEF GatewayInvariant
<1>1. ASSUME NEW s, Proceed(j, s) PROVE Alone(j) /\ JobKept(j) /\ asks'[j] = asks[j]
  BY <1>0, <1>1 DEF Proceed, Alone, JobKept, JobsTyped
<1>2. ASSUME NEW a, Answer(j, a)
      PROVE  Alone(j) /\ JobKept(j) /\ (stage'[j] = "idle" \/ asks'[j] = asks[j])
  <2>1. CASE waits[j]
    BY <1>0, <1>2, <2>1 DEF Answer, Alone, JobKept, JobsTyped
  <2>2. CASE ~waits[j]
    BY <1>0, <1>2, <2>2, ClearEffect DEF Answer, JobKept
  <2> QED BY <2>1, <2>2
<1>3. CASE LockTable(j)
  BY <1>1, <1>3 DEF LockTable, DraftsStay
<1>4. CASE Repeat(j)
  BY <1>2, <1>4 DEF Repeat, DraftsStay
<1>5. CASE TakeNumber(j)
  BY <1>1, <1>5 DEF TakeNumber, DraftsStay
<1>6. CASE Write(j)
  BY <1>2, <1>6 DEF Write, DraftsStay
<1>7. CASE Fail(j)
  BY <1>2, <1>7 DEF Fail, DraftsStay, Holding
<1> QED BY <1>3, <1>4, <1>5, <1>6, <1>7 DEF Serve

\* A caller's step that does not post drafts nothing and moves its job alone.
LEMMA CallerEffect ==
    ASSUME GatewayInvariant, NEW j \in Jobs, Hear(j) \/ GiveUp(j)
    PROVE  /\ Alone(j) /\ drafts' = drafts
           /\ stage'[j] = "idle" \/ (asks'[j] = asks[j] /\ stage'[j] = stage[j])
<1>0. JobsTyped
  BY TypeParts DEF GatewayInvariant
<1>1. CASE Hear(j)
  BY <1>0, <1>1, ClearEffect DEF Hear
<1>2. CASE GiveUp(j)
  <2>1. CASE stage[j] = "answered"
    BY <1>0, <1>2, <2>1, ClearEffect DEF GiveUp
  <2>2. CASE stage[j] # "answered"
    BY <1>0, <1>2, <2>2 DEF GiveUp, Alone, JobsTyped
  <2> QED BY <2>1, <2>2
<1> QED BY <1>1, <1>2

DeskTyped ==
    /\ status \in [Transfers -> {"absent", "draft", "pending_approval", "approved", "rejected"}]
    /\ createdBy \in [Transfers -> Users \cup {None}]
    /\ \A t \in Transfers : createdBy[t] = None <=> status[t] = "absent"
    /\ outReqNo \in [Transfers -> 0 .. MaxNo]

\* TypeOK is about the gateway, the transfers and the handlers.
LEMMA DeskParts == TypeOK <=> GatewayTypeOK /\ DeskTyped /\ op \in [Slots -> Op]
BY DEF TypeOK, DeskTyped

\* The handlers' part of the invariant.
HandlersOK == op \in [Slots -> Op] /\ Sole /\ \A s \in Slots : OpOK(op[s])

\* A step of the handler s leaves it with something sound, and the others with
\* what they have.
LEMMA HandlerStep ==
    ASSUME HandlersOK, NEW s \in Slots, NEW o \in Op, op' = [op EXCEPT ![s] = o],
           Forward, DraftsStay, OpOK(o)',
           \A r \in Slots \ {s} : op[r].phase = "await" => JobKept(op[r].job),
           \A r \in Slots \ {s} :
              op[r].phase = "await" /\ o.phase = "await" => op[r].job # o.job
    PROVE  HandlersOK'
<1>1. op' \in [Slots -> Op] /\ op'[s] = o /\ \A r \in Slots \ {s} : op'[r] = op[r]
  BY DEF HandlersOK
<1>2. Sole'
  BY <1>1 DEF HandlersOK, Sole
<1>3. ASSUME NEW r \in Slots PROVE OpOK(op[r])'
  <2>1. CASE r = s
    BY <1>1, <2>1 DEF OpOK
  <2>2. CASE r # s
    <3>1. PICK q \in Op : q = op[r] /\ q = op'[r]
      BY <1>1, <2>2 DEF HandlersOK
    <3>2. OpOK(q) /\ (q.phase = "await" => JobKept(q.job))
      BY <2>2, <3>1 DEF HandlersOK
    <3>3. OpOK(q)'
      BY <3>2, OpKeeps
    <3> QED BY <3>1, <3>3 DEF OpOK
  <2> QED BY <2>1, <2>2
<1> QED BY <1>1, <1>2, <1>3 DEF HandlersOK

\* A step that no handler takes.
LEMMA HandlersWait ==
    ASSUME HandlersOK, op' = op, Forward, DraftsStay,
           \A r \in Slots : op[r].phase = "await" => JobKept(op[r].job)
    PROVE  HandlersOK'
<1>1. ASSUME NEW r \in Slots PROVE OpOK(op[r])'
  <2>1. PICK q \in Op : q = op[r] /\ q = op'[r]
    BY DEF HandlersOK
  <2>2. OpOK(q) /\ (q.phase = "await" => JobKept(q.job))
    BY <2>1 DEF HandlersOK
  <2>3. OpOK(q)'
    BY <2>2, OpKeeps
  <2> QED BY <2>1, <2>3 DEF OpOK
<1> QED BY <1>1 DEF HandlersOK, Sole

\* What a step that keeps the parts leaves.
LEMMA Assemble ==
    ASSUME TransfersInvariant, GatewayInvariant', DeskTyped', HandlersOK', Forward, JobsFair,
           ApprovedHasDraft'
    PROVE  TransfersInvariant'
<1>1. TypeOK'
  BY DeskParts DEF GatewayInvariant, HandlersOK, TypeOK, DeskTyped
<1>2. Carried'
  BY <1>1, CarriedKeeps DEF TransfersInvariant
<1> QED BY <1>1, <1>2 DEF TransfersInvariant, HandlersOK

\* Nothing of a transfer changes.
DeskStill == UNCHANGED <<status, createdBy, outReqNo>>

\* What that keeps.
LEMMA DeskKeeps ==
    ASSUME TransfersInvariant, DeskStill
    PROVE  DeskTyped' /\ Forward /\ (DraftsStay => ApprovedHasDraft')
<1>1. DeskTyped
  BY DeskParts DEF TransfersInvariant
<1> QED BY <1>1 DEF DeskStill, TransfersInvariant, DeskTyped, Forward, Known, Submitted,
           ApprovedHasDraft, DraftsStay

\* And what a still gateway keeps.
LEMMA GatewayKeeps ==
    ASSUME TransfersInvariant, UNCHANGED gateway
    PROVE  GatewayInvariant' /\ DraftsStay /\ JobsFair /\ \A j \in Jobs : JobKept(j)
<1>1. GatewayInvariant'
  BY GatewayStep DEF TransfersInvariant
<1> QED BY <1>1 DEF gateway, DraftsStay, JobsFair, JobKept

\* The invariant's parts.
LEMMA InvariantParts ==
    TransfersInvariant => GatewayInvariant /\ JobsTyped /\ DeskTyped /\ HandlersOK
BY DeskParts, TypeParts DEF TransfersInvariant, HandlersOK, GatewayInvariant

-----------------------------------------------------------------------------
(* Handlers that leave the gateway alone.                                  *)

\* A step of a handler that changes no transfer and no call.
LEMMA ReadStep ==
    ASSUME TransfersInvariant, NEW s \in Slots, NEW o \in Op, op' = [op EXCEPT ![s] = o],
           UNCHANGED gateway, DeskStill, o.phase # "await", OpOK(o)
    PROVE  TransfersInvariant'
<1>1. GatewayInvariant' /\ DraftsStay /\ JobsFair /\ (\A j \in Jobs : JobKept(j))
  BY GatewayKeeps
<1>2. DeskTyped' /\ Forward /\ ApprovedHasDraft' /\ HandlersOK
  BY <1>1, DeskKeeps, InvariantParts
<1>3. OpOK(o)'
  BY <1>1, <1>2, OpKeeps
<1>4. \A r \in Slots : op[r].phase = "await" => JobKept(op[r].job)
  BY <1>1, <1>2, OpForms DEF HandlersOK
<1>5. HandlersOK'
  BY <1>1, <1>2, <1>3, <1>4, HandlerStep
<1> QED BY <1>1, <1>2, <1>5, Assemble

\* An idle handler has read nothing.
LEMMA IdleOK == Idle \in Op /\ OpOK(Idle) /\ Idle.phase = "idle"
BY DEF Idle, Op, OpOK

\* Submitting, rejecting, approving: what is read; and handlers that end there.
LEMMA ReadsStep ==
    ASSUME TransfersInvariant, NEW s \in Slots,
           \/ \E t \in Transfers : SubmitRead(s, t) \/ RejectRead(s, t)
           \/ \E u \in Users, t \in Transfers : ApproveRead(s, u, t)
           \/ Invalid(s) \/ Stop(s)
    PROVE  TransfersInvariant'
<1>1. ASSUME NEW t \in Transfers, SubmitRead(s, t) PROVE TransfersInvariant'
  <2>1. [phase |-> "submit", of |-> t] \in Op /\ OpOK([phase |-> "submit", of |-> t])
    BY <1>1 DEF SubmitRead, Op, OpOK, Known
  <2> QED BY <1>1, <2>1, ReadStep DEF SubmitRead, Start, DeskStill
<1>2. ASSUME NEW t \in Transfers, RejectRead(s, t) PROVE TransfersInvariant'
  <2>1. [phase |-> "reject", of |-> t] \in Op /\ OpOK([phase |-> "reject", of |-> t])
    BY <1>2 DEF RejectRead, Op, OpOK, Submitted
  <2> QED BY <1>2, <2>1, ReadStep DEF RejectRead, Start, DeskStill
<1>3. ASSUME NEW u \in Users, NEW t \in Transfers, ApproveRead(s, u, t)
      PROVE  TransfersInvariant'
  <2>1. [phase |-> "check", of |-> t] \in Op /\ OpOK([phase |-> "check", of |-> t])
    BY <1>3 DEF ApproveRead, Op, OpOK, Submitted
  <2> QED BY <1>3, <2>1, ReadStep DEF ApproveRead, Start, DeskStill
<1>4. CASE Invalid(s) \/ Stop(s)
  BY <1>4, IdleOK, ReadStep DEF Invalid, Stop, End, DeskStill
<1> QED BY <1>1, <1>2, <1>3, <1>4

\* Submitting and rejecting: what is written.
LEMMA SetStatusStep ==
    ASSUME TransfersInvariant, NEW s \in Slots, SubmitCommit(s) \/ RejectCommit(s)
    PROVE  TransfersInvariant'
<1>1. GatewayInvariant' /\ DraftsStay /\ JobsFair /\ (\A j \in Jobs : JobKept(j))
  BY GatewayKeeps DEF SubmitCommit, RejectCommit, SetStatus
<1>2. PICK t \in Transfers, x \in {"pending_approval", "rejected"} :
         op[s].of = t /\ Known(t) /\ status' = [status EXCEPT ![t] = x]
  BY InvariantParts, OpForms DEF SubmitCommit, RejectCommit, SetStatus, HandlersOK, OpOK, Known,
     Submitted
<1>3. DeskTyped /\ HandlersOK /\ UNCHANGED <<createdBy, outReqNo>>
  BY InvariantParts DEF SubmitCommit, RejectCommit, SetStatus
<1>4. DeskTyped'
  BY <1>2, <1>3 DEF DeskTyped, Known
<1>5. Forward
  BY <1>2, <1>3 DEF Forward, DeskTyped, Known, Submitted
<1>6. ApprovedHasDraft'
  BY <1>1, <1>2, <1>3 DEF ApprovedHasDraft, TransfersInvariant, DraftsStay, DeskTyped
<1>7. OpOK(Idle)' /\ op' = [op EXCEPT ![s] = Idle]
  BY DEF OpOK, Idle, SubmitCommit, RejectCommit, SetStatus, End
<1>8. \A r \in Slots : op[r].phase = "await" => JobKept(op[r].job)
  BY <1>1, <1>3, OpForms DEF HandlersOK
<1>9. HandlersOK'
  BY <1>1, <1>3, <1>5, <1>7, <1>8, IdleOK, HandlerStep
<1> QED BY <1>1, <1>4, <1>5, <1>6, <1>9, Assemble

\* Approving: what is written, if Oracle has drafted it.
LEMMA ApproveStep ==
    ASSUME TransfersInvariant, NEW s \in Slots, ApproveCommit(s)
    PROVE  TransfersInvariant'
<1>1. GatewayInvariant' /\ DraftsStay /\ JobsFair /\ (\A j \in Jobs : JobKept(j))
  BY GatewayKeeps DEF ApproveCommit
<1>2. PICK t \in Transfers, n \in 1 .. MaxNo :
         /\ op[s].of = t /\ Submitted(t)
         /\ [ref |-> t, body |-> Content[t], no |-> n] \in drafts
         /\ status' = [status EXCEPT ![t] = "approved"]
         /\ outReqNo' = [outReqNo EXCEPT ![t] = n]
  BY InvariantParts, OpForms DEF ApproveCommit, HandlersOK, OpOK
<1>3. DeskTyped /\ HandlersOK /\ createdBy' = createdBy
  BY InvariantParts DEF ApproveCommit
<1>4. DeskTyped'
  BY <1>2, <1>3, GatewayAssumption DEF DeskTyped, Submitted
<1>5. Forward
  BY <1>2, <1>3 DEF Forward, DeskTyped, Known, Submitted
<1>6. ApprovedHasDraft'
  BY <1>1, <1>2, <1>3 DEF ApprovedHasDraft, TransfersInvariant, DraftsStay, DeskTyped
<1>7. OpOK(Idle)' /\ op' = [op EXCEPT ![s] = Idle]
  BY DEF OpOK, Idle, ApproveCommit, End
<1>8. \A r \in Slots : op[r].phase = "await" => JobKept(op[r].job)
  BY <1>1, <1>3, OpForms DEF HandlersOK
<1>9. HandlersOK'
  BY <1>1, <1>3, <1>5, <1>7, <1>8, IdleOK, HandlerStep
<1> QED BY <1>1, <1>4, <1>5, <1>6, <1>9, Assemble

-----------------------------------------------------------------------------
(* Steps of the gateway.                                                   *)

\* A call that a handler waits for is under way and awaited.
LEMMA Awaited ==
    ASSUME TransfersInvariant, NEW r \in Slots, op[r].phase = "await"
    PROVE  op[r].job \in Jobs /\ waits[op[r].job] /\ stage[op[r].job] # "idle"
<1>1. op[r].of \in Transfers /\ op[r].job \in Jobs
  BY InvariantParts, OpForms DEF HandlersOK
<1>2. waits[op[r].job] /\ asks[op[r].job].ref = op[r].of
  <2>1. OpOK(op[r])
    BY InvariantParts DEF HandlersOK
  <2>2. PICK q : q = op[r]
    OBVIOUS
  <2>3. waits[q.job] /\ asks[q.job] = [ref |-> q.of, body |-> Content[q.of]]
    BY <2>1, <2>2 DEF OpOK
  <2> QED BY <2>2, <2>3
<1>3. asks[op[r].job] # NoRequest
  BY <1>1, <1>2, TransfersAssumption, NoneAssumption DEF NoRequest
<1> QED BY <1>1, <1>2, <1>3, InvariantParts DEF JobsTyped

\* A call that is posted.
LEMMA PostEffect ==
    ASSUME TransfersInvariant, NEW j \in Jobs, NEW q \in Request, Post(j, q),
           MayAsk(q.ref, q.body)
    PROVE  /\ GatewayInvariant' /\ DraftsStay /\ JobsFair
           /\ waits'[j] /\ asks'[j] = q
           /\ \A r \in Slots : op[r].phase = "await" => op[r].job # j /\ JobKept(op[r].job)
<1>1. GatewayInvariant'
  BY GatewayStep DEF TransfersInvariant, GatewayNext
<1>2. JobsTyped
  BY InvariantParts
<1>3. waits'[j] /\ asks'[j] = q /\ drafts' = drafts
  BY <1>2 DEF Post, JobsTyped
<1>4. \A i \in Jobs \ {j} : waits'[i] = waits[i] /\ asks'[i] = asks[i] /\ stage'[i] = stage[i]
  BY <1>2 DEF Post, JobsTyped
<1>5. JobsFair
  BY <1>3, <1>4 DEF JobsFair
<1>6. ASSUME NEW r \in Slots, op[r].phase = "await"
      PROVE  op[r].job # j /\ JobKept(op[r].job)
  BY <1>4, <1>6, Awaited DEF Post, JobKept
<1> QED BY <1>1, <1>3, <1>5, <1>6 DEF DraftsStay

\* A caller that hears or gives up leaves the other calls alone.
LEMMA CallerLeaves ==
    ASSUME TransfersInvariant, NEW j \in Jobs, Hear(j) \/ GiveUp(j)
    PROVE  /\ GatewayInvariant' /\ DraftsStay /\ JobsFair
           /\ \A i \in Jobs \ {j} : JobKept(i)
<1>1. GatewayInvariant'
  BY GatewayStep DEF TransfersInvariant, GatewayNext
<1>2. Alone(j) /\ drafts' = drafts
      /\ (stage'[j] = "idle" \/ (asks'[j] = asks[j] /\ stage'[j] = stage[j]))
  BY CallerEffect DEF TransfersInvariant
<1> QED BY <1>1, <1>2 DEF Alone, DraftsStay, JobsFair, JobKept

\* A writer's step drafts what may be.
LEMMA WriterStep ==
    ASSUME TransfersInvariant, NEW j \in Jobs, Writer(j)
    PROVE  TransfersInvariant'
<1>1. GatewayInvariant'
  BY GatewayStep DEF TransfersInvariant, GatewayNext, Writer
<1>2. /\ Alone(j) /\ JobKept(j) /\ DraftsStay /\ stage[j] # "idle"
      /\ stage'[j] = "idle" \/ asks'[j] = asks[j]
      /\ \A d \in drafts' \ drafts : d.ref = asks[j].ref /\ d.body = asks[j].body
  BY ServeEffect DEF TransfersInvariant, Writer
<1>3. JobsFair
  BY <1>2 DEF Alone, JobsFair, TransfersInvariant, Carried
<1>4. \A i \in Jobs : JobKept(i)
  BY <1>2 DEF Alone, JobKept
<1>5. DeskStill /\ op' = op
  BY DEF Writer, desk, DeskStill
<1>6. DeskTyped' /\ Forward /\ ApprovedHasDraft' /\ HandlersOK
  BY <1>2, <1>5, DeskKeeps, InvariantParts
<1>7. HandlersOK'
  BY <1>2, <1>4, <1>5, <1>6, Awaited, HandlersWait
<1> QED BY <1>1, <1>3, <1>6, <1>7, Assemble

\* The screens ask for no transfer, and leave the handlers' calls alone.
LEMMA ScreenStep ==
    ASSUME TransfersInvariant, NEW j \in Jobs, Screen(j)
    PROVE  TransfersInvariant'
<1>1. DeskStill /\ op' = op
  BY DEF Screen, desk, DeskStill
<1>2. ASSUME NEW r \in References \ Transfers, NEW b \in Bodies,
             Post(j, [ref |-> r, body |-> b])
      PROVE  TransfersInvariant'
  <2>1. [ref |-> r, body |-> b] \in Request /\ MayAsk(r, b)
    BY DEF Request, MayAsk
  <2>2. /\ GatewayInvariant' /\ DraftsStay /\ JobsFair
        /\ \A i \in Slots : op[i].phase = "await" => JobKept(op[i].job)
    BY <1>2, <2>1, PostEffect
  <2>3. DeskTyped' /\ Forward /\ ApprovedHasDraft' /\ HandlersOK
    BY <1>1, <2>2, DeskKeeps, InvariantParts
  <2>4. HandlersOK'
    BY <1>1, <2>2, <2>3, HandlersWait
  <2> QED BY <2>2, <2>3, <2>4, Assemble
<1>3. ASSUME ~Owned(j), Hear(j) \/ GiveUp(j) PROVE TransfersInvariant'
  <2>1. /\ GatewayInvariant' /\ DraftsStay /\ JobsFair
        /\ \A i \in Jobs \ {j} : JobKept(i)
    BY <1>3, CallerLeaves
  <2>2. DeskTyped' /\ Forward /\ ApprovedHasDraft' /\ HandlersOK
    BY <1>1, <2>1, DeskKeeps, InvariantParts
  <2>3. \A i \in Slots : op[i].phase = "await" => JobKept(op[i].job)
    BY <1>3, <2>1, Awaited DEF Owned
  <2>4. HandlersOK'
    BY <1>1, <2>1, <2>2, <2>3, HandlersWait
  <2> QED BY <2>1, <2>2, <2>4, Assemble
<1> QED BY <1>2, <1>3 DEF Screen

\* An approval that passed its check asks for its own transfer's draft.
LEMMA AskStep ==
    ASSUME TransfersInvariant, NEW s \in Slots, NEW j \in Jobs, AskDraft(s, j)
    PROVE  TransfersInvariant'
<1>0. HandlersOK
  BY InvariantParts
<1>1. PICK t \in Transfers : op[s].of = t /\ Submitted(t)
  BY <1>0, OpForms DEF HandlersOK, OpOK, AskDraft
<1> DEFINE q == [ref |-> t, body |-> Content[t]]
           o == [phase |-> "await", of |-> t, job |-> j]
<1>2. q \in Request /\ MayAsk(q.ref, q.body)
  BY <1>1, TransfersAssumption DEF Request, MayAsk
<1>3. /\ GatewayInvariant' /\ DraftsStay /\ JobsFair
      /\ waits'[j] /\ asks'[j] = q
      /\ \A r \in Slots : op[r].phase = "await" => op[r].job # j /\ JobKept(op[r].job)
  BY <1>1, <1>2, PostEffect DEF AskDraft
<1>4. DeskTyped' /\ Forward /\ ApprovedHasDraft'
  BY <1>3, DeskKeeps DEF AskDraft, DeskStill
<1>5. o \in Op /\ op' = [op EXCEPT ![s] = o]
  BY <1>1 DEF AskDraft, Op
<1>6. OpOK(o)'
  BY <1>1, <1>3, <1>4 DEF OpOK, Forward
<1>7. HandlersOK'
  <2> HIDE DEF o
  <2>1. o.job = j
    BY DEF o
  <2> QED BY <1>0, <1>3, <1>4, <1>5, <1>6, <2>1, HandlerStep
<1> QED BY <1>3, <1>4, <1>7, Assemble

\* An approval that hears or gives up ends, or goes on with a draft's number.
LEMMA HeardStep ==
    ASSUME TransfersInvariant, NEW s \in Slots, DraftAnswered(s) \/ DraftTimeout(s)
    PROVE  TransfersInvariant'
<1>0. HandlersOK /\ JobsTyped /\ GatewayInvariant
  BY InvariantParts
<1>1. PICK t \in Transfers, j \in Jobs :
         op[s].phase = "await" /\ op[s].of = t /\ op[s].job = j
  BY <1>0, OpForms DEF HandlersOK, DraftAnswered, DraftTimeout
<1>2. Submitted(t) /\ asks[j] = [ref |-> t, body |-> Content[t]]
  BY <1>0, <1>1 DEF HandlersOK, OpOK
<1>3. /\ GatewayInvariant' /\ DraftsStay /\ JobsFair
      /\ \A i \in Jobs \ {j} : JobKept(i)
  BY <1>1, CallerLeaves DEF DraftAnswered, DraftTimeout
<1>4. DeskTyped' /\ Forward /\ ApprovedHasDraft'
  BY <1>3, DeskKeeps DEF DraftAnswered, DraftTimeout, DeskStill
<1>5. \A r \in Slots \ {s} : op[r].phase = "await" => JobKept(op[r].job)
  BY <1>0, <1>1, <1>3, Awaited DEF HandlersOK, Sole
<1>6. ASSUME op' = [op EXCEPT ![s] = Idle] PROVE TransfersInvariant'
  <2>1. OpOK(Idle)'
    BY DEF OpOK, Idle
  <2>2. HandlersOK'
    BY <1>0, <1>3, <1>4, <1>5, <1>6, <2>1, IdleOK, HandlerStep
  <2> QED BY <1>3, <1>4, <2>2, Assemble
<1>7. ASSUME DraftAnswered(s), reply[j].status = "ok" PROVE TransfersInvariant'
  <2>1. stage[j] = "answered"
    BY <1>1, <1>7 DEF DraftAnswered, Hear
  <2>2. PICK d \in drafts : d.ref = t /\ d.no = reply[j].no
    BY <1>0, <1>2, <1>7, <2>1 DEF GatewayInvariant, JobOK, Existing
  <2>3. d.body = Content[t]
    BY <2>2 DEF TransfersInvariant, Carried, MayAsk
  <2>4. d \in [ref : References, body : Bodies, no : 1 .. MaxNo]
    BY <1>0 DEF GatewayInvariant, GatewayTypeOK
  <2>5. d = [ref |-> t, body |-> Content[t], no |-> d.no] /\ d.no \in 1 .. MaxNo
    BY <2>2, <2>3, <2>4
  <2> DEFINE o == [phase |-> "approve", of |-> t, no |-> d.no]
  <2>6. o \in Op /\ op' = [op EXCEPT ![s] = o]
    BY <1>1, <1>7, <2>2, <2>5 DEF DraftAnswered, Op
  <2>7. OpOK(o)'
    BY <1>2, <1>3, <1>4, <2>5 DEF OpOK, Forward, DraftsStay
  <2>8. HandlersOK'
    <3>1. o.phase # "await"
      OBVIOUS
    <3> HIDE DEF o
    <3> QED BY <1>0, <1>3, <1>4, <1>5, <2>6, <2>7, <3>1, HandlerStep
  <2> QED BY <1>3, <1>4, <2>8, Assemble
<1> QED BY <1>1, <1>6, <1>7 DEF DraftAnswered, DraftTimeout, End

\* A transfer that is drawn up.
LEMMA CreateStep ==
    ASSUME TransfersInvariant, NEW u \in Users, NEW t \in Transfers, Create(u, t)
    PROVE  TransfersInvariant'
<1>1. GatewayInvariant' /\ DraftsStay /\ JobsFair /\ (\A j \in Jobs : JobKept(j))
  BY GatewayKeeps DEF Create
<1>2. DeskTyped /\ HandlersOK
  BY InvariantParts
<1>3. DeskTyped' /\ Forward
  BY <1>2, TransfersAssumption DEF Create, DeskTyped, Forward, Known, Submitted
<1>4. ApprovedHasDraft'
  BY <1>1, <1>2 DEF Create, DeskTyped, ApprovedHasDraft, TransfersInvariant, DraftsStay
<1>5. HandlersOK'
  BY <1>1, <1>2, <1>3, Awaited, HandlersWait DEF Create
<1> QED BY <1>1, <1>3, <1>4, <1>5, Assemble

-----------------------------------------------------------------------------
(* The theorems.                                                           *)

\* The initial state.
LEMMA TransfersStart == Init => TransfersInvariant
<1> SUFFICES ASSUME Init PROVE TransfersInvariant
  OBVIOUS
<1>1. GatewayInvariant
  BY GatewayStart DEF Init
<1>2. DeskTyped /\ ApprovedHasDraft
  BY TransfersAssumption, GatewayAssumption DEF Init, DeskTyped, ApprovedHasDraft
<1>3. HandlersOK
  BY IdleOK DEF Init, HandlersOK, Sole
<1>4. Carried
  BY DEF Init, GatewayInit, Carried
<1> QED BY <1>1, <1>2, <1>3, <1>4, DeskParts DEF TransfersInvariant, HandlersOK, GatewayInvariant

\* Every step keeps the invariant.
LEMMA TransfersStep == TransfersInvariant /\ [Next]_vars => TransfersInvariant'
<1> SUFFICES ASSUME TransfersInvariant, [Next]_vars PROVE TransfersInvariant'
  OBVIOUS
<1>1. CASE UNCHANGED vars
  <2>1. GatewayInvariant' /\ DraftsStay /\ JobsFair /\ (\A j \in Jobs : JobKept(j))
    BY <1>1, GatewayKeeps DEF vars
  <2>2. DeskTyped' /\ Forward /\ ApprovedHasDraft' /\ HandlersOK
    BY <1>1, <2>1, DeskKeeps, InvariantParts DEF vars, desk, DeskStill
  <2>3. HandlersOK'
    BY <1>1, <2>1, <2>2, Awaited, HandlersWait DEF vars, desk
  <2> QED BY <2>1, <2>2, <2>3, Assemble
<1>2. ASSUME NEW s \in Slots, Handle(s) PROVE TransfersInvariant'
  BY <1>2, ReadsStep, SetStatusStep, AskStep, HeardStep, ApproveStep DEF Handle
<1> QED BY <1>1, <1>2, CreateStep, ScreenStep, WriterStep DEF Next

\* In every reachable state, Oracle is asked for submitted transfers only, with
\* their own content; an approval waits for a call of its own, and what it is
\* about to record is a draft of its transfer.
THEOREM TransfersInvariance == Spec => []TransfersInvariant
BY TransfersStart, TransfersStep, PTL DEF Spec

\* Transfers, handlers and the gateway keep their types, for any of them.
THEOREM TransfersTypeCorrect == Spec => []TypeOK
BY TransfersInvariance, PTL DEF TransfersInvariant

\* An approved transfer has a draft of its own and bears its number
\* (inventory-transfers.service.ts, approve).
THEOREM ApprovedHasDraftAlways == Spec => []ApprovedHasDraft
BY TransfersInvariance, PTL DEF TransfersInvariant

\* Nothing is asked of Oracle for a transfer that nobody has submitted
\* (inventory-transfers.service.ts, approve).
THEOREM NothingUnaskedAlways == Spec => []NothingUnasked
<1>1. TransfersInvariant => NothingUnasked
  <2> SUFFICES ASSUME TransfersInvariant, NEW t \in Transfers, ~Submitted(t)
               PROVE  Existing(t) = {} /\ \A j \in Jobs : asks[j].ref # t
    BY DEF NothingUnasked, Submitted
  <2>1. Existing(t) = {}
    BY DEF TransfersInvariant, Carried, MayAsk, Existing
  <2>2. ASSUME NEW j \in Jobs PROVE asks[j].ref # t
    <3>1. CASE stage[j] = "idle"
      BY <3>1, InvariantParts, TransfersAssumption, NoneAssumption DEF JobsTyped, NoRequest
    <3>2. CASE stage[j] # "idle"
      BY <3>2 DEF TransfersInvariant, Carried, MayAsk
    <3> QED BY <3>1, <3>2
  <2> QED BY <2>1, <2>2
<1> QED BY <1>1, TransfersInvariance, PTL

\* An approval that is repeated writes the number the transfer already bears,
\* and nothing else touches it (inventory-transfers.service.ts, approve).
THEOREM NumberKeptAlways == Spec => NumberKept
<1>1. ASSUME TransfersInvariant, [Next]_vars, NEW t \in Transfers, outReqNo[t] # 0
      PROVE  outReqNo'[t] = outReqNo[t]
  <2> USE <1>1
  <2>0. DeskTyped /\ HandlersOK
    BY InvariantParts
  <2>1. ASSUME NEW s \in Slots, ApproveCommit(s), op[s].of = t PROVE op[s].no = outReqNo[t]
    <3>1. PICK n \in 1 .. MaxNo :
             op[s].no = n /\ [ref |-> t, body |-> Content[t], no |-> n] \in drafts
      BY <2>0, <2>1, OpForms DEF ApproveCommit, HandlersOK, OpOK
    <3>2. [ref |-> t, body |-> Content[t], no |-> outReqNo[t]] \in drafts
      BY DEF TransfersInvariant, ApprovedHasDraft
    <3>3. [ref |-> t, body |-> Content[t], no |-> n]
             = [ref |-> t, body |-> Content[t], no |-> outReqNo[t]]
      BY <3>1, <3>2 DEF TransfersInvariant, GatewayInvariant, OneEach
    <3> QED BY <3>1, <3>3
  <2>2. ASSUME NEW s \in Slots, Handle(s) PROVE outReqNo'[t] = outReqNo[t]
    <3>1. CASE ApproveCommit(s)
      BY <2>0, <2>1, <3>1 DEF ApproveCommit, DeskTyped
    <3>2. CASE ~ApproveCommit(s)
      BY <2>2, <3>2 DEF Handle, SubmitRead, RejectRead, ApproveRead, SubmitCommit, RejectCommit,
         SetStatus, Invalid, AskDraft, DraftAnswered, DraftTimeout, Stop
    <3> QED BY <3>1, <3>2
  <2> QED BY <2>2 DEF Next, vars, desk, Create, Screen, Writer
<1>2. TransfersInvariant /\ [Next]_vars
         => [\A t \in Transfers : outReqNo[t] # 0 => outReqNo'[t] = outReqNo[t]]_vars
  BY <1>1
<1> QED BY <1>2, TransfersInvariance, PTL DEF Spec, NumberKept

\* To the gateway transfers are callers like any other, so that what is proved of
\* it holds here: marked references are applied once (createDraft).
THEOREM TransfersImplementOnce == Spec => ImplementsOnce
<1>1. Init => GatewayInit
  BY DEF Init
<1>2. TransfersInvariant /\ [Next]_vars => [GatewayNext]_gateway
  <2> SUFFICES ASSUME TransfersInvariant, [Next]_vars PROVE [GatewayNext]_gateway
    OBVIOUS
  <2>0. HandlersOK
    BY InvariantParts
  <2>1. ASSUME NEW s \in Slots, NEW j \in Jobs, AskDraft(s, j) PROVE GatewayNext
    <3>1. op[s].of \in Transfers
      BY <2>0, <2>1, OpForms DEF HandlersOK, AskDraft
    <3>2. [ref |-> op[s].of, body |-> Content[op[s].of]] \in Request
      BY <3>1, TransfersAssumption DEF Request
    <3> QED BY <2>1, <3>2 DEF AskDraft, GatewayNext
  <2>2. ASSUME NEW s \in Slots, DraftAnswered(s) \/ DraftTimeout(s) PROVE GatewayNext
    <3>1. op[s].job \in Jobs
      BY <2>0, <2>2, OpForms DEF HandlersOK, DraftAnswered, DraftTimeout
    <3> QED BY <2>2, <3>1 DEF DraftAnswered, DraftTimeout, GatewayNext
  <2>3. ASSUME NEW s \in Slots, Handle(s) PROVE [GatewayNext]_gateway
    BY <2>1, <2>2, <2>3 DEF Handle, SubmitRead, RejectRead, ApproveRead, SubmitCommit,
       RejectCommit, SetStatus, Invalid, ApproveCommit, Stop
  <2>4. ASSUME NEW j \in Jobs, Screen(j) \/ Writer(j) PROVE GatewayNext
    <3>1. \A r \in References \ Transfers, b \in Bodies : [ref |-> r, body |-> b] \in Request
      BY DEF Request
    <3> QED BY <2>4, <3>1 DEF Screen, Writer, GatewayNext
  <2> QED BY <2>3, <2>4 DEF Next, vars, Create
<1>3. Spec => GatewaySpec
  BY <1>1, <1>2, TransfersInvariance, PTL DEF Spec, GatewaySpec
<1> QED BY <1>3, MarkedImplementsOnce
=============================================================================
