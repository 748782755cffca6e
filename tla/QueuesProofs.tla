----------------------------- MODULE QueuesProofs -----------------------------
(***************************************************************************)
(* Proofs about the queues that keep work while nobody answers: the print  *)
(* jobs of the labels, the push outbox and the phone's queue.  The first   *)
(* two stand alone; the third rests on what the server keeps for a key     *)
(* (IdempotencyProofs).                                                    *)
(***************************************************************************)
EXTENDS OfflineQueue, IdempotencyProofs, PushOutbox, PrintJobs, FiniteSetTheorems, TLAPS

-----------------------------------------------------------------------------
(* The print jobs.  That no label is printed twice rests on who may still  *)
(* touch it: one agent at a time holds a label, its claim is the row's,    *)
(* and once it has sent an acknowledgement nobody holds it again.          *)

Holding(a) == agent[a].phase # "idle"
LabelOf(a) == agent[a].label
Acked(l) == \E m \in acks : m.label = l

\* The agent at work on a label is the one whose claim the row bears, the row is
\* not settled, and nothing was acknowledged yet.
HolderClaimed == \A a \in Agents : Holding(a) =>
    LabelOf(a) \in Labels /\ claimant[LabelOf(a)] = a /\ Unsettled(LabelOf(a)) /\ ~ Acked(LabelOf(a))

\* What the agent is about to say agrees with the printer.
HolderKnows == \A a \in Agents :
    /\ agent[a].phase \in {"claimed", "printing"} => printed[LabelOf(a)] = 0
    /\ (agent[a].phase = "done" /\ agent[a].outcome = "failed") => printed[LabelOf(a)] = 0
    /\ (agent[a].phase = "done" /\ agent[a].outcome = "submitted") => printed[LabelOf(a)] = 1

\* And so does what was said, wherever it is.
AcksKnow == \A m \in acks :
    /\ m.outcome = "failed" => printed[m.label] = 0
    /\ m.outcome = "submitted" => printed[m.label] = 1

\* Nothing was said of a label nobody has claimed.
WaitingUntouched == \A l \in Labels : printStatus[l] \in {"absent", "queued"} => ~ Acked(l)

PrintInv ==
    /\ PrintTypeOK
    /\ HolderClaimed
    /\ HolderKnows
    /\ AcksKnow
    /\ WaitingUntouched
    /\ PrintedOnce

\* Nobody holds anything at first.
LEMMA PrintInit_Inv == PrintInit => PrintInv
  <1> SUFFICES ASSUME PrintInit PROVE PrintInv OBVIOUS
  <1>1. PrintTypeOK BY DEF PrintInit, PrintTypeOK, PrintStatus, Resting, PrintOutcome, Ack
  <1>2. HolderClaimed /\ HolderKnows BY DEF PrintInit, HolderClaimed, HolderKnows, Holding, Resting
  <1>3. AcksKnow /\ WaitingUntouched /\ PrintedOnce
    BY DEF PrintInit, AcksKnow, WaitingUntouched, Acked, PrintedOnce
  <1> QED BY <1>1, <1>2, <1>3 DEF PrintInv

\* The steps of the server that only move the status of rows (createJob, and the
\* first statement of claim): no agent loses its row, and nothing is settled.
LEMMA ServerKeeps ==
  ASSUME PrintInv,
         (\E l \in Labels : QueueLabel(l) \/ ClaimAges(l)) \/ Expire
  PROVE  PrintInv'
  <1>1. UNCHANGED <<claimant, agent, acks, printed>> BY DEF QueueLabel, ClaimAges, Expire
  <1>2. printStatus' \in [Labels -> PrintStatus] /\ claimAge' \in [Labels -> {"new", "old"}]
    BY DEF PrintInv, PrintTypeOK, QueueLabel, ClaimAges, Expire, PrintStatus
  <1>3. \A l \in Labels : /\ Unsettled(l) => Unsettled(l)'
                          /\ printStatus'[l] \in {"absent", "queued"} => printStatus[l] \in {"absent", "queued"}
                          /\ printStatus'[l] = "failed" => printStatus[l] = "failed"
                          /\ printStatus'[l] = "submitted" => printStatus[l] = "submitted"
    BY DEF PrintInv, PrintTypeOK, QueueLabel, ClaimAges, Expire, Unsettled
  <1>4. PrintTypeOK' BY <1>1, <1>2 DEF PrintInv, PrintTypeOK
  <1>5. HolderClaimed'
    BY <1>1, <1>3 DEF PrintInv, HolderClaimed, Holding, LabelOf, Acked
  <1>6. HolderKnows' /\ AcksKnow' BY <1>1 DEF PrintInv, HolderKnows, AcksKnow, LabelOf
  <1>7. WaitingUntouched' BY <1>1, <1>3 DEF PrintInv, WaitingUntouched, Acked
  <1>8. PrintedOnce' BY <1>1, <1>3 DEF PrintInv, PrintedOnce
  <1> QED BY <1>4, <1>5, <1>6, <1>7, <1>8 DEF PrintInv

\* A claim takes a row nobody is at work on, of which nothing was ever said.
LEMMA ClaimLabelKeeps ==
  ASSUME PrintInv, NEW a \in Agents, NEW l \in Labels, ClaimLabel(a, l)
  PROVE  PrintInv'
  <1> USE DEF PrintInv, PrintTypeOK, ClaimLabel
  <1> DEFINE claim == [phase |-> "claimed", label |-> l, outcome |-> "failed"]
  <1>1. UNCHANGED <<acks, printed>> OBVIOUS
  <1>2. PrintTypeOK' BY DEF PrintStatus, PrintOutcome
  <1>3. \A b \in Agents : Holding(b) => LabelOf(b) # l
    BY DEF HolderClaimed, Holding, LabelOf, Unsettled
  <1>4. printed[l] = 0 /\ ~ Acked(l) BY DEF PrintedOnce, WaitingUntouched
  <1>5. ~ Holding(a) BY DEF Holding, Resting
  <1>6. \A b \in Agents : agent'[b] = agent[b] \/ (b = a /\ agent'[b] = claim) OBVIOUS
  <1>7. \A k \in Labels : k # l => printStatus'[k] = printStatus[k] /\ claimant'[k] = claimant[k] OBVIOUS
  <1>8. printStatus'[l] = "dispatching" /\ claimant'[l] = a OBVIOUS
  <1>9. HolderClaimed'
    <2> SUFFICES ASSUME NEW b \in Agents, agent'[b].phase # "idle"
                 PROVE  /\ agent'[b].label \in Labels
                        /\ claimant'[agent'[b].label] = b
                        /\ printStatus'[agent'[b].label] \in {"dispatching", "unknown"}
                        /\ ~ \E m \in acks : m.label = agent'[b].label
      BY <1>1 DEF HolderClaimed, Holding, LabelOf, Unsettled, Acked
    <2>1. CASE agent'[b] = agent[b]
      BY <2>1, <1>3, <1>7 DEF HolderClaimed, Holding, LabelOf, Unsettled, Acked
    <2>2. CASE b = a /\ agent'[b] = claim BY <2>2, <1>4, <1>8 DEF Acked
    <2> QED BY <2>1, <2>2, <1>6
  <1>10. HolderKnows'
    BY <1>1, <1>4, <1>6 DEF HolderKnows, LabelOf
  <1>11. AcksKnow' BY <1>1 DEF AcksKnow
  <1>12. WaitingUntouched' BY <1>1, <1>7, <1>8 DEF WaitingUntouched, Acked
  <1>13. PrintedOnce' BY <1>1, <1>7, <1>8 DEF PrintedOnce
  <1> QED BY <1>2, <1>9, <1>10, <1>11, <1>12, <1>13

\* An acknowledgement settles a row nobody is at work on any more, and says what
\* the printer did.
LEMMA AcknowledgeKeeps ==
  ASSUME PrintInv, NEW m \in acks, Acknowledge(m)
  PROVE  PrintInv'
  <1> USE DEF PrintInv, PrintTypeOK, Acknowledge
  <1>1. UNCHANGED <<claimant, claimAge, agent, acks, printed>> OBVIOUS
  <1>2. m.label \in Labels /\ m.outcome \in PrintOutcome BY DEF Ack
  <1>3. PrintTypeOK' BY <1>2 DEF PrintStatus, PrintOutcome
  <1>4. \A b \in Agents : Holding(b) => LabelOf(b) # m.label
    BY DEF HolderClaimed, Acked
  <1>5. \A k \in Labels : k # m.label => printStatus'[k] = printStatus[k] OBVIOUS
  <1>6. printStatus'[m.label] = m.outcome BY <1>2
  <1>7. HolderClaimed'
    BY <1>1, <1>4, <1>5 DEF HolderClaimed, Holding, LabelOf, Unsettled, Acked
  <1>8. HolderKnows' /\ AcksKnow' BY <1>1 DEF HolderKnows, AcksKnow, LabelOf
  <1>9. WaitingUntouched' BY <1>1, <1>2, <1>5, <1>6 DEF WaitingUntouched, Acked, PrintOutcome
  <1>10. PrintedOnce' BY <1>1, <1>2, <1>5, <1>6 DEF PrintedOnce, AcksKnow, PrintOutcome
  <1> QED BY <1>3, <1>7, <1>8, <1>9, <1>10

\* The agent alone gives its label to the printer, and only before it has printed it.
LEMMA AgentKeeps ==
  ASSUME PrintInv, NEW a \in Agents, AgentStep(a)
  PROVE  PrintInv'
  <1> USE DEF PrintInv, PrintTypeOK
  <1> DEFINE l == agent[a].label
  <1>1. UNCHANGED <<printStatus, claimant, claimAge>>
    BY DEF AgentStep, CannotPrint, StartPrint, RunPrinter, SendAck, AgentStops
  <1>2. \A b \in Agents : b # a => agent'[b] = agent[b]
    BY DEF AgentStep, CannotPrint, StartPrint, RunPrinter, SendAck, AgentStops, SetAgent
  <1>3. \A b \in Agents : (b # a /\ Holding(a) /\ Holding(b)) => LabelOf(b) # l
    BY DEF HolderClaimed, LabelOf
  <1>4. Holding(a) => l \in Labels /\ Unsettled(l) /\ ~ Acked(l)
    BY DEF HolderClaimed, LabelOf
  <1>5. CASE CannotPrint(a) \/ StartPrint(a) \/ RunPrinter(a)
    <2> USE DEF CannotPrint, StartPrint, RunPrinter, SetAgent
    <2>1. Holding(a) /\ agent[a].phase \in {"claimed", "printing"} BY <1>5 DEF Holding
    <2>2. printed[l] = 0 BY <2>1 DEF HolderKnows, LabelOf
    <2>3. PICK ph \in {"printing", "done"}, o \in PrintOutcome :
            /\ agent' = [agent EXCEPT ![a] = [phase |-> ph, label |-> agent[a].label, outcome |-> o]]
            /\ \/ printed' = [printed EXCEPT ![l] = @ + 1] /\ ph = "done" /\ o # "failed"
               \/ printed' = printed /\ (ph = "done" => o # "submitted")
      BY <1>5 DEF PrintOutcome
    <2>4. agent'[a] = [phase |-> ph, label |-> l, outcome |-> o] BY <2>3
    <2>5. UNCHANGED acks BY <1>5
    <2>6. PrintTypeOK' BY <1>1, <1>4, <2>1, <2>3, <2>5 DEF PrintOutcome
    <2>7. /\ \A k \in Labels : k # l => printed'[k] = printed[k]
          /\ printed'[l] \in {0, 1} /\ (o = "failed" \/ ph # "done" => printed'[l] = 0)
          /\ (o = "submitted" /\ ph = "done" => printed'[l] = 1)
      BY <1>4, <2>1, <2>2, <2>3
    <2>8. HolderClaimed'
      <3> SUFFICES ASSUME NEW b \in Agents, agent'[b].phase # "idle"
                   PROVE  agent'[b].label = agent[b].label /\ Holding(b)
        BY <1>1, <2>5 DEF HolderClaimed, Holding, LabelOf, Unsettled, Acked
      <3> QED BY <1>2, <2>1, <2>4 DEF Holding
    <2>9. HolderKnows'
      <3> SUFFICES ASSUME NEW b \in Agents
                   PROVE  /\ agent'[b].phase \in {"claimed", "printing"} => printed'[agent'[b].label] = 0
                          /\ (agent'[b].phase = "done" /\ agent'[b].outcome = "failed") => printed'[agent'[b].label] = 0
                          /\ (agent'[b].phase = "done" /\ agent'[b].outcome = "submitted") => printed'[agent'[b].label] = 1
        BY DEF HolderKnows, LabelOf
      <3>1. CASE b = a BY <3>1, <2>4, <2>7
      <3>2. CASE b # a
        <4>1. agent'[b] = agent[b] BY <3>2, <1>2
        <4>2. CASE Holding(b)
          <5>1. agent[b].label \in Labels /\ agent[b].label # l
            BY <4>2, <3>2, <1>3, <2>1 DEF HolderClaimed, LabelOf
          <5> QED BY <5>1, <4>1, <2>7 DEF HolderKnows, LabelOf
        <4>3. CASE ~ Holding(b) BY <4>1, <4>3 DEF Holding
        <4> QED BY <4>2, <4>3
      <3> QED BY <3>1, <3>2
    <2>10. AcksKnow' BY <2>1, <2>5, <2>7, <1>4 DEF AcksKnow, Acked, Ack
    <2>11. WaitingUntouched' BY <1>1, <2>5 DEF WaitingUntouched, Acked
    <2>12. PrintedOnce' BY <1>1, <1>4, <2>1, <2>7 DEF PrintedOnce, Unsettled
    <2> QED BY <2>6, <2>8, <2>9, <2>10, <2>11, <2>12
  <1>6. CASE SendAck(a)
    <2> DEFINE said == [label |-> l, by |-> a, outcome |-> agent[a].outcome]
    <2>1. /\ agent[a].phase = "done" /\ acks' = acks \cup {said}
          /\ agent' = [agent EXCEPT ![a] = Resting] /\ UNCHANGED printed
      BY <1>6 DEF SendAck
    <2>2. Holding(a) BY <2>1 DEF Holding
    <2>3. said \in Ack BY <1>4, <2>2 DEF Ack
    <2>4. PrintTypeOK' BY <1>1, <2>1, <2>3 DEF Resting, PrintOutcome
    <2>5. HolderClaimed'
      <3> SUFFICES ASSUME NEW b \in Agents, agent'[b].phase # "idle"
                   PROVE  /\ agent'[b].label \in Labels /\ claimant'[agent'[b].label] = b
                          /\ printStatus'[agent'[b].label] \in {"dispatching", "unknown"}
                          /\ ~ \E m \in acks' : m.label = agent'[b].label
        BY DEF HolderClaimed, Holding, LabelOf, Unsettled, Acked
      <3>1. b # a BY <2>1 DEF Resting
      <3>2. agent'[b] = agent[b] /\ Holding(b) BY <3>1, <1>2 DEF Holding
      <3>3. agent[b].label # l BY <3>1, <3>2, <2>2, <1>3 DEF LabelOf
      <3> QED BY <3>2, <3>3, <1>1, <2>1 DEF HolderClaimed, LabelOf, Unsettled, Acked
    <2>6. HolderKnows'
      <3>1. agent'[a].phase = "idle" BY <2>1 DEF Resting
      <3> QED BY <3>1, <1>2, <2>1 DEF HolderKnows, LabelOf
    <2>7. AcksKnow' BY <2>1 DEF AcksKnow, HolderKnows, LabelOf
    <2>8. WaitingUntouched' BY <1>1, <1>4, <2>1, <2>2 DEF WaitingUntouched, Acked, Unsettled
    <2>9. PrintedOnce' BY <1>1, <2>1 DEF PrintedOnce
    <2> QED BY <2>4, <2>5, <2>6, <2>7, <2>8, <2>9
  <1>7. CASE AgentStops(a)
    <2>1. /\ agent' = [agent EXCEPT ![a] = Resting] /\ UNCHANGED acks
          /\ \/ agent[a].phase = "printing" /\ printed' = [printed EXCEPT ![l] = @ + 1]
             \/ UNCHANGED printed
      BY <1>7 DEF AgentStops
    <2>2. agent'[a].phase = "idle" BY <2>1 DEF Resting
    <2>3. PrintTypeOK' BY <1>1, <2>1 DEF Resting, PrintOutcome
    <2>4. HolderClaimed'
      BY <1>1, <1>2, <2>1, <2>2 DEF HolderClaimed, Holding, LabelOf, Unsettled, Acked
    <2>5. CASE UNCHANGED printed
      <3>1. HolderKnows' BY <2>5, <2>2, <1>2 DEF HolderKnows, LabelOf
      <3>2. AcksKnow' /\ WaitingUntouched' /\ PrintedOnce'
        BY <2>5, <2>1, <1>1 DEF AcksKnow, WaitingUntouched, Acked, PrintedOnce
      <3> QED BY <2>3, <2>4, <3>1, <3>2
    <2>6. CASE agent[a].phase = "printing" /\ printed' = [printed EXCEPT ![l] = @ + 1]
      <3>1. Holding(a) /\ printed[l] = 0 BY <2>6 DEF Holding, HolderKnows, LabelOf
      <3>2. printed'[l] = 1 /\ \A k \in Labels : k # l => printed'[k] = printed[k]
        BY <2>6, <3>1, <1>4
      <3>3. HolderKnows'
        <4> SUFFICES ASSUME NEW b \in Agents, agent'[b].phase # "idle"
                     PROVE  printed'[agent'[b].label] = printed[agent[b].label] /\ agent'[b] = agent[b]
          BY DEF HolderKnows, LabelOf
        <4>1. b # a /\ agent'[b] = agent[b] BY <2>2, <1>2
        <4>2. agent[b].label \in Labels /\ agent[b].label # l
          BY <4>1, <3>1, <1>3 DEF HolderClaimed, Holding, LabelOf
        <4> QED BY <4>1, <4>2, <3>2
      <3>4. AcksKnow' BY <2>1, <3>1, <3>2, <1>4 DEF AcksKnow, Acked, Ack
      <3>5. WaitingUntouched' BY <2>1, <1>1 DEF WaitingUntouched, Acked
      <3>6. PrintedOnce' BY <1>1, <1>4, <3>1, <3>2 DEF PrintedOnce, Unsettled
      <3> QED BY <2>3, <2>4, <3>3, <3>4, <3>5, <3>6
    <2> QED BY <2>1, <2>5, <2>6
  <1> QED BY <1>5, <1>6, <1>7 DEF AgentStep

\* The inductive invariant: who holds a label, what its agent knows of the printer
\* and what was said of it agree in every reachable state.
THEOREM PrintInvariance == PrintSpec => []PrintInv
  <1>1. PrintInv /\ [PrintNext]_printVars => PrintInv'
    <2> SUFFICES ASSUME PrintInv, [PrintNext]_printVars PROVE PrintInv' OBVIOUS
    <2>1. CASE (\E l \in Labels : QueueLabel(l) \/ ClaimAges(l)) \/ Expire BY <2>1, ServerKeeps
    <2>2. CASE \E a \in Agents, l \in Labels : ClaimLabel(a, l) BY <2>2, ClaimLabelKeeps
    <2>3. CASE \E m \in acks : Acknowledge(m) BY <2>3, AcknowledgeKeeps
    <2>4. CASE \E a \in Agents : AgentStep(a) BY <2>4, AgentKeeps
    <2>5. CASE UNCHANGED printVars
      BY <2>5 DEF printVars, PrintInv, PrintTypeOK, HolderClaimed, HolderKnows, AcksKnow,
                  WaitingUntouched, PrintedOnce, Holding, LabelOf, Acked, Unsettled
    <2> QED BY <2>1, <2>2, <2>3, <2>4, <2>5 DEF PrintNext
  <1> QED BY PrintInit_Inv, <1>1, PTL DEF PrintSpec

\* No label goes to the printer twice, and a settled row tells the truth about it,
\* for any number of labels and agents (barcode-print-worker.ps1, claim, ack).
THEOREM LabelsPrintedOnce == PrintSpec => []PrintedOnce
  <1>1. PrintInv => PrintedOnce BY DEF PrintInv
  <1> QED BY PrintInvariance, <1>1, PTL

-----------------------------------------------------------------------------
(* The push outbox.                                                        *)

TargetStates == {"none", "waiting", "accepted", "delivered", "failed"}
PushStates == {"absent", "queued", "accepted"} \cup Over
Targets == [Devices -> TargetStates]
ReadRows == [of : Deliveries, status : {"queued", "accepted"}, attempts : Nat, result : Targets]
AtRow == [phase : {"start", "send", "store", "finish", "error"}, rows : SUBSET ReadRows,
          row : ReadRows, targets : Targets, devices : SUBSET Devices,
          todo : SUBSET Devices, permanent : BOOLEAN]
AtList == [phase : {"read", "rows"}, rows : SUBSET ReadRows]

WorkerStates == {Asleep} \cup AtList \cup AtRow

OutboxTyped ==
    /\ pushStatus \in [Deliveries -> PushStates]
    /\ attempts \in [Deliveries -> Nat]
    /\ due \in [Deliveries -> BOOLEAN]
    /\ result \in [Deliveries -> Targets]
    /\ sent \in [Deliveries -> [Devices -> Nat]]
    /\ worker \in [Processes -> WorkerStates]

\* Only a row read as queued is sent.
SendsQueued == \A p \in Processes : worker[p].phase \in {"send", "store"} => worker[p].row.status = "queued"

\* Who has claimed a delivery and may still send its message to a device owes one of
\* the attempts counted.
Owing(w, d, t) ==
    /\ w.phase \in {"start", "send", "store"} /\ w.row.of = d /\ w.row.status = "queued"
    /\ w.phase = "start" \/ t \in w.todo
Owes(d, t) == {p \in Processes : Owing(worker[p], d, t)}
Counts == \A d \in Deliveries, t \in Devices : sent[d][t] + Cardinality(Owes(d, t)) <= attempts[d]

OutboxInv == OutboxTyped /\ SendsQueued /\ Counts

LEMMA OutboxInitially == OutboxInit => OutboxInv
<1> SUFFICES ASSUME OutboxInit PROVE OutboxInv
  OBVIOUS
<1>1. OutboxTyped
  BY DEF OutboxInit, OutboxTyped, PushStates, Targets, TargetStates, NoTargets, WorkerStates
<1>2. \A d \in Deliveries, t \in Devices : Owes(d, t) = {}
  BY DEF OutboxInit, Owes, Owing, Asleep
<1>3. SendsQueued
  BY DEF OutboxInit, SendsQueued, Asleep
<1>4. Cardinality({}) = 0
  BY FS_EmptySet
<1>5. \A d \in Deliveries, t \in Devices : Cardinality(Owes(d, t)) = 0
  BY <1>2, <1>4, Zenon
<1>6. Counts
  BY <1>5 DEF OutboxInit, Counts
<1> QED
  BY <1>1, <1>3, <1>6 DEF OutboxInv

\* What a process owes, as a number.
Debt(w, d, t) == IF Owing(w, d, t) THEN 1 ELSE 0

\* A process that changes hands by what it sends and counts keeps the account.
LEMMA AccountKept ==
    ASSUME Counts, OutboxTyped, NEW p \in Processes, NEW w, worker' = [worker EXCEPT ![p] = w],
           OutboxTyped',
           \A d \in Deliveries, t \in Devices :
              sent'[d][t] + Debt(w, d, t) + attempts[d]
                 <= sent[d][t] + Debt(worker[p], d, t) + attempts'[d]
    PROVE  Counts'
<1> SUFFICES ASSUME NEW d \in Deliveries, NEW t \in Devices
             PROVE  sent'[d][t] + Cardinality(Owes(d, t)') <= attempts'[d]
  BY DEF Counts
<1> DEFINE rest == Owes(d, t) \ {p}
<1>1. worker'[p] = w /\ \A q \in Processes : q # p => worker'[q] = worker[q]
  BY DEF OutboxTyped
<1>2. /\ Owes(d, t) = IF Owing(worker[p], d, t) THEN rest \cup {p} ELSE rest
      /\ Owes(d, t)' = IF Owing(w, d, t) THEN rest \cup {p} ELSE rest
  BY <1>1 DEF Owes, Owing
<1>3. IsFiniteSet(rest) /\ p \notin rest /\ Cardinality(rest) \in Nat
  BY OutboxAssumption, FS_Subset, FS_CardinalityType DEF Owes
<1>4. Cardinality(rest \cup {p}) = Cardinality(rest) + 1
  BY <1>3, FS_AddElement
<1> HIDE DEF rest
<1>5. /\ Cardinality(Owes(d, t)) = Cardinality(rest) + Debt(worker[p], d, t)
      /\ Cardinality(Owes(d, t)') = Cardinality(rest) + Debt(w, d, t)
  <2>1. Cardinality(Owes(d, t)) = Cardinality(rest) + Debt(worker[p], d, t)
    <3>1. CASE Owing(worker[p], d, t)
      <4>1. Cardinality(Owes(d, t)) = Cardinality(rest \cup {p}) /\ Debt(worker[p], d, t) = 1
        BY <3>1, <1>2, Zenon DEF Debt
      <4> QED
        BY <4>1, <1>4
    <3>2. CASE ~ Owing(worker[p], d, t)
      <4>1. Cardinality(Owes(d, t)) = Cardinality(rest) /\ Debt(worker[p], d, t) = 0
        BY <3>2, <1>2, Zenon DEF Debt
      <4> QED
        BY <4>1, <1>3
    <3> QED
      BY <3>1, <3>2
  <2>2. Cardinality(Owes(d, t)') = Cardinality(rest) + Debt(w, d, t)
    <3>1. CASE Owing(w, d, t)
      <4>1. Cardinality(Owes(d, t)') = Cardinality(rest \cup {p}) /\ Debt(w, d, t) = 1
        BY <3>1, <1>2, Zenon DEF Debt
      <4> QED
        BY <4>1, <1>4
    <3>2. CASE ~ Owing(w, d, t)
      <4>1. Cardinality(Owes(d, t)') = Cardinality(rest) /\ Debt(w, d, t) = 0
        BY <3>2, <1>2, Zenon DEF Debt
      <4> QED
        BY <4>1, <1>3
    <3> QED
      BY <3>1, <3>2
  <2> QED
    BY <2>1, <2>2
<1>6. /\ sent[d][t] \in Nat /\ sent'[d][t] \in Nat /\ attempts[d] \in Nat /\ attempts'[d] \in Nat
      /\ Debt(w, d, t) \in Nat /\ Debt(worker[p], d, t) \in Nat
  BY DEF OutboxTyped, Debt
<1>7. sent[d][t] + Cardinality(Owes(d, t)) <= attempts[d]
  BY DEF Counts
<1> QED
  BY <1>3, <1>5, <1>6, <1>7

\* What each phase of a process's record holds.
LEMMA Hands ==
    ASSUME OutboxTyped, NEW p \in Processes
    PROVE  /\ worker[p] \in WorkerStates
           /\ worker[p] # Asleep /\ worker[p].phase \in {"read", "rows"} => worker[p] \in AtList
           /\ worker[p].phase \in {"start", "send", "store", "finish", "error"} => worker[p] \in AtRow
           /\ worker[p].phase = "idle" => worker[p] = Asleep
<1>1. worker[p] \in WorkerStates
  BY DEF OutboxTyped
<1>2. Asleep.phase = "idle"
  BY DEF Asleep
<1>3. \A w \in AtList : w.phase \in {"read", "rows"}
  BY DEF AtList
<1>4. \A w \in AtRow : w.phase \in {"start", "send", "store", "finish", "error"}
  BY DEF AtRow
<1> QED
  BY <1>1, <1>2, <1>3, <1>4 DEF WorkerStates

\* A step of one process that neither sends nor counts nor takes on anything to send.
LEMMA QuietKeeps ==
    ASSUME OutboxInv, NEW p \in Processes, NEW w \in WorkerStates,
           worker' = [worker EXCEPT ![p] = w], UNCHANGED <<attempts, sent>>,
           pushStatus' \in [Deliveries -> PushStates], due' \in [Deliveries -> BOOLEAN],
           result' \in [Deliveries -> Targets],
           w.phase \in {"send", "store"} => w.row.status = "queued",
           \A d \in Deliveries, t \in Devices : Owing(w, d, t) => Owing(worker[p], d, t)
    PROVE  OutboxInv'
<1>1. OutboxTyped /\ SendsQueued /\ Counts
  BY DEF OutboxInv
<1>2. OutboxTyped'
  BY <1>1 DEF OutboxTyped
<1>3. SendsQueued'
  BY <1>1 DEF OutboxTyped, SendsQueued
<1>4. \A d \in Deliveries, t \in Devices :
         sent'[d][t] + Debt(w, d, t) + attempts[d] <= sent[d][t] + Debt(worker[p], d, t) + attempts'[d]
  BY <1>1 DEF OutboxTyped, Debt
<1>5. Counts'
  BY <1>1, <1>2, <1>4, AccountKept
<1> QED
  BY <1>2, <1>3, <1>5 DEF OutboxInv

\* A step of no process.
LEMMA AroundKeeps ==
    ASSUME OutboxInv, UNCHANGED <<attempts, result, worker, sent>>,
           pushStatus' \in [Deliveries -> PushStates], due' \in [Deliveries -> BOOLEAN]
    PROVE  OutboxInv'
<1>1. OutboxTyped'
  BY DEF OutboxInv, OutboxTyped
<1>2. SendsQueued'
  BY DEF OutboxInv, SendsQueued
<1>3. \A d \in Deliveries, t \in Devices : Owes(d, t)' = Owes(d, t)
  BY DEF Owes
<1>4. \A d \in Deliveries, t \in Devices : Cardinality(Owes(d, t))' = Cardinality(Owes(d, t))
  BY <1>3, Zenon
<1>5. Counts'
  BY <1>4 DEF OutboxInv, Counts
<1> QED
  BY <1>1, <1>2, <1>5 DEF OutboxInv

\* Listing, and passing from one row to the next.
LEMMA ListingKeeps ==
    ASSUME OutboxInv, NEW p \in Processes,
           Exhaust(p) \/ ListDue(p) \/ NoMoreRows(p) \/ ProcessStops(p)
    PROVE  OutboxInv'
<1>t. OutboxTyped
  BY DEF OutboxInv
<1>a. Asleep \in WorkerStates /\ Asleep.phase = "idle" /\ \A d \in Deliveries, t \in Devices : ~ Owing(Asleep, d, t)
  BY DEF WorkerStates, Asleep, Owing
<1>l. \A w \in AtList : w \in WorkerStates /\ w.phase \notin {"send", "store"}
                       /\ \A d \in Deliveries, t \in Devices : ~ Owing(w, d, t)
  BY DEF WorkerStates, AtList, Owing
<1>1. CASE Exhaust(p)
  <2>1. [phase |-> "read", rows |-> {}] \in AtList
    BY DEF AtList
  <2>2. pushStatus' \in [Deliveries -> PushStates]
    BY <1>1, <1>t DEF Exhaust, OutboxTyped, PushStates, Over
  <2> QED
    BY <1>1, <1>t, <1>l, <2>1, <2>2, QuietKeeps DEF Exhaust, OutboxTyped
<1>2. CASE ListDue(p)
  <2> DEFINE list == {[of |-> d, status |-> pushStatus[d], attempts |-> attempts[d], result |-> result[d]] :
                        d \in {e \in Deliveries : pushStatus[e] \in {"queued", "accepted"} /\ due[e]}}
  <2>1. list \subseteq ReadRows
    BY <1>t DEF OutboxTyped, ReadRows
  <2>2. [phase |-> "rows", rows |-> list] \in AtList
    BY <2>1 DEF AtList
  <2>3. worker' = [worker EXCEPT ![p] = [phase |-> "rows", rows |-> list]]
    BY <1>2 DEF ListDue
  <2> HIDE DEF list
  <2> QED
    BY <1>2, <1>t, <1>l, <2>2, <2>3, QuietKeeps DEF ListDue, OutboxTyped, pushTable
<1>3. CASE NoMoreRows(p) \/ ProcessStops(p)
  BY <1>3, <1>t, <1>a, QuietKeeps DEF NoMoreRows, ProcessStops, OutboxTyped, pushTable
<1> QED
  BY <1>1, <1>2, <1>3

\* A claim counts the attempt it owes.
LEMMA ClaimKeeps == ASSUME OutboxInv, NEW p \in Processes, ClaimRow(p) PROVE OutboxInv'
<1>t. OutboxTyped /\ SendsQueued /\ Counts
  BY DEF OutboxInv
<1>1. worker[p] \in AtList
  BY <1>t, Hands DEF ClaimRow, Asleep
<1>2. PICK r \in worker[p].rows :
         LET rest == worker[p].rows \ {r} IN
         IF Claimable(r)
         THEN /\ due' = [due EXCEPT ![r.of] = FALSE]
              /\ attempts' = Counted(r)
              /\ worker' = [worker EXCEPT ![p] =
                    [phase |-> "start", rows |-> rest, row |-> r, targets |-> Recalled(r),
                     devices |-> {}, todo |-> {}, permanent |-> FALSE]]
         ELSE /\ worker' = [worker EXCEPT ![p].rows = rest]
              /\ UNCHANGED <<due, attempts>>
  BY DEF ClaimRow
<1>3. r \in ReadRows /\ worker[p].rows \ {r} \subseteq ReadRows
  BY <1>1 DEF AtList
<1>4. UNCHANGED <<pushStatus, result, sent>>
  BY DEF ClaimRow
<1>5. CASE ~ Claimable(r)
  <2> DEFINE w == [worker[p] EXCEPT !.rows = worker[p].rows \ {r}]
  <2>1. w \in AtList
    BY <1>1, <1>3 DEF AtList
  <2>2. worker' = [worker EXCEPT ![p] = w] /\ UNCHANGED <<due, attempts>>
    BY <1>2, <1>5
  <2>3. w \in WorkerStates /\ w.phase \notin {"start", "send", "store"}
    BY <2>1 DEF WorkerStates, AtList
  <2> HIDE DEF w
  <2> QED
    BY <2>2, <2>3, <1>4, <1>t, QuietKeeps DEF OutboxTyped, Owing
<1>6. CASE Claimable(r)
  <2> DEFINE w == [phase |-> "start", rows |-> worker[p].rows \ {r}, row |-> r, targets |-> Recalled(r),
                   devices |-> {}, todo |-> {}, permanent |-> FALSE]
  <2>1. w \in AtRow
    BY <1>3 DEF AtRow, Recalled, ReadRows
  <2>2. worker' = [worker EXCEPT ![p] = w] /\ due' = [due EXCEPT ![r.of] = FALSE] /\ attempts' = Counted(r)
    BY <1>2, <1>6
  <2>3. w.phase = "start" /\ w.row = r
    OBVIOUS
  <2> HIDE DEF w
  <2>4. attempts' \in [Deliveries -> Nat]
    BY <2>2, <1>3, <1>t DEF Counted, OutboxTyped, ReadRows
  <2>5. OutboxTyped'
    BY <2>1, <2>2, <2>4, <1>3, <1>4, <1>t DEF OutboxTyped, WorkerStates
  <2>6. SendsQueued'
    BY <2>2, <2>3, <1>t DEF OutboxTyped, SendsQueued
  <2>7. \A d \in Deliveries, t \in Devices : Debt(worker[p], d, t) = 0
    BY <1>1 DEF AtList, Owing, Debt
  <2>8. \A d \in Deliveries, t \in Devices :
           sent'[d][t] + Debt(w, d, t) + attempts[d] <= sent[d][t] + Debt(worker[p], d, t) + attempts'[d]
    <3> SUFFICES ASSUME NEW d \in Deliveries, NEW t \in Devices
                 PROVE  sent[d][t] + Debt(w, d, t) + attempts[d] <= sent[d][t] + attempts'[d]
      BY <2>7, <1>4, <2>4, <1>t DEF OutboxTyped
    <3>1. sent[d][t] \in Nat /\ attempts[d] \in Nat /\ attempts'[d] \in Nat
      BY <2>4, <1>t DEF OutboxTyped
    <3>2. CASE r.status = "queued" /\ r.of = d
      <4>1. attempts'[d] = attempts[d] + 1
        BY <3>2, <2>2, <1>t DEF Counted, OutboxTyped
      <4>2. Debt(w, d, t) \in 0 .. 1
        BY DEF Debt
      <4> QED
        BY <3>1, <4>1, <4>2
    <3>3. CASE ~ (r.status = "queued" /\ r.of = d)
      <4>1. attempts'[d] = attempts[d]
        BY <3>3, <2>2, <1>t DEF Counted, OutboxTyped
      <4>2. Debt(w, d, t) = 0
        BY <3>3, <2>3 DEF Debt, Owing
      <4> QED
        BY <3>1, <4>1, <4>2
    <3> QED
      BY <3>2, <3>3
  <2>9. Counts'
    BY <2>2, <2>5, <2>8, <1>t, AccountKept
  <2> QED
    BY <2>5, <2>6, <2>9 DEF OutboxInv
<1> QED
  BY <1>5, <1>6

\* The end of the work on a row.
LEMMA StoreRowKeeps ==
    ASSUME OutboxInv, NEW p \in Processes, worker[p] \in AtRow,
           NEW status \in PushStates, NEW targets \in Targets, StoreRow(p, status, targets)
    PROVE  OutboxInv'
<1> DEFINE w == [phase |-> "rows", rows |-> worker[p].rows]
<1>1. w \in AtList
  BY DEF AtRow, AtList
<1>2. worker' = [worker EXCEPT ![p] = w]
  BY DEF StoreRow, NextRow
<1>3. w \in WorkerStates /\ w.phase \notin {"start", "send", "store"}
  BY <1>1 DEF WorkerStates
<1> HIDE DEF w
<1>4. OutboxTyped /\ worker[p].row.of \in Deliveries
  BY DEF OutboxInv, AtRow, ReadRows
<1>5. /\ pushStatus' \in [Deliveries -> PushStates] /\ due' \in [Deliveries -> BOOLEAN]
      /\ result' \in [Deliveries -> Targets] /\ UNCHANGED <<attempts, sent>>
  BY <1>4 DEF StoreRow, OutboxTyped
<1> QED
  BY <1>2, <1>3, <1>5, QuietKeeps DEF Owing

\* What a row is called is a state of a row.
LEMMA RowStatusIs == \A targets, expired : RowStatus(targets, expired) \in PushStates \ {"absent"}
BY DEF RowStatus, PushStates, Over

\* The steps on a claimed row that send nothing.
LEMMA RowKeeps ==
    ASSUME OutboxInv, NEW p \in Processes,
           \/ UserInactive(p) \/ Prepare(p) \/ AllSent(p) \/ StoreBatch(p)
           \/ Finish(p) \/ ReceiptsFail(p) \/ Caught(p)
    PROVE  OutboxInv'
<1>t. OutboxTyped /\ SendsQueued
  BY DEF OutboxInv
<1>0. worker[p] \in AtRow
  BY <1>t, Hands DEF UserInactive, Prepare, AllSent, StoreBatch, Finish, ReceiptsFail, Caught
<1>r. /\ worker[p].row \in ReadRows /\ worker[p].row.of \in Deliveries /\ worker[p].rows \subseteq ReadRows
      /\ worker[p].targets \in Targets /\ worker[p].todo \subseteq Devices
  BY <1>0 DEF AtRow, ReadRows
<1>1. CASE UserInactive(p)
  <2> DEFINE w == [phase |-> "rows", rows |-> worker[p].rows]
  <2>1. w \in AtList
    BY <1>r DEF AtList
  <2>2. w \in WorkerStates /\ w.phase \notin {"start", "send", "store"}
    BY <2>1 DEF WorkerStates
  <2>3. worker' = [worker EXCEPT ![p] = w]
    BY <1>1 DEF UserInactive, NextRow
  <2> HIDE DEF w
  <2>4. pushStatus' \in [Deliveries -> PushStates]
    BY <1>1, <1>r, <1>t DEF UserInactive, OutboxTyped, PushStates, Over
  <2> QED
    BY <1>1, <1>t, <2>2, <2>3, <2>4, QuietKeeps DEF UserInactive, OutboxTyped, Owing
<1>2. CASE Prepare(p)
  <2> DEFINE targets == IF worker[p].targets # NoTargets THEN worker[p].targets
                        ELSE [t \in Devices |-> IF t \in Registered THEN "waiting" ELSE "none"]
  <2>1. targets \in Targets /\ NoTargets \in Targets
    BY <1>r DEF Targets, TargetStates, NoTargets
  <2>2. worker[p].phase = "start" /\ worker[p].row.status = "queued"
    BY <1>2 DEF Prepare
  <2>3. CASE targets = NoTargets
    <3>1. StoreRow(p, IF LastAttempt(p) THEN "failed" ELSE "queued", NoTargets)
      BY <1>2, <2>3 DEF Prepare
    <3> QED
      BY <3>1, <2>1, <1>0, StoreRowKeeps DEF PushStates, Over
  <2>4. CASE targets # NoTargets
    <3> DEFINE w == [worker[p] EXCEPT !.phase = "send", !.targets = targets,
                        !.devices = Registered, !.todo = Among(targets, {"waiting"})]
    <3>1. worker' = [worker EXCEPT ![p] = w] /\ UNCHANGED <<pushTable, sent>>
      BY <1>2, <2>4 DEF Prepare
    <3>2. Among(targets, {"waiting"}) \subseteq Devices /\ Registered \subseteq Devices
      BY <2>1 DEF Among, Targets, Registered
    <3> HIDE DEF targets
    <3>3. w \in AtRow /\ w.row = worker[p].row
      BY <1>0, <2>1, <3>2 DEF AtRow
    <3> HIDE DEF w
    <3>4. \A d \in Deliveries, t \in Devices : Owing(w, d, t) => Owing(worker[p], d, t)
      BY <3>3, <2>2 DEF Owing
    <3> QED
      BY <3>1, <3>3, <3>4, <2>2, <1>t, QuietKeeps DEF OutboxTyped, WorkerStates, pushTable
  <2> QED
    BY <2>3, <2>4
<1>3. CASE AllSent(p) \/ ReceiptsFail(p)
  <2>1. PICK phase \in {"finish", "error"}, permanent \in BOOLEAN :
           worker' = [worker EXCEPT ![p] = [worker[p] EXCEPT !.phase = phase, !.permanent = permanent]]
    <3>1. CASE AllSent(p)
      <4>1. worker' = [worker EXCEPT ![p] = [worker[p] EXCEPT !.phase = "finish", !.permanent = worker[p].permanent]]
        BY <3>1, <1>0, <1>t DEF AllSent, AtRow, OutboxTyped
      <4> QED
        BY <4>1, <1>0 DEF AtRow
    <3>2. CASE ReceiptsFail(p)
      BY <3>2 DEF ReceiptsFail
    <3> QED
      BY <1>3, <3>1, <3>2
  <2> DEFINE w == [worker[p] EXCEPT !.phase = phase, !.permanent = permanent]
  <2>2. w \in AtRow /\ w.phase \in {"finish", "error"}
    BY <1>0 DEF AtRow
  <2>3. worker' = [worker EXCEPT ![p] = w]
    BY <2>1
  <2> HIDE DEF w
  <2> QED
    BY <1>3, <2>2, <2>3, <1>t, QuietKeeps DEF AllSent, ReceiptsFail, OutboxTyped, WorkerStates, pushTable, Owing
<1>4. CASE StoreBatch(p)
  <2> DEFINE w == [worker[p] EXCEPT !.phase = "send"]
  <2>1. w \in AtRow /\ w.row = worker[p].row /\ w.todo = worker[p].todo /\ w.phase = "send"
    BY <1>0 DEF AtRow
  <2>2. worker' = [worker EXCEPT ![p] = w] /\ worker[p].phase = "store"
    BY <1>4 DEF StoreBatch
  <2> HIDE DEF w
  <2>3. result' \in [Deliveries -> Targets]
    BY <1>4, <1>r, <1>t DEF StoreBatch, OutboxTyped
  <2>4. worker[p].row.status = "queued"
    BY <2>2, <1>t DEF SendsQueued
  <2>5. \A d \in Deliveries, t \in Devices : Owing(w, d, t) => Owing(worker[p], d, t)
    BY <2>1, <2>2 DEF Owing
  <2> QED
    BY <1>4, <2>1, <2>2, <2>3, <2>4, <2>5, <1>t, QuietKeeps DEF StoreBatch, OutboxTyped, WorkerStates
<1>5. CASE Finish(p)
  <2> DEFINE pending == IF worker[p].row.status = "accepted" THEN Among(worker[p].targets, {"accepted"}) ELSE {}
  <2>1. PICK heard \in [pending -> {"accepted", "delivered", "failed"}] :
           LET targets == [t \in Devices |-> IF t \in pending THEN heard[t] ELSE worker[p].targets[t]]
           IN StoreRow(p, RowStatus(targets, Expired(p)), targets)
    BY <1>5 DEF Finish
  <2> DEFINE targets == [t \in Devices |-> IF t \in pending THEN heard[t] ELSE worker[p].targets[t]]
  <2>2. targets \in Targets
    BY <1>r DEF Targets, TargetStates
  <2> QED
    BY <2>1, <2>2, <1>0, RowStatusIs, StoreRowKeeps
<1>6. CASE Caught(p)
  <2> DEFINE w == worker[p]
             hopeless == w.row.status = "queued" /\ (LastAttempt(p) \/ w.permanent)
             targets == [t \in Devices |->
                IF hopeless /\ w.targets[t] = "waiting" THEN "failed" ELSE w.targets[t]]
             status == IF Some(targets, {"waiting", "accepted"})
                       THEN RowStatus(targets, Expired(p))
                       ELSE IF w.row.status = "accepted" THEN "receipt_unknown"
                       ELSE IF LastAttempt(p) \/ w.permanent THEN "failed" ELSE "queued"
  <2>1. StoreRow(p, status, targets)
    BY <1>6 DEF Caught
  <2>2. targets \in Targets
    BY <1>r DEF Targets, TargetStates
  <2>3. status \in PushStates
    BY RowStatusIs DEF PushStates, Over
  <2> QED
    BY <2>1, <2>2, <2>3, <1>0, StoreRowKeeps
<1> QED
  BY <1>1, <1>2, <1>3, <1>4, <1>5, <1>6

\* A batch goes to devices that were still to be sent to, and that are so no more.
LEMMA SendKeeps ==
    ASSUME OutboxInv, NEW p \in Processes, NEW batch \in SUBSET Devices,
           SendBatch(p, batch) \/ SendFails(p, batch)
    PROVE  OutboxInv'
<1>t. OutboxTyped /\ SendsQueued /\ Counts
  BY DEF OutboxInv
<1>0. worker[p] \in AtRow /\ worker[p].phase = "send" /\ batch \subseteq worker[p].todo
  BY <1>t, Hands DEF SendBatch, SendFails
<1>r. /\ worker[p].row.of \in Deliveries /\ worker[p].row.status = "queued"
      /\ worker[p].targets \in Targets
  BY <1>0, <1>t DEF AtRow, ReadRows, SendsQueued
<1>g. WithoutGone(p, batch) \in Targets
  BY <1>r DEF WithoutGone, Targets, TargetStates
<1>1. PICK w \in AtRow, took \in SUBSET batch :
         /\ worker' = [worker EXCEPT ![p] = w]
         /\ w.row = worker[p].row
         /\ w.phase \in {"send", "store"} => w.todo = worker[p].todo \ batch
         /\ w.phase \in {"send", "store", "error"}
         /\ sent' = [sent EXCEPT ![worker[p].row.of] =
                [t \in Devices |-> IF t \in took THEN @[t] + 1 ELSE @[t]]]
  <2>1. CASE SendBatch(p, batch)
    <3> DEFINE there == Known(p, batch)
               again == {"accepted", "failed"} \cup (IF LastAttempt(p) THEN {} ELSE {"waiting"})
    <3>1. PICK said \in [there -> again] :
             /\ worker' = [worker EXCEPT ![p] = [@ EXCEPT
                   !.phase = IF there = {} THEN "send" ELSE "store",
                   !.todo = worker[p].todo \ batch,
                   !.targets = [t \in Devices |->
                       IF t \in there THEN said[t] ELSE WithoutGone(p, batch)[t]]]]
             /\ sent' = [sent EXCEPT ![worker[p].row.of] =
                   [t \in Devices |-> IF t \in there /\ said[t] = "accepted" THEN @[t] + 1 ELSE @[t]]]
      BY <2>1 DEF SendBatch
    <3> DEFINE tg == [t \in Devices |-> IF t \in there THEN said[t] ELSE WithoutGone(p, batch)[t]]
               w == [worker[p] EXCEPT !.phase = IF there = {} THEN "send" ELSE "store",
                                      !.todo = worker[p].todo \ batch, !.targets = tg]
               took == {t \in there : said[t] = "accepted"}
    <3>2. tg \in Targets
      BY <1>g DEF Targets, TargetStates
    <3>3. took \subseteq batch
      BY DEF Known
    <3>4. sent' = [sent EXCEPT ![worker[p].row.of] =
                     [t \in Devices |-> IF t \in took THEN @[t] + 1 ELSE @[t]]]
      BY <3>1
    <3>5. worker' = [worker EXCEPT ![p] = w]
      BY <3>1
    <3> HIDE DEF there, tg, took
    <3>6. w \in AtRow /\ w.row = worker[p].row /\ w.todo = worker[p].todo \ batch /\ w.phase \in {"send", "store"}
      BY <1>0, <3>2 DEF AtRow
    <3> HIDE DEF w
    <3> QED
      BY <3>3, <3>4, <3>5, <3>6
  <2>2. CASE SendFails(p, batch)
    <3>1. PICK permanent \in BOOLEAN, taken \in {{}, Known(p, batch)} :
             /\ worker' = [worker EXCEPT ![p] = [worker[p] EXCEPT !.phase = "error", !.permanent = permanent,
                                                                 !.targets = WithoutGone(p, batch)]]
             /\ sent' = [sent EXCEPT ![worker[p].row.of] =
                   [t \in Devices |-> IF t \in taken THEN @[t] + 1 ELSE @[t]]]
      BY <2>2 DEF SendFails
    <3> DEFINE w == [worker[p] EXCEPT !.phase = "error", !.permanent = permanent,
                                      !.targets = WithoutGone(p, batch)]
    <3>2. w \in AtRow /\ w.row = worker[p].row /\ w.phase = "error"
      BY <1>0, <1>g DEF AtRow
    <3>3. taken \subseteq batch
      BY DEF Known
    <3>4. worker' = [worker EXCEPT ![p] = w]
      BY <3>1
    <3> HIDE DEF w
    <3> QED
      BY <3>1, <3>2, <3>3, <3>4
  <2> QED
    BY <2>1, <2>2
<1>2. UNCHANGED <<pushStatus, attempts, due, result>>
  BY DEF SendBatch, SendFails, pushTable
<1>3. sent' \in [Deliveries -> [Devices -> Nat]]
  <2> DEFINE d == worker[p].row.of
  <2>1. sent' = [sent EXCEPT ![d] = [t \in Devices |-> IF t \in took THEN sent[d][t] + 1 ELSE sent[d][t]]]
    BY <1>1
  <2>2. sent[d] \in [Devices -> Nat]
    BY <1>r, <1>t DEF OutboxTyped
  <2>3. [t \in Devices |-> IF t \in took THEN sent[d][t] + 1 ELSE sent[d][t]] \in [Devices -> Nat]
    BY <2>2
  <2> QED
    BY <2>1, <2>3, <1>t DEF OutboxTyped
<1>4. OutboxTyped'
  BY <1>1, <1>2, <1>3, <1>t DEF OutboxTyped, WorkerStates
<1>5. SendsQueued'
  BY <1>1, <1>r, <1>t DEF OutboxTyped, SendsQueued
<1>6. \A d \in Deliveries, t \in Devices :
         sent'[d][t] + Debt(w, d, t) + attempts[d] <= sent[d][t] + Debt(worker[p], d, t) + attempts'[d]
  <2> SUFFICES ASSUME NEW d \in Deliveries, NEW t \in Devices
               PROVE  sent'[d][t] + Debt(w, d, t) <= sent[d][t] + Debt(worker[p], d, t)
    BY <1>2, <1>3, <1>t DEF OutboxTyped, Debt
  <2>1. sent[d][t] \in Nat
    BY <1>t DEF OutboxTyped
  <2>2. CASE d = worker[p].row.of /\ t \in took
    <3>1. sent'[d][t] = sent[d][t] + 1
      BY <2>2, <1>1, <1>t DEF OutboxTyped
    <3>2. Debt(worker[p], d, t) = 1
      BY <2>2, <1>0, <1>r DEF Debt, Owing
    <3>3. Debt(w, d, t) = 0
      BY <2>2, <1>1 DEF Debt, Owing
    <3> QED
      BY <2>1, <3>1, <3>2, <3>3
  <2>3. CASE ~ (d = worker[p].row.of /\ t \in took)
    <3>1. sent'[d][t] = sent[d][t]
      BY <2>3, <1>1, <1>t DEF OutboxTyped
    <3>2. Owing(w, d, t) => Owing(worker[p], d, t)
      BY <1>0, <1>1 DEF Owing
    <3> QED
      BY <2>1, <3>1, <3>2 DEF Debt
  <2> QED
    BY <2>2, <2>3
<1>7. Counts'
  BY <1>1, <1>4, <1>6, <1>t, AccountKept
<1> QED
  BY <1>4, <1>5, <1>7 DEF OutboxInv

\* No dispatch, crash, notification, delay or change of devices breaks the account.
LEMMA OutboxNextInvariant == OutboxInv /\ [OutboxNext]_pushVars => OutboxInv'
<1> SUFFICES ASSUME OutboxInv, [OutboxNext]_pushVars PROVE OutboxInv'
  OBVIOUS
<1>t. OutboxTyped
  BY DEF OutboxInv
<1>1. ASSUME NEW p \in Processes, Dispatch(p) PROVE OutboxInv'
  BY <1>1, ListingKeeps, ClaimKeeps, RowKeeps, SendKeeps DEF Dispatch
<1>2. ASSUME NEW p \in Processes, ProcessStops(p) PROVE OutboxInv'
  BY <1>2, ListingKeeps
<1>3. ASSUME NEW d \in Deliveries, Notify(d) \/ TimePasses(d) \/ DayPasses(d) PROVE OutboxInv'
  BY <1>3, <1>t, AroundKeeps DEF Notify, TimePasses, DayPasses, OutboxTyped, PushStates
<1>4. ASSUME NEW t \in Devices, DeviceChanges(t) PROVE OutboxInv'
  BY <1>4, <1>t, AroundKeeps DEF DeviceChanges, OutboxTyped, pushTable
<1>5. CASE UNCHANGED pushVars
  BY <1>5, <1>t, AroundKeeps DEF pushVars, pushTable, OutboxTyped
<1> QED
  BY <1>1, <1>2, <1>3, <1>4, <1>5 DEF OutboxNext

\* In every reachable state the rows a process holds are of the table's shape, only
\* queued ones are sent, and what was sent and is being sent of a delivery is within
\* its claims, for any finite number of processes.
THEOREM OutboxInvariance == OutboxSpec => []OutboxInv
<1>1. OutboxSpec => OutboxInit /\ [][OutboxNext]_pushVars
  BY PTL DEF OutboxSpec
<1> QED
  BY <1>1, OutboxInitially, OutboxNextInvariant, PTL

\* Whatever number of processes dispatch, no device is sent a message more often than
\* its delivery was claimed for sending: the claim counts before anything is sent
\* (dispatch of the push outbox).
THEOREM SentWithinClaims ==
    OutboxSpec => [](\A d \in Deliveries, t \in Devices : sent[d][t] <= attempts[d])
<1>1. OutboxInv => \A d \in Deliveries, t \in Devices : sent[d][t] <= attempts[d]
  <2> SUFFICES ASSUME OutboxInv, NEW d \in Deliveries, NEW t \in Devices PROVE sent[d][t] <= attempts[d]
    OBVIOUS
  <2>1. IsFiniteSet(Owes(d, t))
    BY OutboxAssumption, FS_Subset DEF Owes
  <2>2. Cardinality(Owes(d, t)) \in Nat
    BY <2>1, FS_CardinalityType
  <2>3. sent[d][t] \in Nat /\ attempts[d] \in Nat /\ sent[d][t] + Cardinality(Owes(d, t)) <= attempts[d]
    BY DEF OutboxInv, OutboxTyped, Counts
  <2> QED
    BY <2>2, <2>3
<1> QED
  BY <1>1, OutboxInvariance, PTL

\* One server process dispatches.
OneProcess == \A p, q \in Processes : p = q

\* The rows a process has still to claim are different, have attempts left and hold
\* what is stored.
ListFresh(w) ==
    /\ \A r \in w.rows : /\ r.status = "queued" => attempts[r.of] < SendLimit
                         /\ r.result = result[r.of]
    /\ \A r, q \in w.rows : r.of = q.of => r = q

\* The claimed row is none of these, and holds what is stored until its targets say
\* more; no acceptance is stored for what is still to be sent.
RowFresh(w) ==
    /\ \A r \in w.rows : r.of # w.row.of
    /\ w.phase = "start" => w.targets = result[w.row.of]
    /\ w.phase \in {"send", "store"} => \A t \in w.todo :
          w.targets[t] = "waiting" /\ result[w.row.of][t] \notin {"accepted", "delivered"}

AttemptsLeft ==
    \A d \in Deliveries : /\ attempts[d] <= SendLimit
                          /\ pushStatus[d] = "absent" => attempts[d] = 0

WorksFresh(p) ==
    /\ worker[p].phase = "read" => \A d \in Deliveries : pushStatus[d] = "queued" => attempts[d] < SendLimit
    /\ worker[p] \in AtList \cup AtRow => ListFresh(worker[p])
    /\ worker[p] \in AtRow => RowFresh(worker[p])

SoleInv == AttemptsLeft /\ \A p \in Processes : WorksFresh(p)

LEMMA SoleInitially == OutboxInit => SoleInv
<1> SUFFICES ASSUME OutboxInit PROVE SoleInv
  OBVIOUS
<1>1. Asleep \notin AtList \cup AtRow /\ Asleep.phase # "read"
  BY DEF Asleep, AtList, AtRow
<1> QED
  BY <1>1, OutboxAssumption DEF OutboxInit, SoleInv, AttemptsLeft, WorksFresh

\* What a process stores of its row leaves the rows still to claim as they were.
LEMMA StoreRowSole ==
    ASSUME OutboxInv, SoleInv, NEW p \in Processes, worker[p] \in AtRow,
           NEW status \in PushStates \ {"absent"}, NEW targets \in Targets, StoreRow(p, status, targets)
    PROVE  AttemptsLeft' /\ WorksFresh(p)'
<1>t. OutboxTyped /\ worker[p].row.of \in Deliveries /\ worker[p].rows \subseteq ReadRows
  BY DEF OutboxInv, AtRow, ReadRows
<1>1. AttemptsLeft'
  BY <1>t DEF StoreRow, SoleInv, AttemptsLeft, OutboxTyped
<1>2. worker'[p] = [phase |-> "rows", rows |-> worker[p].rows]
  BY <1>t DEF StoreRow, NextRow, OutboxTyped
<1>3. worker'[p] \notin AtRow /\ worker'[p].phase # "read" /\ worker'[p].rows = worker[p].rows
  BY <1>2 DEF AtRow
<1>4. ListFresh(worker[p]) /\ \A r \in worker[p].rows : r.of # worker[p].row.of /\ r.of \in Deliveries
  BY <1>t DEF SoleInv, WorksFresh, RowFresh, ReadRows
<1>5. \A r \in worker[p].rows : result'[r.of] = result[r.of] /\ attempts'[r.of] = attempts[r.of]
  BY <1>4, <1>t DEF StoreRow, OutboxTyped
<1>6. ListFresh(worker[p])'
  BY <1>3, <1>4, <1>5 DEF ListFresh
<1> QED
  BY <1>1, <1>3, <1>6 DEF WorksFresh

\* Exhausting first is what leaves an attempt to every row that is listed next.
LEMMA ListingSole ==
    ASSUME OutboxInv, SoleInv, NEW p \in Processes,
           Exhaust(p) \/ ListDue(p) \/ NoMoreRows(p) \/ ProcessStops(p)
    PROVE  AttemptsLeft' /\ WorksFresh(p)'
<1>t. OutboxTyped /\ AttemptsLeft /\ WorksFresh(p)
  BY DEF OutboxInv, SoleInv
<1>a. Asleep.phase = "idle" /\ Asleep \notin AtList \cup AtRow
  BY DEF Asleep, AtList, AtRow
<1>1. CASE Exhaust(p)
  <2>1. AttemptsLeft'
    BY <1>1, <1>t DEF Exhaust, AttemptsLeft, OutboxTyped
  <2>2. worker'[p] = [phase |-> "read", rows |-> {}]
    BY <1>1, <1>t DEF Exhaust, OutboxTyped
  <2>3. \A d \in Deliveries : pushStatus'[d] = "queued" => attempts'[d] < SendLimit
    BY <1>1, <1>t, OutboxAssumption DEF Exhaust, OutboxTyped
  <2> QED
    BY <2>1, <2>2, <2>3 DEF WorksFresh, ListFresh, AtRow
<1>2. CASE ListDue(p)
  <2> DEFINE list == {[of |-> d, status |-> pushStatus[d], attempts |-> attempts[d], result |-> result[d]] :
                        d \in {e \in Deliveries : pushStatus[e] \in {"queued", "accepted"} /\ due[e]}}
  <2>1. worker'[p] = [phase |-> "rows", rows |-> list]
    BY <1>2, <1>t DEF ListDue, OutboxTyped
  <2>2. \A d \in Deliveries : pushStatus[d] = "queued" => attempts[d] < SendLimit
    BY <1>2, <1>t DEF ListDue, WorksFresh
  <2>3. \A r \in list : /\ r.status = "queued" => attempts[r.of] < SendLimit
                        /\ r.result = result[r.of]
                        /\ r = [of |-> r.of, status |-> pushStatus[r.of], attempts |-> attempts[r.of],
                                result |-> result[r.of]]
    BY <2>2
  <2> HIDE DEF list
  <2>4. AttemptsLeft' /\ UNCHANGED <<attempts, result>>
    BY <1>2, <1>t DEF ListDue, AttemptsLeft, pushTable
  <2>5. ListFresh(worker[p])'
    BY <2>1, <2>3, <2>4 DEF ListFresh
  <2>6. worker'[p].phase # "read" /\ worker'[p] \notin AtRow
    BY <2>1 DEF AtRow
  <2> QED
    BY <2>4, <2>5, <2>6 DEF WorksFresh
<1>3. CASE NoMoreRows(p) \/ ProcessStops(p)
  <2>1. worker'[p] = Asleep /\ UNCHANGED <<pushStatus, attempts>>
    BY <1>3, <1>t DEF NoMoreRows, ProcessStops, OutboxTyped, pushTable
  <2> QED
    BY <2>1, <1>a, <1>t DEF WorksFresh, AttemptsLeft
<1> QED
  BY <1>1, <1>2, <1>3

\* A claim counts up to the limit at most, and only its own row.
LEMMA ClaimSole ==
    ASSUME OutboxInv, SoleInv, NEW p \in Processes, ClaimRow(p)
    PROVE  AttemptsLeft' /\ WorksFresh(p)'
<1>t. OutboxTyped /\ AttemptsLeft /\ WorksFresh(p)
  BY DEF OutboxInv, SoleInv
<1>1. worker[p] \in AtList
  BY <1>t, Hands DEF ClaimRow, Asleep
<1>f. ListFresh(worker[p])
  BY <1>1, <1>t DEF WorksFresh
<1>2. PICK r \in worker[p].rows :
         LET rest == worker[p].rows \ {r} IN
         IF Claimable(r)
         THEN /\ due' = [due EXCEPT ![r.of] = FALSE]
              /\ attempts' = Counted(r)
              /\ worker' = [worker EXCEPT ![p] =
                    [phase |-> "start", rows |-> rest, row |-> r, targets |-> Recalled(r),
                     devices |-> {}, todo |-> {}, permanent |-> FALSE]]
         ELSE /\ worker' = [worker EXCEPT ![p].rows = rest]
              /\ UNCHANGED <<due, attempts>>
  BY DEF ClaimRow
<1> DEFINE rest == worker[p].rows \ {r}
<1>3. r \in ReadRows /\ rest \subseteq ReadRows /\ \A q \in rest : q.of # r.of
  BY <1>1, <1>f DEF AtList, ListFresh
<1>4. UNCHANGED <<pushStatus, result>>
  BY DEF ClaimRow
<1>5. CASE ~ Claimable(r)
  <2>1. worker'[p] = [worker[p] EXCEPT !.rows = rest] /\ UNCHANGED attempts
    BY <1>2, <1>5, <1>t DEF OutboxTyped
  <2>2. worker'[p].rows = rest /\ worker'[p].phase = "rows" /\ worker'[p] \notin AtRow
    BY <2>1, <1>1 DEF AtList, AtRow, ClaimRow
  <2>3. ListFresh(worker[p])'
    BY <2>1, <2>2, <1>4, <1>f DEF ListFresh
  <2> QED
    BY <2>1, <2>2, <2>3, <1>4, <1>t DEF WorksFresh, AttemptsLeft
<1>6. CASE Claimable(r)
  <2>1. /\ attempts' = Counted(r)
        /\ worker'[p] = [phase |-> "start", rows |-> rest, row |-> r, targets |-> Recalled(r),
                         devices |-> {}, todo |-> {}, permanent |-> FALSE]
    BY <1>2, <1>6, <1>t DEF OutboxTyped
  <2>2. /\ r.of \in Deliveries /\ pushStatus[r.of] # "absent" /\ r.result = result[r.of]
        /\ r.status = "queued" => attempts[r.of] < SendLimit
    BY <1>3, <1>6, <1>f DEF ReadRows, Claimable, ListFresh
  <2>3. AttemptsLeft'
    BY <2>1, <2>2, <1>4, <1>t, OutboxAssumption DEF Counted, AttemptsLeft, OutboxTyped
  <2>4. \A q \in rest : attempts'[q.of] = attempts[q.of] /\ q \in worker[p].rows
    BY <2>1, <1>3, <1>t DEF Counted, OutboxTyped, ReadRows
  <2> HIDE DEF rest
  <2>5. ListFresh(worker[p])'
    BY <2>1, <2>4, <1>4, <1>f DEF ListFresh
  <2>6. RowFresh(worker[p])'
    BY <2>1, <2>2, <1>3, <1>4 DEF RowFresh, Recalled
  <2> QED
    BY <2>1, <2>3, <2>5, <2>6 DEF WorksFresh
<1> QED
  BY <1>5, <1>6

\* The steps on a claimed row.
LEMMA RowSole ==
    ASSUME OutboxInv, SoleInv, NEW p \in Processes,
           \/ UserInactive(p) \/ Prepare(p) \/ AllSent(p) \/ StoreBatch(p)
           \/ Finish(p) \/ ReceiptsFail(p) \/ Caught(p)
    PROVE  AttemptsLeft' /\ WorksFresh(p)'
<1>t. OutboxTyped /\ AttemptsLeft /\ WorksFresh(p)
  BY DEF OutboxInv, SoleInv
<1>0. worker[p] \in AtRow
  BY <1>t, Hands DEF UserInactive, Prepare, AllSent, StoreBatch, Finish, ReceiptsFail, Caught
<1>r. /\ worker[p].row \in ReadRows /\ worker[p].row.of \in Deliveries /\ worker[p].rows \subseteq ReadRows
      /\ worker[p].targets \in Targets /\ worker[p].todo \subseteq Devices
      /\ ListFresh(worker[p]) /\ RowFresh(worker[p])
  BY <1>0, <1>t DEF AtRow, ReadRows, WorksFresh
<1>1. CASE UserInactive(p)
  <2>1. worker'[p] = [phase |-> "rows", rows |-> worker[p].rows]
    BY <1>1, <1>t DEF UserInactive, NextRow, OutboxTyped
  <2>2. worker'[p] \notin AtRow /\ worker'[p].phase # "read" /\ worker'[p].rows = worker[p].rows
    BY <2>1 DEF AtRow
  <2>3. AttemptsLeft'
    BY <1>1, <1>r, <1>t DEF UserInactive, AttemptsLeft, OutboxTyped
  <2> QED
    BY <1>1, <2>2, <2>3, <1>r DEF UserInactive, WorksFresh, ListFresh
<1>2. CASE Prepare(p)
  <2> DEFINE targets == IF worker[p].targets # NoTargets THEN worker[p].targets
                        ELSE [t \in Devices |-> IF t \in Registered THEN "waiting" ELSE "none"]
  <2>1. targets \in Targets /\ NoTargets \in Targets
    BY <1>r DEF Targets, TargetStates, NoTargets
  <2>3. CASE targets = NoTargets
    <3>1. StoreRow(p, IF LastAttempt(p) THEN "failed" ELSE "queued", NoTargets)
      BY <1>2, <2>3 DEF Prepare
    <3> QED
      BY <3>1, <2>1, <1>0, StoreRowSole DEF PushStates, Over
  <2>4. CASE targets # NoTargets
    <3>1. /\ worker'[p] = [worker[p] EXCEPT !.phase = "send", !.targets = targets,
                             !.devices = Registered, !.todo = Among(targets, {"waiting"})]
          /\ UNCHANGED pushTable
      BY <1>2, <2>4, <1>t DEF Prepare, OutboxTyped
    <3>2. worker[p].targets = result[worker[p].row.of]
      BY <1>2, <1>r DEF Prepare, RowFresh
    <3>3. \A t \in Among(targets, {"waiting"}) :
             targets[t] = "waiting" /\ result[worker[p].row.of][t] \notin {"accepted", "delivered"}
      BY <3>2, <2>1 DEF Among, Targets, NoTargets
    <3> HIDE DEF targets
    <3>4. /\ worker'[p].phase = "send" /\ worker'[p].rows = worker[p].rows /\ worker'[p].row = worker[p].row
          /\ worker'[p].todo = Among(targets, {"waiting"}) /\ worker'[p].targets = targets
      BY <3>1, <1>0 DEF AtRow
    <3>5. ListFresh(worker[p])' /\ RowFresh(worker[p])'
      BY <3>1, <3>3, <3>4, <1>r DEF ListFresh, RowFresh, pushTable
    <3> QED
      BY <3>1, <3>4, <3>5, <1>t DEF WorksFresh, AttemptsLeft, pushTable
  <2> QED
    BY <2>3, <2>4
<1>3. CASE AllSent(p) \/ ReceiptsFail(p)
  <2>1. /\ worker'[p].phase \in {"finish", "error"} /\ UNCHANGED pushTable
        /\ worker'[p].rows = worker[p].rows /\ worker'[p].row = worker[p].row
    <3>1. CASE AllSent(p)
      <4>1. worker'[p] = [worker[p] EXCEPT !.phase = "finish"] /\ UNCHANGED pushTable
        BY <3>1, <1>t DEF AllSent, OutboxTyped
      <4> QED
        BY <4>1, <1>0 DEF AtRow
    <3>2. CASE ReceiptsFail(p)
      <4>1. PICK permanent \in BOOLEAN :
               worker' = [worker EXCEPT ![p] = [@ EXCEPT !.phase = "error", !.permanent = permanent]]
        BY <3>2 DEF ReceiptsFail
      <4>2. worker'[p] = [worker[p] EXCEPT !.phase = "error", !.permanent = permanent] /\ UNCHANGED pushTable
        BY <3>2, <4>1, <1>t DEF ReceiptsFail, OutboxTyped
      <4> QED
        BY <4>2, <1>0 DEF AtRow
    <3> QED
      BY <1>3, <3>1, <3>2
  <2> QED
    BY <2>1, <1>r, <1>t DEF WorksFresh, AttemptsLeft, ListFresh, RowFresh, pushTable
<1>4. CASE StoreBatch(p)
  <2>1. worker'[p] = [worker[p] EXCEPT !.phase = "send"] /\ UNCHANGED <<pushStatus, attempts>>
    BY <1>4, <1>t DEF StoreBatch, OutboxTyped
  <2>2. /\ worker'[p].phase = "send" /\ worker'[p].rows = worker[p].rows /\ worker'[p].row = worker[p].row
        /\ worker'[p].todo = worker[p].todo /\ worker'[p].targets = worker[p].targets
    BY <2>1, <1>0 DEF AtRow
  <2>3. \A d \in Deliveries : result'[d] = IF d = worker[p].row.of THEN worker[p].targets ELSE result[d]
    BY <1>4, <1>r, <1>t DEF StoreBatch, OutboxTyped
  <2>4. \A r \in worker[p].rows : result'[r.of] = result[r.of] /\ attempts'[r.of] = attempts[r.of]
    BY <2>1, <2>3, <1>r DEF RowFresh, ReadRows
  <2>5. ListFresh(worker[p])'
    BY <2>2, <2>4, <1>r DEF ListFresh
  <2>6. RowFresh(worker[p])'
    BY <2>2, <2>3, <1>4, <1>r DEF RowFresh, StoreBatch
  <2> QED
    BY <2>1, <2>2, <2>5, <2>6, <1>t DEF WorksFresh, AttemptsLeft
<1>5. CASE Finish(p)
  <2> DEFINE pending == IF worker[p].row.status = "accepted" THEN Among(worker[p].targets, {"accepted"}) ELSE {}
  <2>1. PICK heard \in [pending -> {"accepted", "delivered", "failed"}] :
           LET targets == [t \in Devices |-> IF t \in pending THEN heard[t] ELSE worker[p].targets[t]]
           IN StoreRow(p, RowStatus(targets, Expired(p)), targets)
    BY <1>5 DEF Finish
  <2> DEFINE targets == [t \in Devices |-> IF t \in pending THEN heard[t] ELSE worker[p].targets[t]]
  <2>2. targets \in Targets
    BY <1>r DEF Targets, TargetStates
  <2> QED
    BY <2>1, <2>2, <1>0, RowStatusIs, StoreRowSole
<1>6. CASE Caught(p)
  <2> DEFINE w == worker[p]
             hopeless == w.row.status = "queued" /\ (LastAttempt(p) \/ w.permanent)
             targets == [t \in Devices |->
                IF hopeless /\ w.targets[t] = "waiting" THEN "failed" ELSE w.targets[t]]
             status == IF Some(targets, {"waiting", "accepted"})
                       THEN RowStatus(targets, Expired(p))
                       ELSE IF w.row.status = "accepted" THEN "receipt_unknown"
                       ELSE IF LastAttempt(p) \/ w.permanent THEN "failed" ELSE "queued"
  <2>1. StoreRow(p, status, targets)
    BY <1>6 DEF Caught
  <2>2. targets \in Targets
    BY <1>r DEF Targets, TargetStates
  <2>3. status \in PushStates \ {"absent"}
    BY RowStatusIs DEF PushStates, Over
  <2> QED
    BY <2>1, <2>2, <2>3, <1>0, StoreRowSole
<1> QED
  BY <1>1, <1>2, <1>3, <1>4, <1>5, <1>6

\* Sending leaves the rest of the batch to be sent as it was.
LEMMA SendSole ==
    ASSUME OutboxInv, SoleInv, NEW p \in Processes, NEW batch \in SUBSET Devices,
           SendBatch(p, batch) \/ SendFails(p, batch)
    PROVE  AttemptsLeft' /\ WorksFresh(p)'
<1>t. OutboxTyped /\ AttemptsLeft /\ WorksFresh(p)
  BY DEF OutboxInv, SoleInv
<1>0. worker[p] \in AtRow /\ worker[p].phase = "send" /\ worker[p].todo \subseteq Devices
  BY <1>t, Hands DEF SendBatch, SendFails, AtRow
<1>r. ListFresh(worker[p]) /\ RowFresh(worker[p])
  BY <1>0, <1>t DEF WorksFresh
<1>1. UNCHANGED <<pushStatus, attempts, result>>
  BY DEF SendBatch, SendFails, pushTable
<1>2. /\ worker'[p].rows = worker[p].rows /\ worker'[p].row = worker[p].row
      /\ worker'[p].phase \in {"send", "store", "error"}
      /\ worker'[p].phase \in {"send", "store"} =>
            /\ worker'[p].todo = worker[p].todo \ batch
            /\ \A t \in worker[p].todo \ batch : worker'[p].targets[t] = worker[p].targets[t]
  <2>1. CASE SendBatch(p, batch)
    <3> DEFINE there == Known(p, batch)
               again == {"accepted", "failed"} \cup (IF LastAttempt(p) THEN {} ELSE {"waiting"})
    <3>1. PICK said \in [there -> again] :
             worker' = [worker EXCEPT ![p] = [@ EXCEPT
                   !.phase = IF there = {} THEN "send" ELSE "store",
                   !.todo = worker[p].todo \ batch,
                   !.targets = [t \in Devices |->
                       IF t \in there THEN said[t] ELSE WithoutGone(p, batch)[t]]]]
      BY <2>1 DEF SendBatch
    <3> DEFINE tg == [t \in Devices |-> IF t \in there THEN said[t] ELSE WithoutGone(p, batch)[t]]
               phase == IF there = {} THEN "send" ELSE "store"
    <3>2. \A t \in worker[p].todo \ batch : tg[t] = worker[p].targets[t]
      BY <1>0 DEF Known, WithoutGone
    <3>3. worker'[p] = [worker[p] EXCEPT !.phase = phase, !.todo = worker[p].todo \ batch, !.targets = tg]
      BY <3>1, <1>t DEF OutboxTyped
    <3>4. phase \in {"send", "store"}
      OBVIOUS
    <3> HIDE DEF tg, phase
    <3> QED
      BY <3>2, <3>3, <3>4, <1>0 DEF AtRow
  <2>2. CASE SendFails(p, batch)
    <3>1. PICK permanent \in BOOLEAN :
             worker' = [worker EXCEPT ![p] = [@ EXCEPT !.phase = "error", !.permanent = permanent,
                                                       !.targets = WithoutGone(p, batch)]]
      BY <2>2 DEF SendFails
    <3>2. worker'[p] = [worker[p] EXCEPT !.phase = "error", !.permanent = permanent,
                                         !.targets = WithoutGone(p, batch)]
      BY <3>1, <1>t DEF OutboxTyped
    <3> QED
      BY <3>2, <1>0 DEF AtRow
  <2> QED
    BY <2>1, <2>2
<1>3. ListFresh(worker[p])'
  BY <1>1, <1>2, <1>r DEF ListFresh
<1>4. RowFresh(worker[p])'
  BY <1>0, <1>1, <1>2, <1>r DEF RowFresh
<1> QED
  BY <1>1, <1>2, <1>3, <1>4, <1>t DEF WorksFresh, AttemptsLeft

\* What happens around the only process leaves it what it knows.
LEMMA AroundSole ==
    ASSUME OutboxInv, SoleInv, UNCHANGED <<attempts, result, worker>>,
           \A d \in Deliveries : pushStatus'[d] = pushStatus[d] \/ pushStatus[d] = "absent"
    PROVE  SoleInv'
<1>0. AttemptsLeft /\ SendLimit \in Nat /\ 0 < SendLimit
  BY OutboxAssumption DEF SoleInv
<1>1. \A d \in Deliveries : pushStatus[d] = "absent" => attempts[d] < SendLimit
  <2> SUFFICES ASSUME NEW d \in Deliveries, pushStatus[d] = "absent" PROVE attempts[d] < SendLimit
    OBVIOUS
  <2>1. attempts[d] = 0
    BY <1>0 DEF AttemptsLeft
  <2> QED
    BY <1>0, <2>1
<1>2. AttemptsLeft'
  BY <1>0 DEF AttemptsLeft
<1>3. \A p \in Processes : WorksFresh(p)'
  BY <1>1 DEF SoleInv, WorksFresh, ListFresh, RowFresh
<1> QED
  BY <1>2, <1>3 DEF SoleInv

LEMMA SoleNextInvariant == OneProcess /\ OutboxInv /\ SoleInv /\ [OutboxNext]_pushVars => SoleInv'
<1> SUFFICES ASSUME OneProcess, OutboxInv, SoleInv, [OutboxNext]_pushVars PROVE SoleInv'
  OBVIOUS
<1>t. OutboxTyped
  BY DEF OutboxInv
<1>1. ASSUME NEW p \in Processes, Dispatch(p) \/ ProcessStops(p) PROVE SoleInv'
  <2>1. AttemptsLeft' /\ WorksFresh(p)'
    BY <1>1, ListingSole, ClaimSole, RowSole, SendSole DEF Dispatch
  <2>2. \A q \in Processes : q = p
    BY DEF OneProcess
  <2> QED
    BY <2>1, <2>2, Zenon DEF SoleInv
<1>3. ASSUME NEW d \in Deliveries, Notify(d) \/ TimePasses(d) \/ DayPasses(d) PROVE SoleInv'
  BY <1>3, <1>t, AroundSole DEF Notify, TimePasses, DayPasses, OutboxTyped
<1>4. ASSUME NEW t \in Devices, DeviceChanges(t) PROVE SoleInv'
  BY <1>4, AroundSole DEF DeviceChanges, pushTable
<1>5. CASE UNCHANGED pushVars
  BY <1>5, AroundSole DEF pushVars, pushTable
<1> QED
  BY <1>1, <1>3, <1>4, <1>5 DEF OutboxNext

\* With one process what it remembers of a row it works on is what is stored, and no
\* delivery has more attempts than the limit (ClaimRow, and dispatch's first statement).
THEOREM SoleInvariance == OneProcess /\ OutboxSpec => [](OutboxInv /\ SoleInv)
<1>1. OutboxSpec => OutboxInit /\ [][OutboxNext]_pushVars
  BY PTL DEF OutboxSpec
<1>2. SUFFICES ASSUME OneProcess PROVE OutboxSpec => [](OutboxInv /\ SoleInv)
  OBVIOUS
<1>3. OutboxInv /\ SoleInv /\ [OutboxNext]_pushVars => SoleInv'
  BY <1>2, SoleNextInvariant
<1> QED
  BY <1>1, <1>3, OutboxInvariance, SoleInitially, PTL

\* With one process no delivery is claimed for sending more often than the limit, so no
\* device is sent a message more often either, whatever stops, fails or is lost.
THEOREM SendsBoundedAlone == OneProcess => (OutboxSpec => []SendsBounded)
<1>1. OutboxInv /\ SoleInv /\ (\A d \in Deliveries, t \in Devices : sent[d][t] <= attempts[d]) => SendsBounded
  BY DEF SoleInv, AttemptsLeft, SendsBounded
<1> QED
  BY <1>1, SoleInvariance, SentWithinClaims, PTL

\* With one process a device whose acceptance is stored is not sent the message again:
\* what is still to be sent was read from what is stored.
THEOREM AcceptedStays == OneProcess => (OutboxSpec => AcceptedNotResent)
<1> DEFINE Same == \A d \in Deliveries, t \in Devices :
             result[d][t] \in {"accepted", "delivered"} => sent'[d][t] = sent[d][t]
<1>1. OutboxSpec => OutboxInit /\ [][OutboxNext]_pushVars
  BY PTL DEF OutboxSpec
<1>2. ASSUME OutboxInv, SoleInv, [OutboxNext]_pushVars PROVE [Same]_pushVars
  <2>t. OutboxTyped
    BY <1>2 DEF OutboxInv
  <2>1. ASSUME NEW p \in Processes, NEW batch \in SUBSET Devices, SendBatch(p, batch) \/ SendFails(p, batch)
        PROVE  Same
    <3>1. worker[p] \in AtRow /\ worker[p].phase = "send" /\ batch \subseteq worker[p].todo
      BY <2>1, <2>t, Hands DEF SendBatch, SendFails
    <3>2. \A t \in batch : result[worker[p].row.of][t] \notin {"accepted", "delivered"}
      BY <1>2, <3>1 DEF SoleInv, WorksFresh, RowFresh
    <3>3. worker[p].row.of \in Deliveries
      BY <3>1 DEF AtRow, ReadRows
    <3>4. \A d \in Deliveries, t \in Devices :
             sent'[d][t] = sent[d][t] \/ (d = worker[p].row.of /\ t \in batch)
      <4>1. CASE SendBatch(p, batch)
        <5>1. PICK said \in [Known(p, batch) -> {"accepted", "failed"} \cup (IF LastAttempt(p) THEN {} ELSE {"waiting"})] :
                 sent' = [sent EXCEPT ![worker[p].row.of] =
                   [t \in Devices |-> IF t \in Known(p, batch) /\ said[t] = "accepted" THEN @[t] + 1 ELSE @[t]]]
          BY <4>1 DEF SendBatch
        <5> QED
          BY <5>1, <3>3, <2>t DEF OutboxTyped, Known
      <4>2. CASE SendFails(p, batch)
        <5>1. PICK taken \in {{}, Known(p, batch)} :
                 sent' = [sent EXCEPT ![worker[p].row.of] =
                   [t \in Devices |-> IF t \in taken THEN @[t] + 1 ELSE @[t]]]
          BY <4>2 DEF SendFails
        <5> QED
          BY <5>1, <3>3, <2>t DEF OutboxTyped, Known
      <4> QED
        BY <2>1, <4>1, <4>2
    <3> QED
      BY <3>2, <3>4
  <2>2. ASSUME UNCHANGED sent PROVE Same
    BY <2>2
  <2>3. ASSUME NEW p \in Processes,
               \/ Exhaust(p) \/ ListDue(p) \/ ClaimRow(p) \/ NoMoreRows(p) \/ UserInactive(p) \/ Prepare(p)
               \/ AllSent(p) \/ StoreBatch(p) \/ Finish(p) \/ ReceiptsFail(p) \/ Caught(p) \/ ProcessStops(p)
        PROVE  UNCHANGED sent
    BY <2>3 DEF Exhaust, ListDue, ClaimRow, NoMoreRows, UserInactive, Prepare, AllSent, StoreBatch, Finish,
       ReceiptsFail, Caught, ProcessStops, StoreRow
  <2>4. ASSUME \/ \E d \in Deliveries : Notify(d) \/ TimePasses(d) \/ DayPasses(d)
               \/ \E t \in Devices : DeviceChanges(t)
        PROVE  UNCHANGED sent
    BY <2>4 DEF Notify, TimePasses, DayPasses, DeviceChanges
  <2> QED
    BY <1>2, <2>1, <2>2, <2>3, <2>4 DEF OutboxNext, Dispatch
<1>3. SUFFICES ASSUME OneProcess PROVE OutboxSpec => AcceptedNotResent
  OBVIOUS
<1>4. OutboxSpec => [](OutboxInv /\ SoleInv)
  BY <1>3, SoleInvariance
<1> QED
  BY <1>1, <1>2, <1>4, PTL DEF AcceptedNotResent

-----------------------------------------------------------------------------
(* The phone's queue.  A loop is past a step of an operation only if the   *)
(* server did it, because what a call is told was done for its key, and a  *)
(* worker's call stays its own until it hears or gives up.  The user may   *)
(* edit, discard and delete, the other loop may send the same row, and the *)
(* app may be killed: none of that reaches the server's effects.           *)

\* What a call is told, or will be, was done for the key it asked with.
Said(c) ==
    at[c] = "executed" \/ (at[c] = "answered" /\ answer[c].status = "ok") =>
       answer[c].entity \in Applied(request[c].key)

\* So was what is kept for a key.
Entities == (\A k \in Keys : stored[k] # 0 => stored[k] \in Applied(k)) /\ \A c \in Calls : Said(c)

ServerInv == KeyInvariant /\ Entities

Workers == Loops \cup {Screen}
Jobs == [id : Nat, op : Ops, body : Bodies]
Rows == {r \in [id : Nat, status : {"pending", "blocked"}, body : Bodies \cup {None}, due : BOOLEAN] :
           r.id # 0 => r.body \in Bodies}
Between == {"idle", "next"}
OfScreen == {"online", "offline", "shown"}
Busy == {"create", "check", "submit", "accept", "remove", "refuse", "refused", "retry", "retried"}
Runs == [at : Between \cup OfScreen \cup Busy, todo : SUBSET Jobs, job : Jobs \cup Ops \cup {None},
         made : 0 .. MaxLog, call : Calls \cup {None}]

QueueTyped ==
    /\ row \in [Ops -> Rows] /\ nextId \in Nat \ {0}
    /\ label \in [Ops -> {"none", "draft", "pending", "blocked", "synced"}]
    /\ wanted \in [Ops -> Bodies \cup {None}]
    /\ typing \subseteq Forms /\ \A o \in typing : wanted[o] \in Bodies
    /\ run \in [Workers -> Runs]

\* A worker's call still has its client.
Waits(w) == run[w].call # None => waited[run[w].call]

\* A loop's call asks for the step of the operation it is at, and the loop is past
\* a step only if the server did it.
LoopOK(w) == LET j == run[w].job  c == run[w].call IN
    /\ Waits(w)
    /\ run[w].at \in Busy => j \in Jobs
    /\ run[w].at \in {"check", "submit"} => j.op \in Forms
    /\ run[w].at = "create" /\ c # None => request[c].key = CreateKey(j.op)
    /\ run[w].at = "submit" /\ c # None => request[c].key = SubmitKey(j.op)
    /\ run[w].at = "check" => run[w].made \in DOMAIN log
    /\ run[w].at \in {"accept", "remove"} => Executed(j.op)

ScreenOK ==
    /\ Waits(Screen)
    /\ run[Screen].at # "idle" =>
          run[Screen].job \in Posts \cup Bookings /\ wanted[run[Screen].job] \in Bodies

\* No two workers wait for one call.
Apart == \A v, w \in Workers : run[v].call = run[w].call /\ run[v].call # None => v = w

PhoneInv == QueueTyped /\ (\A w \in Loops : LoopOK(w)) /\ ScreenOK /\ Apart /\ SyncedIsExecuted

QueueInv == ServerInv /\ PhoneInv

-----------------------------------------------------------------------------
(* The server under the queue.                                             *)

\* What was done stays done.
LEMMA DoneStays == Grows => \A k : Applied(k) \subseteq {n \in DOMAIN log' : log'[n].key = k}
BY DEF Grows, Applied

\* An operation done on the server stays done.
LEMMA ExecutedStays == Grows => \A o \in Ops : Executed(o) => Executed(o)'
BY DEF Grows, Applied, Executed

\* The calls that a step leaves alone are answered as truly as before.
LEMMA EntitiesFrame ==
    ASSUME KeyInvariant, Entities, Grows, NEW c \in Calls, Alone(c), Said(c)',
           \A k \in Keys : stored'[k] # 0 => stored'[k] \in Applied(k)'
    PROVE  Entities'
<1> SUFFICES ASSUME NEW d \in Calls PROVE Said(d)'
  BY DEF Entities
<1>1. CASE d = c
  BY <1>1
<1>2. CASE d # c
  <2>1. at'[d] = at[d] /\ answer'[d] = answer[d] /\ request'[d] = request[d]
    BY <1>2 DEF Alone
  <2>2. Said(d)
    BY DEF Entities
  <2> QED BY <2>1, <2>2 DEF Said, Applied, Grows
<1> QED BY <1>1, <1>2

\* A step of c that writes no key and no effect.
LEMMA QuietEntities ==
    ASSUME KeyInvariant, Entities, UNCHANGED <<stored, log>>, NEW c \in Calls, Alone(c), Said(c)'
    PROVE  Entities' /\ Grows
<1>1. Grows
  BY NoGrowth DEF KeyInvariant
<1>2. \A k \in Keys : stored'[k] # 0 => stored'[k] \in Applied(k)'
  BY DEF Entities, Applied
<1> QED BY <1>1, <1>2, EntitiesFrame

\* An answer to c, or the stage before it, with what was done for its key.
LEMMA SaidEntities ==
    ASSUME KeyInvariant, Entities, UNCHANGED <<stored, log>>, NEW c \in Calls, at[c] # "idle",
           NEW a \in Answers, a.status = "ok" => a.entity \in Applied(request[c].key),
           Reply(c, a) \/ Proceed(c, "running", a) \/ (Proceed(c, "executed", a) /\ a.status = "ok")
    PROVE  Entities' /\ Grows
<1>0. CallsTyped
  BY TypeParts DEF KeyInvariant
<1>1. CASE Reply(c, a)
  <2>1. Alone(c) /\ (at'[c] = "idle" \/ (at'[c] = "answered" /\ request'[c] = request[c] /\ answer'[c] = a))
    BY <1>0, <1>1, ReplyEffect
  <2>2. Said(c)'
    BY <2>1 DEF Said, Applied
  <2> QED BY <2>1, <2>2, QuietEntities
<1>2. ASSUME NEW stage \in {"running", "executed"}, Proceed(c, stage, a), stage = "running" \/ a.status = "ok"
      PROVE  Entities' /\ Grows
  <2>1. Alone(c) /\ at'[c] = stage /\ request'[c] = request[c] /\ answer'[c] = a
    BY <1>0, <1>2, ProceedEffect DEF Stages
  <2>2. Said(c)'
    BY <1>2, <2>1 DEF Said, Applied
  <2> QED BY <2>1, <2>2, QuietEntities
<1> QED BY <1>1, <1>2

\* One more effect, answered or kept with the answer.
LEMMA CreatedEntities ==
    ASSUME KeyInvariant, Entities, NEW c \in Calls, at[c] = "running", Create(c),
           \/ UNCHANGED stored
           \/ stored[request[c].key] = 0 /\ stored' = [stored EXCEPT ![request[c].key] = Len(log) + 1]
    PROVE  Entities' /\ Grows
<1> DEFINE k == request[c].key  n == Len(log) + 1
<1>1. /\ TypeOK /\ CallsTyped /\ request[c] \in Requests /\ k \in Keys
      /\ Appended(c) /\ Return(c, n)
  BY TypeParts DEF KeyInvariant, CallOK, Create, Appended, Requests
<1>2. /\ n \in 0 .. MaxLog /\ n # 0 /\ n \in DOMAIN log' /\ log'[n].key = k /\ Ok(n) \in Answers
      /\ \A i \in DOMAIN log : i \in DOMAIN log' /\ log'[i] = log[i]
  <2>1. /\ n \in (1 .. MaxLog) \cap DOMAIN log' /\ log'[n].key = k
        /\ \A i \in DOMAIN log : i \in DOMAIN log' /\ log'[i] = log[i]
    BY <1>1, AppendEffect
  <2>2. n \in 0 .. MaxLog /\ n # 0
    BY <2>1, LogAssumption
  <2> QED BY <2>1, <2>2, AnswerForms
<1>3. Grows
  <2>1. \A j \in Keys : stored[j] # 0 => stored'[j] = stored[j]
    BY <1>1 DEF TypeOK
  <2> QED BY <1>2, <2>1 DEF Grows
<1>4. \A j \in Keys : stored'[j] # 0 => stored'[j] \in Applied(j)'
  <2> SUFFICES ASSUME NEW j \in Keys, stored'[j] # 0 PROVE stored'[j] \in Applied(j)'
    OBVIOUS
  <2>1. stored'[j] = stored[j] \/ (j = k /\ stored'[j] = n)
    BY <1>1 DEF TypeOK
  <2>2. CASE stored'[j] = stored[j]
    <3>1. stored[j] \in Applied(j)
      BY <2>2 DEF Entities
    <3> QED BY <2>2, <3>1, <1>2 DEF Applied
  <2>3. CASE j = k /\ stored'[j] = n
    BY <1>2, <2>3 DEF Applied
  <2> QED BY <2>1, <2>2, <2>3
<1>5. /\ Alone(c)
      /\ at'[c] # "idle" => request'[c] = request[c] /\ answer'[c] = Ok(n)
  <2>1. CASE Intercepted(request[c])
    BY <1>1, <1>2, <2>1, ProceedEffect DEF Return, Stages
  <2>2. CASE ~ Intercepted(request[c])
    BY <1>1, <1>2, <2>2, ReplyEffect DEF Return
  <2> QED BY <2>1, <2>2
<1>6. Said(c)'
  BY <1>2, <1>5 DEF Ok, Said, Applied
<1> QED BY <1>3, <1>4, <1>5, <1>6, EntitiesFrame

\* A handler that finds its effect made already.
LEMMA FoundEntities ==
    ASSUME KeyInvariant, Entities, UNCHANGED <<stored, log>>, NEW c \in Calls, at[c] # "idle",
           NEW n \in Applied(request[c].key), Return(c, n) \/ Reply(c, Ok(n))
    PROVE  Entities' /\ Grows
<1>1. n \in 0 .. MaxLog
  BY LogAssumption DEF Applied, KeyInvariant, TypeOK
<1>2. Ok(n) \in Answers /\ Ok(n).entity = n /\ Ok(n).status = "ok"
  BY <1>1, AnswerForms DEF Ok
<1> QED BY <1>2, SaidEntities DEF Return

\* A refusal, or a failure.
LEMMA RefusedEntities ==
    ASSUME KeyInvariant, Entities, UNCHANGED <<stored, log>>, NEW c \in Calls, at[c] # "idle",
           Reply(c, Refused) \/ Reply(c, Failed)
    PROVE  Entities' /\ Grows
<1>1. Refused.status # "ok" /\ Failed.status # "ok" /\ Refused \in Answers /\ Failed \in Answers
  BY AnswerForms DEF Refused, Failed
<1> QED BY <1>1, SaidEntities

\* Every step of the server answers with what was done for the key asked.
LEMMA ServerAnswers ==
    ASSUME ServerInv, NEW c \in Calls, Serve(c) \/ Crash(c)
    PROVE  ServerInv' /\ Grows
<1>0. KeyInvariant /\ Entities /\ TypeOK /\ CallsTyped
  BY TypeParts DEF ServerInv, KeyInvariant
<1>k. KeyInvariant'
  BY <1>0, KeyStep DEF Next
<1> SUFFICES Entities' /\ Grows
  BY <1>k DEF ServerInv
<1>1. CASE Lookup(c)
  <2>1. at[c] = "sent" /\ request[c] \in Requests /\ request[c].key \in Keys /\ UNCHANGED <<stored, log>>
    BY <1>0, <1>1 DEF KeyInvariant, CallOK, Lookup, Requests
  <2>2. CASE Intercepted(request[c]) /\ stored[request[c].key] # 0
    <3>1. stored[request[c].key] \in Applied(request[c].key) /\ Reply(c, Ok(stored[request[c].key]))
      BY <1>0, <1>1, <2>1, <2>2 DEF Entities, Lookup
    <3> QED BY <1>0, <2>1, <3>1, FoundEntities
  <2>3. CASE ~ (Intercepted(request[c]) /\ stored[request[c].key] # 0)
    <3>1. Proceed(c, "running", NoAnswer) /\ NoAnswer \in Answers /\ NoAnswer.status # "ok"
      BY <1>1, <2>3, AnswerForms DEF Lookup, NoAnswer
    <3> QED BY <1>0, <2>1, <3>1, SaidEntities
  <2> QED BY <2>2, <2>3
<1>2. CASE Refuse(c) \/ Crash(c)
  BY <1>0, <1>2, RefusedEntities DEF Refuse, Crash
<1>3. CASE ExecuteOpen(c)
  BY <1>0, <1>3, CreatedEntities DEF ExecuteOpen
<1>4. CASE ExecuteReservation(c)
  <2>1. at[c] = "running" /\ request[c] \in Requests /\ request[c].key \in Keys
    BY <1>0, <1>4 DEF KeyInvariant, CallOK, ExecuteReservation, Requests
  <2>2. CASE stored[request[c].key] = 0
    BY <1>0, <1>4, <2>2, CreatedEntities DEF ExecuteReservation
  <2>3. CASE stored[request[c].key] # 0
    <3>1. /\ UNCHANGED <<stored, log>> /\ stored[request[c].key] \in Applied(request[c].key)
          /\ Reply(c, Ok(stored[request[c].key])) \/ Reply(c, Refused)
      BY <1>0, <1>4, <2>1, <2>3 DEF Entities, ExecuteReservation
    <3> QED BY <1>0, <2>1, <3>1, FoundEntities, RefusedEntities
  <2> QED BY <2>2, <2>3
<1>5. CASE ExecuteTransfer(c) \/ ExecuteSubmit(c)
  <2>1. at[c] = "running" /\ UNCHANGED stored
    BY <1>5 DEF ExecuteTransfer, ExecuteSubmit
  <2>2. CASE Applied(request[c].key) = {}
    BY <1>0, <1>5, <2>1, <2>2, CreatedEntities DEF ExecuteTransfer, ExecuteSubmit
  <2>3. CASE Applied(request[c].key) # {}
    <3>1. UNCHANGED log /\ (Reply(c, Refused) \/ \E n \in Applied(request[c].key) : Return(c, n))
      BY <1>5, <2>3 DEF ExecuteTransfer, ExecuteSubmit
    <3> QED BY <1>0, <2>1, <3>1, FoundEntities, RefusedEntities
  <2> QED BY <2>2, <2>3
<1>6. CASE Record(c)
  <2> DEFINE k == request[c].key
  <2>1. /\ at[c] = "executed" /\ k \in Keys /\ UNCHANGED log
        /\ answer[c] \in Answers /\ answer[c].entity \in Applied(k)
    BY <1>0, <1>6 DEF KeyInvariant, CallOK, Record, Requests, Entities, Said, CallsTyped
  <2>2. CASE stored[k] # 0
    <3>1. UNCHANGED stored /\ Reply(c, Ok(stored[k])) /\ stored[k] \in Applied(k)
      BY <1>0, <1>6, <2>1, <2>2 DEF Record, Entities
    <3> QED BY <1>0, <2>1, <3>1, FoundEntities
  <2>3. CASE stored[k] = 0
    <3>1. stored' = [stored EXCEPT ![k] = answer[c].entity] /\ Reply(c, answer[c])
      BY <1>6, <2>3 DEF Record
    <3>2. /\ Alone(c)
          /\ at'[c] = "idle" \/ (at'[c] = "answered" /\ request'[c] = request[c] /\ answer'[c] = answer[c])
      BY <1>0, <2>1, <3>1, ReplyEffect
    <3>3. Grows /\ \A j : Applied(j)' = Applied(j)
      BY <1>0, <2>1, <2>3, <3>1 DEF Grows, TypeOK, Applied
    <3>4. \A j \in Keys : stored'[j] # 0 => stored'[j] \in Applied(j)'
      BY <1>0, <2>1, <3>1, <3>3 DEF TypeOK, Entities
    <3>5. Said(c)'
      BY <2>1, <3>2 DEF Said, Applied
    <3> QED BY <1>0, <3>2, <3>3, <3>4, <3>5, EntitiesFrame
  <2> QED BY <2>2, <2>3
<1> QED BY <1>1, <1>2, <1>3, <1>4, <1>5, <1>6 DEF Serve, Execute

\* A client sends what may be sent, hears or gives up: nothing is done by that.
LEMMA ClientKeeps ==
    ASSUME ServerInv, NEW c \in Calls, (\E q \in Requests : Send(c, q)) \/ Hear(c) \/ GiveUp(c)
    PROVE  ServerInv' /\ Grows /\ Alone(c) /\ UNCHANGED <<stored, log>>
<1>0. KeyInvariant /\ Entities /\ TypeOK /\ CallsTyped
  BY TypeParts DEF ServerInv, KeyInvariant
<1>1. KeyInvariant' /\ UNCHANGED <<stored, log>>
  <2>1. KeyInvariant'
    BY <1>0, ClientStep
  <2> QED BY <2>1 DEF Send, Hear, GiveUp
<1>2. CASE \E q \in Requests : Send(c, q)
  <2>1. Alone(c) /\ at'[c] = "sent"
    BY <1>0, <1>2 DEF Send, CallsTyped, Alone
  <2>2. Said(c)'
    BY <2>1 DEF Said
  <2> QED BY <1>0, <1>1, <2>1, <2>2, QuietEntities DEF ServerInv
<1>3. CASE Release(c)
  <2>1. Alone(c) /\ at'[c] = "idle"
    BY <1>0, <1>3, ReleaseEffect
  <2>2. Said(c)'
    BY <2>1 DEF Said
  <2> QED BY <1>0, <1>1, <2>1, <2>2, QuietEntities DEF ServerInv
<1>4. CASE GiveUp(c) /\ at[c] # "answered"
  <2>1. Alone(c) /\ UNCHANGED <<at, request, answer>>
    BY <1>0, <1>4 DEF GiveUp, CallsTyped, Alone
  <2>2. Said(c)'
    BY <1>0, <1>1, <2>1 DEF Entities, Said, Applied
  <2> QED BY <1>0, <1>1, <2>1, <2>2, QuietEntities DEF ServerInv
<1> QED BY <1>2, <1>3, <1>4 DEF Hear, GiveUp

\* A call whose client waits stays its client's while the server works on it.
LEMMA ServedWaits ==
    ASSUME ServerInv, NEW c \in Calls, Serve(c) \/ Crash(c), NEW d \in Calls, waited[d]
    PROVE  waited'[d] /\ request'[d] = request[d]
<1>0. CallsTyped
  BY TypeParts DEF ServerInv, KeyInvariant
<1>1. \A a, stage : (Reply(d, a) /\ waited[d]) \/ Proceed(d, stage, a) => waited'[d] /\ request'[d] = request[d]
  BY DEF Reply, Proceed
<1>2. CASE d = c
  <2>1. (\E a : Reply(c, a)) \/ (\E stage, a : Proceed(c, stage, a))
    BY DEF Serve, Crash, Lookup, Execute, ExecuteOpen, ExecuteReservation, ExecuteTransfer,
           ExecuteSubmit, Refuse, Record, Create, Return
  <2> QED BY <1>1, <1>2, <2>1
<1>3. CASE d # c
  <2>1. Alone(c)
    BY <1>0, AloneForms DEF Serve, Crash, Lookup, Execute, ExecuteOpen, ExecuteReservation,
           ExecuteTransfer, ExecuteSubmit, Refuse, Record, Create
  <2> QED BY <1>3, <2>1 DEF Alone
<1> QED BY <1>2, <1>3

-----------------------------------------------------------------------------
(* The workers.                                                            *)

\* A step that moves neither the worker nor its call.
Unmoved(v) ==
    /\ run'[v] = run[v]
    /\ run[v].call # None => /\ waited'[run[v].call] = waited[run[v].call]
                             /\ request'[run[v].call] = request[run[v].call]

\* What was typed may change, but something is typed.
WantedStays == \A o \in Ops : wanted[o] \in Bodies => wanted'[o] \in Bodies

\* A loop that is not moved is where it may be.
LEMMA LoopFrame ==
    ASSUME QueueTyped, Grows, NEW w \in Loops, LoopOK(w), Unmoved(w)
    PROVE  LoopOK(w)'
<1>1. \A o \in Ops : run[w].at \in {"accept", "remove"} /\ run[w].job.op = o => Executed(o)'
  BY ExecutedStays DEF LoopOK
<1>2. run[w].at = "check" => run[w].made \in DOMAIN log'
  BY DEF LoopOK, Grows
<1>3. run[w].call # None => waited'[run[w].call] /\ request'[run[w].call] = request[run[w].call]
  BY DEF LoopOK, Waits, Unmoved
<1>4. run'[w] = run[w]
  BY DEF Unmoved
<1>5. run[w].at \in {"accept", "remove"} => run[w].job.op \in Ops
  BY DEF LoopOK, Busy, Jobs
<1>6. run'[w].at \in {"accept", "remove"} => Executed(run[w].job.op)'
  BY <1>1, <1>4, <1>5
<1> QED BY <1>2, <1>3, <1>4, <1>6 DEF LoopOK, Waits, CreateKey, SubmitKey

\* A step of one worker, or of none, keeps the invariant if it does where that worker
\* goes, in the tables, and in what the request centre shows.
LEMMA WorkerStep ==
    ASSUME QueueInv, ServerInv', Grows, NEW w \in Workers, QueueTyped', WantedStays,
           \A v \in Workers \ {w} : Unmoved(v),
           w \in Loops => LoopOK(w)',
           w = Screen => ScreenOK',
           run'[w].call # None => run'[w].call = run[w].call \/ ~ waited[run'[w].call],
           \A o \in Ops : label'[o] = "synced" => label[o] = "synced" \/ Executed(o)
    PROVE  QueueInv'
<1>0. PhoneInv /\ QueueTyped
  BY DEF QueueInv, PhoneInv
<1>1. \A v \in Loops : LoopOK(v)'
  <2> SUFFICES ASSUME NEW v \in Loops, v # w PROVE LoopOK(v)'
    OBVIOUS
  <2> QED BY <1>0, LoopFrame DEF PhoneInv, Workers
<1>2. ScreenOK'
  <2>1. CASE w # Screen
    <3>1. Unmoved(Screen)
      BY <2>1 DEF Workers
    <3> QED BY <1>0, <3>1, OpsAssumption DEF PhoneInv, ScreenOK, Waits, Unmoved, WantedStays, Ops
  <2> QED BY <2>1
<1>3. Apart'
  <2>1. \A v \in Workers : run[v].call # None => waited[run[v].call]
    BY <1>0 DEF PhoneInv, LoopOK, ScreenOK, Waits, Workers
  <2>2. \A v \in Workers \ {w} : run'[v].call = run[v].call
    BY DEF Unmoved
  <2> QED BY <1>0, <2>1, <2>2 DEF Apart, PhoneInv
<1>4. SyncedIsExecuted'
  <2> SUFFICES ASSUME NEW o \in Ops, label'[o] = "synced" PROVE Executed(o)'
    BY DEF SyncedIsExecuted
  <2>1. Executed(o)
    BY <1>0 DEF PhoneInv, SyncedIsExecuted
  <2> QED BY <2>1, ExecutedStays
<1> QED BY <1>1, <1>2, <1>3, <1>4 DEF QueueInv, PhoneInv

\* Nothing happens on the server.
LEMMA ServerRests == ServerInv /\ UNCHANGED vars => ServerInv' /\ Grows
<1> SUFFICES ASSUME ServerInv, UNCHANGED vars PROVE ServerInv' /\ Grows
  OBVIOUS
<1>1. UNCHANGED <<stored, log, at, request, waited, answer>>
  BY DEF vars
<1>2. KeyInvariant'
  BY KeyStep DEF ServerInv
<1>3. Entities'
  BY <1>1 DEF ServerInv, Entities, Said, Applied
<1>4. Grows
  BY <1>1 DEF Grows
<1> QED BY <1>2, <1>3, <1>4 DEF ServerInv

\* Where the phone writes its tables, and no worker moves.
LEMMA TableStep ==
    ASSUME QueueInv, UNCHANGED <<vars, run>>, QueueTyped', WantedStays,
           \A o \in Ops : label'[o] = "synced" => label[o] = "synced"
    PROVE  QueueInv'
<1>1. ServerInv' /\ Grows
  BY ServerRests DEF QueueInv
<1>2. UNCHANGED <<request, waited>>
  BY DEF vars
<1>3. Screen \in Workers /\ \A v \in Workers : Unmoved(v)
  BY <1>2 DEF Workers, Unmoved
<1>4. ScreenOK /\ (run[Screen].at # "idle" => run[Screen].job \in Ops)
  BY DEF QueueInv, PhoneInv, ScreenOK, Ops
<1>5. ScreenOK'
  BY <1>2, <1>4 DEF ScreenOK, Waits, WantedStays
<1>6. Screen \notin Loops
  BY OpsAssumption DEF Screen
<1> QED BY <1>1, <1>3, <1>4, <1>5, <1>6, WorkerStep DEF QueueInv, PhoneInv, ScreenOK, Waits

\* Where one worker moves and the server rests.
LEMMA LocalStep ==
    ASSUME QueueInv, UNCHANGED <<vars, wanted>>, NEW w \in Workers, QueueTyped',
           \A v \in Workers \ {w} : run'[v] = run[v], run'[w].call \in {None, run[w].call},
           w \in Loops => LoopOK(w)',
           w = Screen => ScreenOK',
           \A o \in Ops : label'[o] = "synced" => label[o] = "synced" \/ Executed(o)
    PROVE  QueueInv'
<1>1. ServerInv' /\ Grows
  BY ServerRests DEF QueueInv
<1>2. \A v \in Workers \ {w} : Unmoved(v)
  BY DEF Unmoved, vars
<1> QED BY <1>1, <1>2, WorkerStep DEF WantedStays

\* A worker's call reaches the server, or its client leaves it: the others' do not
\* notice.
LEMMA CallStep ==
    ASSUME QueueInv, NEW w \in Workers, NEW c \in Calls,
           (\E q \in Requests : Send(c, q)) \/ (c = run[w].call /\ c # None /\ (Hear(c) \/ GiveUp(c))),
           \A v \in Workers \ {w} : run'[v] = run[v]
    PROVE  ServerInv' /\ Grows /\ UNCHANGED <<stored, log>> /\ \A v \in Workers \ {w} : Unmoved(v)
<1>1. ServerInv' /\ Grows /\ Alone(c) /\ UNCHANGED <<stored, log>>
  BY ClientKeeps DEF QueueInv
<1>2. \A v \in Workers : run[v].call # None => run[v].call \in Calls /\ waited[run[v].call]
  BY DEF QueueInv, PhoneInv, QueueTyped, LoopOK, ScreenOK, Waits, Workers, Runs
<1>3. \A v \in Workers \ {w} : run[v].call # None => run[v].call # c
  <2>1. CASE \E q \in Requests : Send(c, q)
    <3>1. ~ waited[c]
      BY <2>1 DEF QueueInv, ServerInv, KeyInvariant, TypeOK, Send
    <3> QED BY <1>2, <3>1
  <2>2. CASE c = run[w].call /\ c # None
    BY <2>2 DEF QueueInv, PhoneInv, Apart
  <2> QED BY <2>1, <2>2
<1> QED BY <1>1, <1>2, <1>3 DEF Alone, Unmoved

-----------------------------------------------------------------------------
(* Where a worker goes.                                                    *)

\* A worker goes to another stage, with a call or without.
Moved(w, stage, c, n) == run' = [run EXCEPT ![w].at = stage, ![w].call = c, ![w].made = n]

\* Nobody else moves, and what the worker is at is all that changes of it.
LEMMA RunMoves ==
    ASSUME QueueTyped, NEW w \in Workers, NEW stage \in Between \cup OfScreen \cup Busy,
           NEW c \in Calls \cup {None}, NEW n \in 0 .. MaxLog,
           Moved(w, stage, c, n)
    PROVE  /\ run' \in [Workers -> Runs] /\ \A v \in Workers \ {w} : run'[v] = run[v]
           /\ run'[w].at = stage /\ run'[w].call = c /\ run'[w].job = run[w].job /\ run'[w].made = n
<1> DEFINE AllStages == Between \cup OfScreen \cup Busy
           JobsOf == Jobs \cup Ops \cup {None}
           CallsOf == Calls \cup {None}
           old == run[w]
           new == [old EXCEPT !.at = stage, !.call = c, !.made = n]
<1>1. run \in [Workers -> Runs]
  BY DEF QueueTyped
<1>2. /\ old \in [at : AllStages, todo : SUBSET Jobs, job : JobsOf, made : 0 .. MaxLog, call : CallsOf]
      /\ stage \in AllStages /\ c \in CallsOf
  BY <1>1 DEF Runs
<1>3. run' = [run EXCEPT ![w] = new]
  BY DEF Moved
<1> HIDE DEF AllStages, JobsOf, CallsOf, old
<1>4. /\ new \in [at : AllStages, todo : SUBSET Jobs, job : JobsOf, made : 0 .. MaxLog, call : CallsOf]
      /\ new.at = stage /\ new.call = c /\ new.job = old.job /\ new.made = n
  BY <1>2
<1>5. new \in Runs
  BY <1>4 DEF Runs, AllStages, JobsOf, CallsOf
<1> HIDE DEF new
<1>6. /\ run' \in [Workers -> Runs] /\ \A v \in Workers \ {w} : run'[v] = run[v]
      /\ run'[w] = new
  BY <1>1, <1>3, <1>5
<1> QED
  BY <1>4, <1>6 DEF old

\* The worker goes on without a call.
LEMMA StepMoves ==
    ASSUME QueueTyped, NEW w \in Workers, NEW stage \in Between \cup OfScreen \cup Busy, Step(w, stage)
    PROVE  /\ run' \in [Workers -> Runs] /\ \A v \in Workers \ {w} : run'[v] = run[v]
           /\ run'[w].at = stage /\ run'[w].call = None /\ run'[w].job = run[w].job
<1>1. 0 \in 0 .. MaxLog
  BY LogAssumption
<1>2. Moved(w, stage, None, 0)
  BY DEF Step, Moved
<1> QED
  BY <1>1, <1>2, RunMoves

\* The worker waits for another call.
LEMMA PostMoves ==
    ASSUME QueueTyped, NEW w \in Workers, NEW stage \in Between \cup OfScreen \cup Busy, NEW c \in Calls,
           run' = [run EXCEPT ![w].at = stage, ![w].call = c, ![w].made = 0]
    PROVE  /\ run' \in [Workers -> Runs] /\ \A v \in Workers \ {w} : run'[v] = run[v]
           /\ run'[w].at = stage /\ run'[w].call = c /\ run'[w].job = run[w].job
<1>1. 0 \in 0 .. MaxLog
  BY LogAssumption
<1>2. Moved(w, stage, c, 0)
  BY DEF Moved
<1> QED
  BY <1>1, <1>2, RunMoves

\* The screen waits for the call it sent.
LEMMA ScreenMoves ==
    ASSUME NEW j \in Ops, NEW c \in Calls
    PROVE  /\ [Idle EXCEPT !.at = "online", !.job = j, !.call = c] \in Runs
           /\ [Idle EXCEPT !.at = "online", !.job = j, !.call = c].job = j
           /\ [Idle EXCEPT !.at = "online", !.job = j, !.call = c].call = c
<1>1. Idle \in Runs /\ "online" \in OfScreen
  BY LogAssumption DEF Idle, Runs, Between, OfScreen
<1> QED BY <1>1 DEF Runs

-----------------------------------------------------------------------------
(* The loops.                                                              *)

\* A loop is a worker, and not the screen.
LEMMA LoopIs ==
    ASSUME QueueInv, NEW w \in Loops
    PROVE  w \in Workers /\ w # Screen /\ QueueTyped /\ LoopOK(w) /\ run[w] \in Runs
<1>1. w # Screen
  BY OpsAssumption DEF Screen
<1> QED BY <1>1 DEF QueueInv, PhoneInv, QueueTyped, Workers

\* A loop starts with the rows that are due, and ends when it has none left.
LEMMA AroundKeepsQueue ==
    ASSUME QueueInv, NEW w \in Loops, Begin(w) \/ Done(w)
    PROVE  QueueInv'
<1>0. w \in Workers /\ w # Screen /\ QueueTyped /\ LoopOK(w) /\ run[w] \in Runs
  BY LoopIs
<1>1. UNCHANGED <<vars, row, nextId, label, wanted, typing>>
  BY DEF Begin, Done
<1>2. CASE Begin(w)
  <2> DEFINE read == {[id |-> row[o].id, op |-> o, body |-> row[o].body] :
                         o \in {p \in Ops : Queued(p) /\ row[p].status = "pending" /\ row[p].due}}
  <2>1. read \subseteq Jobs
    BY <1>0 DEF QueueTyped, Rows, Jobs, Queued
  <2>2. run' = [run EXCEPT ![w].at = "next", ![w].todo = read]
    BY <1>2 DEF Begin
  <2> HIDE DEF read
  <2>3. /\ run' \in [Workers -> Runs] /\ \A v \in Workers \ {w} : run'[v] = run[v]
        /\ run'[w].at = "next" /\ run'[w].call = run[w].call
    BY <1>0, <2>1, <2>2 DEF QueueTyped, Runs, Between
  <2>4. QueueTyped'
    BY <1>0, <1>1, <2>3 DEF QueueTyped
  <2>5. LoopOK(w)'
    BY <1>0, <1>1, <2>3 DEF LoopOK, Waits, Busy, vars
  <2> QED BY <1>0, <1>1, <2>3, <2>4, <2>5, LocalStep
<1>3. CASE Done(w)
  <2>1. Idle \in Runs /\ Idle.at = "idle" /\ Idle.call = None
    BY LogAssumption DEF Idle, Runs, Between
  <2>2. run' = [run EXCEPT ![w] = Idle]
    BY <1>3 DEF Done
  <2>3. run' \in [Workers -> Runs] /\ run'[w] = Idle /\ \A v \in Workers \ {w} : run'[v] = run[v]
    BY <1>0, <2>1, <2>2 DEF QueueTyped
  <2>4. QueueTyped'
    BY <1>0, <1>1, <2>3 DEF QueueTyped
  <2>5. LoopOK(w)'
    BY <2>1, <2>3 DEF LoopOK, Waits, Busy
  <2> QED BY <1>0, <1>1, <2>1, <2>3, <2>4, <2>5, LocalStep
<1> QED BY <1>2, <1>3

\* A loop sends the next operation of those it read.
LEMMA TakeKeepsQueue ==
    ASSUME QueueInv, NEW w \in Loops, Take(w)
    PROVE  QueueInv'
<1>0. w \in Workers /\ w # Screen /\ QueueTyped /\ LoopOK(w) /\ run[w] \in Runs
  BY LoopIs
<1> PICK j \in run[w].todo, c \in Calls :
      /\ Send(c, [key |-> CreateKey(j.op), body |-> j.body, keyed |-> TRUE])
      /\ run' = [run EXCEPT ![w].at = "create", ![w].job = j, ![w].call = c, ![w].todo = run[w].todo \ {j}]
  BY DEF Take
<1>1. UNCHANGED <<row, nextId, label, wanted, typing>>
  BY DEF Take
<1>2. j \in Jobs
  BY <1>0 DEF Runs
<1> DEFINE q == [key |-> CreateKey(j.op), body |-> j.body, keyed |-> TRUE]
<1>3. q \in Requests
  BY <1>2, OpsAssumption DEF Requests, Jobs, CreateKey
<1>4. /\ run' \in [Workers -> Runs] /\ \A v \in Workers \ {w} : run'[v] = run[v]
      /\ run'[w].at = "create" /\ run'[w].job = j /\ run'[w].call = c
  BY <1>0, <1>2 DEF QueueTyped, Runs, Busy
<1>5. waited'[c] /\ request'[c].key = CreateKey(j.op) /\ ~ waited[c]
  BY DEF QueueInv, ServerInv, KeyInvariant, TypeOK, Send
<1>6. ServerInv' /\ Grows /\ \A v \in Workers \ {w} : Unmoved(v)
  BY <1>0, <1>3, <1>4, CallStep
<1>7. QueueTyped'
  BY <1>0, <1>1, <1>4 DEF QueueTyped
<1>8. LoopOK(w)'
  BY <1>2, <1>4, <1>5 DEF LoopOK, Waits, CreateKey
<1> QED BY <1>0, <1>1, <1>4, <1>5, <1>6, <1>7, <1>8, WorkerStep DEF WantedStays

\* What a loop hears is what was done for the key it asked with.
LEMMA Heard ==
    ASSUME QueueInv, NEW w \in Workers, run[w].call # None, at[run[w].call] = "answered"
    PROVE  /\ run[w].call \in Calls /\ answer[run[w].call].entity \in 0 .. MaxLog
           /\ answer[run[w].call].status = "ok" =>
                 answer[run[w].call].entity \in Applied(request[run[w].call].key)
<1>1. run[w].call \in Calls
  BY DEF QueueInv, PhoneInv, QueueTyped, Runs
<1> QED BY <1>1 DEF QueueInv, ServerInv, KeyInvariant, TypeOK, Entities, Said

\* An answer moves a loop past a step only if the server did it.
LEMMA AnswerKeepsQueue ==
    ASSUME QueueInv, NEW w \in Loops, Created(w) \/ Submitted(w)
    PROVE  QueueInv'
<1> DEFINE c == run[w].call
           a == answer[c]
           j == run[w].job
<1>0. /\ w \in Workers /\ w # Screen /\ QueueTyped /\ LoopOK(w) /\ run[w] \in Runs
      /\ run[w].at \in {"create", "submit"} /\ j \in Jobs
  <2>1. run[w].at \in {"create", "submit"}
    BY DEF Created, Submitted
  <2> QED BY <2>1, LoopIs DEF LoopOK, Busy
<1>1. /\ c # None /\ Hear(c)
      /\ \E stage \in Busy :
            /\ run' = [run EXCEPT ![w].at = stage, ![w].call = None, ![w].made = a.entity]
            /\ stage = "check" => run[w].at = "create" /\ j.op \in Forms /\ a.status = "ok"
            /\ stage \in {"check", "accept", "retry", "refuse"}
            /\ stage = "accept" => a.status = "ok" /\ (run[w].at = "create" <=> j.op \notin Forms)
  <2>1. CASE Created(w)
    BY <2>1 DEF Created, Answered, Outcome, AfterCreate, Busy
  <2>2. CASE Submitted(w)
    BY <1>0, <2>2 DEF Submitted, Answered, Outcome, Busy, LoopOK
  <2> QED BY <2>1, <2>2
<1>p. PICK stage \in Busy :
            /\ run' = [run EXCEPT ![w].at = stage, ![w].call = None, ![w].made = a.entity]
            /\ stage = "check" => run[w].at = "create" /\ j.op \in Forms /\ a.status = "ok"
            /\ stage \in {"check", "accept", "retry", "refuse"}
            /\ stage = "accept" => a.status = "ok" /\ (run[w].at = "create" <=> j.op \notin Forms)
  BY <1>1
<1>2. UNCHANGED <<row, nextId, label, wanted, typing>>
  BY DEF Created, Submitted
<1>3. /\ c \in Calls /\ a.entity \in 0 .. MaxLog
      /\ a.status = "ok" => a.entity \in Applied(request[c].key)
  BY <1>0, <1>1, Heard DEF Hear
<1>4. /\ run' \in [Workers -> Runs] /\ \A v \in Workers \ {w} : run'[v] = run[v]
      /\ run'[w].at = stage /\ run'[w].call = None /\ run'[w].job = j /\ run'[w].made = a.entity
  <2>1. stage \in Between \cup OfScreen \cup Busy /\ w \in Workers /\ QueueTyped
    BY <1>0
  <2>2. PICK n \in 0 .. MaxLog :
          n = a.entity /\ run' = [run EXCEPT ![w].at = stage, ![w].call = None, ![w].made = n]
    BY <1>p, <1>3
  <2>3. /\ run' \in [Workers -> Runs] /\ \A v \in Workers \ {w} : run'[v] = run[v]
        /\ run'[w].at = stage /\ run'[w].call = None /\ run'[w].job = run[w].job /\ run'[w].made = n
    <3>1. Moved(w, stage, None, n) /\ n \in 0 .. MaxLog
      BY <2>2 DEF Moved
    <3> QED
      BY <2>1, <3>1, RunMoves
  <2> QED BY <2>2, <2>3
<1>5. ServerInv' /\ Grows /\ UNCHANGED <<stored, log>> /\ \A v \in Workers \ {w} : Unmoved(v)
  BY <1>0, <1>1, <1>3, <1>4, CallStep
<1>6. QueueTyped'
  BY <1>0, <1>2, <1>4 DEF QueueTyped
<1>7. stage = "check" => a.entity \in DOMAIN log
  BY <1>p, <1>3 DEF Applied
<1>8. stage = "accept" => Executed(j.op)
  BY <1>0, <1>p, <1>1, <1>3 DEF LoopOK, Executed, LastKey
<1>9. LoopOK(w)'
  BY <1>0, <1>p, <1>4, <1>5, <1>7, <1>8 DEF LoopOK, Waits, Executed, Applied
<1> QED BY <1>0, <1>2, <1>4, <1>5, <1>6, <1>9, WorkerStep DEF WantedStays

\* A call that nothing answers is tried again.
LEMMA LostKeepsQueue ==
    ASSUME QueueInv, NEW w \in Loops, Lost(w)
    PROVE  QueueInv'
<1>0. /\ w \in Workers /\ w # Screen /\ QueueTyped /\ LoopOK(w) /\ run[w] \in Runs
      /\ run[w].job \in Jobs
  BY LoopIs DEF LoopOK, Busy, Lost
<1>1. /\ run[w].call # None /\ run[w].call \in Calls /\ GiveUp(run[w].call) /\ Step(w, "retry")
      /\ UNCHANGED <<row, nextId, label, wanted, typing>>
  BY <1>0 DEF Lost, TimesOut, Runs
<1>2. /\ run' \in [Workers -> Runs] /\ \A v \in Workers \ {w} : run'[v] = run[v]
      /\ run'[w].at = "retry" /\ run'[w].call = None /\ run'[w].job = run[w].job
  BY <1>0, <1>1, StepMoves DEF Busy
<1>3. ServerInv' /\ Grows /\ \A v \in Workers \ {w} : Unmoved(v)
  BY <1>0, <1>1, <1>2, CallStep
<1>4. QueueTyped'
  BY <1>0, <1>1, <1>2 DEF QueueTyped
<1>5. LoopOK(w)'
  BY <1>0, <1>2 DEF LoopOK, Waits
<1> QED BY <1>0, <1>1, <1>2, <1>3, <1>4, <1>5, WorkerStep DEF WantedStays

\* A transfer whose draft was made is submitted, or its dry run says no.
LEMMA CheckKeepsQueue ==
    ASSUME QueueInv, NEW w \in Loops, Check(w)
    PROVE  QueueInv'
<1>0. /\ w \in Workers /\ w # Screen /\ QueueTyped /\ LoopOK(w) /\ run[w] \in Runs
      /\ run[w].at = "check" /\ run[w].job \in Jobs /\ run[w].job.op \in Forms
      /\ run[w].made \in DOMAIN log
  BY LoopIs DEF LoopOK, Busy, Check
<1>1. UNCHANGED <<row, nextId, label, wanted, typing>>
  BY DEF Check
<1>2. ASSUME NEW stage \in {"refuse", "retry"}, Step(w, stage), UNCHANGED vars PROVE QueueInv'
  <2>1. /\ run' \in [Workers -> Runs] /\ \A v \in Workers \ {w} : run'[v] = run[v]
        /\ run'[w].at = stage /\ run'[w].call = None /\ run'[w].job = run[w].job
    BY <1>0, <1>2, StepMoves DEF Busy
  <2>2. QueueTyped'
    BY <1>0, <1>1, <2>1 DEF QueueTyped
  <2>3. LoopOK(w)'
    BY <1>0, <2>1 DEF LoopOK, Waits
  <2> QED BY <1>0, <1>1, <1>2, <2>1, <2>2, <2>3, LocalStep
<1>3. CASE Post(w, SubmitKey(run[w].job.op), log[run[w].made].body, TRUE, "submit")
  <2> DEFINE q == [key |-> SubmitKey(run[w].job.op), body |-> log[run[w].made].body, keyed |-> TRUE]
  <2> PICK c \in Calls : Send(c, q) /\ run' = [run EXCEPT ![w].at = "submit", ![w].call = c, ![w].made = 0]
    BY <1>3 DEF Post
  <2>1. log[run[w].made] \in [key : Keys, body : Bodies]
    <3>1. log \in Seq([key : Keys, body : Bodies])
      BY DEF QueueInv, ServerInv, KeyInvariant, TypeOK
    <3> QED BY <1>0, <3>1, SequenceElement
  <2>2. q \in Requests
    BY <1>0, <2>1, OpsAssumption DEF Requests, Jobs, SubmitKey
  <2>3. /\ run' \in [Workers -> Runs] /\ \A v \in Workers \ {w} : run'[v] = run[v]
        /\ run'[w].at = "submit" /\ run'[w].call = c /\ run'[w].job = run[w].job
    BY <1>0, PostMoves DEF Busy
  <2>4. waited'[c] /\ request'[c].key = SubmitKey(run[w].job.op) /\ ~ waited[c]
    BY DEF QueueInv, ServerInv, KeyInvariant, TypeOK, Send
  <2>5. ServerInv' /\ Grows /\ \A v \in Workers \ {w} : Unmoved(v)
    BY <1>0, <2>2, <2>3, CallStep
  <2>6. QueueTyped'
    BY <1>0, <1>1, <2>3 DEF QueueTyped
  <2>7. LoopOK(w)'
    BY <1>0, <2>3, <2>4 DEF LoopOK, Waits, SubmitKey
  <2> QED BY <1>0, <1>1, <2>3, <2>4, <2>5, <2>6, <2>7, WorkerStep DEF WantedStays
<1> QED BY <1>2, <1>3 DEF Check

\* A loop settles its row by the id it read, and the request centre after it.
LEMMA SettleKeepsQueue ==
    ASSUME QueueInv, NEW w \in Loops, Settle(w)
    PROVE  QueueInv'
<1> DEFINE o == run[w].job.op
<1>0. /\ w \in Workers /\ w # Screen /\ QueueTyped /\ LoopOK(w) /\ run[w] \in Runs
      /\ run[w].job \in Jobs /\ o \in Ops
  <2>1. run[w].at \in Busy
    BY DEF Settle, MarkSynced, Remove, Block, MarkBlocked, Backoff, MarkPending, Busy
  <2> QED BY <2>1, LoopIs DEF LoopOK, Jobs
<1>1. UNCHANGED <<vars, nextId, wanted, typing>>
  BY DEF Settle
<1>2. \E stage \in {"remove", "next", "refused", "retried"} :
         Step(w, stage) /\ (stage = "remove" => run[w].at = "accept")
  BY DEF Settle, MarkSynced, Remove, Block, MarkBlocked, Backoff, MarkPending
<1> PICK stage \in {"remove", "next", "refused", "retried"} :
         Step(w, stage) /\ (stage = "remove" => run[w].at = "accept")
  BY <1>2
<1>3. row' \in [Ops -> Rows]
  <2>1. row[o] \in Rows /\ NoRow \in Rows
    BY <1>0 DEF QueueTyped, NoRow, Rows
  <2>2. \A r \in Rows : Write(w, r) => row' \in [Ops -> Rows]
    BY <1>0 DEF Write, QueueTyped
  <2>3. [row[o] EXCEPT !.status = "blocked", !.due = TRUE] \in Rows /\ [row[o] EXCEPT !.due = FALSE] \in Rows
    BY <2>1 DEF Rows
  <2> QED BY <1>0, <2>1, <2>2, <2>3 DEF Settle, MarkSynced, Remove, Block, MarkBlocked, Backoff, MarkPending, QueueTyped
<1>4. /\ label' \in [Ops -> {"none", "draft", "pending", "blocked", "synced"}]
      /\ \A p \in Ops : label'[p] = "synced" => label[p] = "synced" \/ Executed(p)
  <2>1. ASSUME NEW l \in {"synced", "blocked", "pending"}, Mark(w, l), l = "synced" => Executed(o)
        PROVE  /\ label' \in [Ops -> {"none", "draft", "pending", "blocked", "synced"}]
               /\ \A p \in Ops : label'[p] = "synced" => label[p] = "synced" \/ Executed(p)
    BY <1>0, <2>1 DEF Mark, QueueTyped
  <2>2. CASE MarkSynced(w)
    BY <1>0, <2>1, <2>2 DEF MarkSynced, LoopOK
  <2>3. CASE MarkBlocked(w) \/ MarkPending(w)
    BY <2>1, <2>3 DEF MarkBlocked, MarkPending
  <2>4. CASE UNCHANGED label
    BY <1>0, <2>4 DEF QueueTyped
  <2> QED BY <2>2, <2>3, <2>4 DEF Settle, Remove, Block, Backoff
<1>5. /\ run' \in [Workers -> Runs] /\ \A v \in Workers \ {w} : run'[v] = run[v]
      /\ run'[w].at = stage /\ run'[w].call = None /\ run'[w].job = run[w].job
  BY <1>0, StepMoves DEF Busy, Between
<1>6. QueueTyped'
  BY <1>0, <1>1, <1>3, <1>4, <1>5 DEF QueueTyped
<1>7. LoopOK(w)'
  <2>1. stage = "remove" => Executed(o)
    BY <1>0 DEF LoopOK
  <2> QED BY <1>0, <1>1, <1>5, <2>1 DEF LoopOK, Waits, Busy, Executed, Applied, vars
<1> QED BY <1>0, <1>1, <1>4, <1>5, <1>6, <1>7, LocalStep

-----------------------------------------------------------------------------
(* The screens.                                                            *)

\* A row becomes due, and the user retries, discards or edits: the tables only.
LEMMA TablesKeepQueue ==
    ASSUME QueueInv,
           \/ \E o \in Ops : Due(o)
           \/ RetryBlocked \/ DiscardBlocked
           \/ \E o \in Forms, b \in Bodies : SaveDraft(o, b) \/ RecordPending(o, b)
           \/ \E o \in Forms : DeleteDraft(o) \/ Resubmit(o)
    PROVE  QueueInv'
<1>0. QueueTyped /\ Forms \subseteq Ops
  BY DEF QueueInv, PhoneInv, Ops
<1>1. NoRow \in Rows /\ \A o \in Ops : row[o] \in Rows
  BY <1>0 DEF QueueTyped, NoRow, Rows
<1>2. CASE \E o \in Ops : Due(o)
  <2>1. UNCHANGED <<vars, nextId, label, wanted, typing, run>>
    BY <1>2 DEF Due
  <2>2. row' \in [Ops -> Rows]
    <3> PICK o \in Ops : row' = [row EXCEPT ![o].due = TRUE]
      BY <1>2 DEF Due
    <3>1. [row[o] EXCEPT !.due = TRUE] \in Rows
      BY <1>1 DEF Rows
    <3> QED BY <1>0, <3>1 DEF QueueTyped
  <2> QED BY <1>0, <2>1, <2>2, TableStep DEF QueueTyped, WantedStays
<1>3. CASE RetryBlocked \/ DiscardBlocked
  <2>1. UNCHANGED <<vars, nextId, label, wanted, typing, run>>
    BY <1>3 DEF RetryBlocked, DiscardBlocked
  <2>2. row' \in [Ops -> Rows]
    <3>1. \A o \in Ops : [row[o] EXCEPT !.status = "pending"] \in Rows
      BY <1>1 DEF Rows
    <3> QED BY <1>1, <1>3, <3>1 DEF RetryBlocked, DiscardBlocked
  <2> QED BY <1>0, <2>1, <2>2, TableStep DEF QueueTyped, WantedStays
<1>4. CASE \E o \in Forms, b \in Bodies : SaveDraft(o, b) \/ RecordPending(o, b)
  <2> PICK o \in Forms, b \in Bodies : SaveDraft(o, b) \/ RecordPending(o, b)
    BY <1>4
  <2>1. /\ UNCHANGED <<vars, row, nextId, run>> /\ wanted' = [wanted EXCEPT ![o] = b]
        /\ \E l \in {"draft", "pending"} : label' = [label EXCEPT ![o] = l]
        /\ typing' \subseteq typing \cup {o}
    BY DEF SaveDraft, RecordPending
  <2>2. QueueTyped' /\ WantedStays /\ \A p \in Ops : label'[p] = "synced" => label[p] = "synced"
    BY <1>0, <2>1 DEF QueueTyped, WantedStays
  <2> QED BY <2>1, <2>2, TableStep
<1>5. CASE \E o \in Forms : DeleteDraft(o)
  <2> PICK o \in Forms : DeleteDraft(o)
    BY <1>5
  <2>1. /\ UNCHANGED <<vars, nextId, wanted, typing, run>> /\ label' = [label EXCEPT ![o] = "none"]
        /\ row' = [row EXCEPT ![o] = NoRow] \/ row' = row
    BY DEF DeleteDraft
  <2>2. QueueTyped' /\ WantedStays /\ \A p \in Ops : label'[p] = "synced" => label[p] = "synced"
    BY <1>0, <1>1, <2>1 DEF QueueTyped, WantedStays
  <2> QED BY <2>1, <2>2, TableStep
<1>6. CASE \E o \in Forms : Resubmit(o)
  <2> PICK o \in Forms : Resubmit(o)
    BY <1>6
  <2> DEFINE r == NewRow(wanted[o])
  <2>1. /\ UNCHANGED <<vars, label, wanted, run>> /\ typing' = typing \ {o} /\ wanted[o] \in Bodies
        /\ \/ row' = [row EXCEPT ![o] = [r EXCEPT !.id = row[o].id]] /\ UNCHANGED nextId
           \/ row' = [row EXCEPT ![o] = r] /\ nextId' = nextId + 1
    BY <1>0 DEF Resubmit, QueueTyped
  <2>2. r \in Rows /\ [r EXCEPT !.id = row[o].id] \in Rows
    BY <1>0, <1>1, <2>1 DEF NewRow, Rows, QueueTyped
  <2> HIDE DEF r
  <2>3. QueueTyped' /\ WantedStays
    BY <1>0, <2>1, <2>2 DEF QueueTyped, WantedStays
  <2> QED BY <2>1, <2>3, TableStep
<1> QED BY <1>2, <1>3, <1>4, <1>5, <1>6

\* What is tried at once, and what comes of it.
LEMMA ScreenKeepsQueue ==
    ASSUME QueueInv,
           \/ \E o \in Posts \cup Bookings, b \in Bodies : TryOnline(o, b)
           \/ OnlineAnswered \/ OnlineLost \/ Enqueue
    PROVE  QueueInv'
<1> DEFINE c == run[Screen].call
           o == run[Screen].job
<1>0. /\ Screen \in Workers /\ Screen \notin Loops /\ QueueTyped /\ run[Screen] \in Runs /\ ScreenOK
      /\ Posts \cup Bookings \subseteq Ops
  <2>1. Screen \notin Loops
    BY OpsAssumption DEF Screen
  <2> QED BY <2>1 DEF QueueInv, PhoneInv, QueueTyped, Workers, Ops
<1>1. CASE \E p \in Posts \cup Bookings, b \in Bodies : TryOnline(p, b)
  <2> PICK p \in Posts \cup Bookings, b \in Bodies : TryOnline(p, b)
    BY <1>1
  <2> DEFINE q == [key |-> CreateKey(p), body |-> b, keyed |-> p \in Bookings]
  <2>p. PICK d \in Calls :
        /\ Send(d, q)
        /\ run' = [run EXCEPT ![Screen] = [Idle EXCEPT !.at = "online", !.job = p, !.call = d]]
    BY DEF TryOnline
  <2>1. UNCHANGED <<row, nextId, label, typing>> /\ wanted' = [wanted EXCEPT ![p] = b]
    BY DEF TryOnline
  <2>2. q \in Requests
    <3>1. CreateKey(p) \in Keys /\ Kind[CreateKey(p)] = IF p \in Posts THEN "interceptor" ELSE "reservation"
      BY OpsAssumption DEF Ops, CreateKey
    <3>2. p \in Posts => p \notin Bookings
      BY OpsAssumption
    <3>3. CASE p \in Bookings
      <4>1. q = [key |-> CreateKey(p), body |-> b, keyed |-> TRUE]
        BY <3>3
      <4> QED BY <3>1, <4>1 DEF Requests
    <3>4. CASE p \notin Bookings
      <4>0. (p \in Bookings) = FALSE
        BY <3>4, SMT
      <4>1. q = [key |-> CreateKey(p), body |-> b, keyed |-> FALSE]
        BY <4>0
      <4> QED BY <3>1, <3>4, <4>1 DEF Requests
    <3> QED BY <3>3, <3>4
  <2>3. /\ run' \in [Workers -> Runs] /\ \A v \in Workers \ {Screen} : run'[v] = run[v]
        /\ run'[Screen].job = p /\ run'[Screen].call = d
    <3> DEFINE r == [Idle EXCEPT !.at = "online", !.job = p, !.call = d]
    <3>3. r \in Runs /\ r.job = p /\ r.call = d
      BY <1>0, ScreenMoves
    <3> HIDE DEF r
    <3>2. run' = [run EXCEPT ![Screen] = r]
      BY <2>p DEF r
    <3> QED BY <1>0, <3>2, <3>3 DEF QueueTyped
  <2>4. waited'[d] /\ ~ waited[d]
    BY <2>p DEF QueueInv, ServerInv, KeyInvariant, TypeOK, Send
  <2>5. ServerInv' /\ Grows /\ \A v \in Workers \ {Screen} : Unmoved(v)
    BY <1>0, <2>p, <2>2, <2>3, CallStep
  <2>6. QueueTyped' /\ WantedStays /\ wanted'[p] \in Bodies
    BY <1>0, <2>1, <2>3 DEF QueueTyped, WantedStays
  <2>7. ScreenOK'
    BY <2>3, <2>4, <2>6 DEF ScreenOK, Waits
  <2> QED BY <1>0, <2>1, <2>3, <2>4, <2>5, <2>6, <2>7, WorkerStep
<1>2. CASE OnlineAnswered \/ OnlineLost
  <2>1. UNCHANGED <<row, nextId, label, wanted, typing>> /\ run[Screen].at = "online"
    BY <1>2 DEF OnlineAnswered, OnlineLost
  <2>2. /\ c # None /\ c \in Calls /\ (Hear(c) \/ GiveUp(c))
        /\ \E n \in 0 .. MaxLog, stage \in OfScreen :
              run' = [run EXCEPT ![Screen].at = stage, ![Screen].call = None, ![Screen].made = n]
    <3>1. CASE OnlineAnswered
      <4>1. /\ c # None /\ Hear(c)
            /\ \E stage \in OfScreen :
                  run' = [run EXCEPT ![Screen].at = stage, ![Screen].call = None,
                                     ![Screen].made = answer[c].entity]
        BY <3>1 DEF OnlineAnswered, Answered, OfScreen
      <4>2. c \in Calls /\ answer[c].entity \in 0 .. MaxLog
        BY <1>0, <4>1, Heard DEF Hear
      <4> QED BY <4>1, <4>2
    <3>2. CASE OnlineLost
      <4>1. c # None /\ GiveUp(c) /\ Step(Screen, "offline")
        BY <3>2 DEF OnlineLost, TimesOut
      <4>2. c \in Calls /\ 0 \in 0 .. MaxLog
        BY <1>0, <4>1, LogAssumption DEF Runs
      <4> QED BY <4>1, <4>2 DEF Step, OfScreen
    <3> QED BY <1>2, <3>1, <3>2
  <2> PICK n \in 0 .. MaxLog, stage \in OfScreen :
        run' = [run EXCEPT ![Screen].at = stage, ![Screen].call = None, ![Screen].made = n]
    BY <2>2
  <2>3. /\ run' \in [Workers -> Runs] /\ \A v \in Workers \ {Screen} : run'[v] = run[v]
        /\ run'[Screen].job = o /\ run'[Screen].call = None
    BY <1>0 DEF QueueTyped, Runs
  <2>4. ServerInv' /\ Grows /\ \A v \in Workers \ {Screen} : Unmoved(v)
    BY <1>0, <2>2, <2>3, CallStep
  <2>5. QueueTyped' /\ WantedStays
    BY <1>0, <2>1, <2>3 DEF QueueTyped, WantedStays
  <2>6. ScreenOK'
    BY <1>0, <2>1, <2>3 DEF ScreenOK, Waits
  <2> QED BY <1>0, <2>1, <2>3, <2>4, <2>5, <2>6, WorkerStep
<1>3. CASE Enqueue
  <2>1. /\ UNCHANGED <<vars, label, wanted, typing>> /\ run[Screen].at # "idle"
        /\ run' = [run EXCEPT ![Screen] = Idle]
        /\ \/ row' = [row EXCEPT ![o] = NewRow(wanted[o])] /\ nextId' = nextId + 1
           \/ UNCHANGED <<row, nextId>>
    BY <1>3 DEF Enqueue
  <2>2. o \in Ops /\ wanted[o] \in Bodies
    BY <1>0, <2>1 DEF ScreenOK
  <2>3. NewRow(wanted[o]) \in Rows
    BY <1>0, <2>2 DEF NewRow, Rows, QueueTyped
  <2>4. /\ run' \in [Workers -> Runs] /\ \A v \in Workers \ {Screen} : run'[v] = run[v]
        /\ run'[Screen].at = "idle" /\ run'[Screen].call = None
    <3>1. Idle \in Runs /\ Idle.at = "idle" /\ Idle.call = None
      BY LogAssumption DEF Idle, Runs, Between
    <3> QED BY <1>0, <2>1, <3>1 DEF QueueTyped
  <2>5. QueueTyped'
    BY <1>0, <2>1, <2>2, <2>3, <2>4 DEF QueueTyped
  <2>6. ScreenOK'
    BY <2>4 DEF ScreenOK, Waits
  <2> QED BY <1>0, <2>1, <2>4, <2>5, <2>6, LocalStep
<1> QED BY <1>1, <1>2, <1>3

-----------------------------------------------------------------------------
(* Every step.                                                             *)

\* The server goes on, or fails, and the phone does not notice.
LEMMA ServerKeepsQueue ==
    ASSUME QueueInv, ServerStep \/ ServerFault
    PROVE  QueueInv'
<1> PICK c \in Calls : Serve(c) \/ Crash(c)
  BY DEF ServerStep, ServerFault
<1>1. UNCHANGED <<row, nextId, label, wanted, typing, run>>
  BY DEF ServerStep, ServerFault, phone
<1>2. ServerInv' /\ Grows
  BY ServerAnswers DEF QueueInv
<1>3. \A v \in Workers : Unmoved(v)
  <2> SUFFICES ASSUME NEW v \in Workers, run[v].call # None
               PROVE  /\ waited'[run[v].call] = waited[run[v].call]
                      /\ request'[run[v].call] = request[run[v].call]
    BY <1>1 DEF Unmoved
  <2>1. run[v].call \in Calls /\ waited[run[v].call]
    BY DEF QueueInv, PhoneInv, QueueTyped, LoopOK, ScreenOK, Waits, Workers, Runs
  <2>2. waited \in [Calls -> BOOLEAN] /\ waited' \in [Calls -> BOOLEAN]
    BY <1>2 DEF QueueInv, ServerInv, KeyInvariant, TypeOK
  <2>3. waited'[run[v].call] /\ request'[run[v].call] = request[run[v].call]
    BY <2>1, ServedWaits DEF QueueInv
  <2> QED BY <2>1, <2>2, <2>3
<1>4. Screen \in Workers /\ Screen \notin Loops
  BY OpsAssumption DEF Screen, Workers
<1>5. QueueTyped' /\ WantedStays
  BY <1>1 DEF QueueInv, PhoneInv, QueueTyped, WantedStays
<1>6. ScreenOK'
  BY <1>1, <1>3, <1>4 DEF QueueInv, PhoneInv, ScreenOK, Waits, Unmoved
<1> QED BY <1>1, <1>2, <1>3, <1>4, <1>5, <1>6, WorkerStep

\* The app is stopped: the tables are kept, and no call has its client any more.
LEMMA KillKeepsQueue ==
    ASSUME QueueInv, Kill
    PROVE  QueueInv'
<1>0. KeyInvariant /\ TypeOK /\ CallsTyped /\ Entities /\ QueueTyped
  BY TypeParts DEF QueueInv, PhoneInv, ServerInv, KeyInvariant
<1>1. /\ UNCHANGED <<stored, log, row, nextId, label, wanted>> /\ typing' = {}
      /\ run' = [w \in Workers |-> Idle]
  BY <1>0 DEF Kill, QueueTyped
<1>2. /\ waited' = [c \in Calls |-> FALSE]
      /\ at' = [c \in Calls |-> IF at[c] = "answered" THEN "idle" ELSE at[c]]
      /\ request' = [c \in Calls |-> IF at[c] = "answered" THEN NoRequest ELSE request[c]]
      /\ answer' = [c \in Calls |-> IF at[c] = "answered" THEN NoAnswer ELSE answer[c]]
  BY DEF Kill
<1>3. CallsTyped'
  <2>1. NoAnswer \in Answers
    BY AnswerForms
  <2> QED BY <1>0, <1>2, <2>1 DEF CallsTyped, Stages
<1>4. KeyInvariant'
  <2>1. TypeOK'
    BY <1>0, <1>1, <1>3 DEF TypeOK, CallsTyped, Stages, Answers
  <2>2. \A c \in Calls : CallOK(c)'
    BY <1>0, <1>1, <1>2 DEF KeyInvariant, CallOK, Intercepted
  <2>3. Kept'
    BY <1>0, <1>1 DEF KeyInvariant, Kept, Applied
  <2> QED BY <2>1, <2>2, <2>3 DEF KeyInvariant
<1>5. Entities'
  BY <1>0, <1>1, <1>2 DEF Entities, Said, Applied
<1>6. Idle \in Runs /\ Idle.at = "idle" /\ Idle.call = None
  BY LogAssumption DEF Idle, Runs, Between
<1>7. QueueTyped'
  BY <1>0, <1>1, <1>6 DEF QueueTyped
<1>8. (\A w \in Loops : LoopOK(w)') /\ ScreenOK' /\ Apart'
  BY <1>1, <1>6 DEF LoopOK, ScreenOK, Waits, Apart, Workers, Busy
<1>9. SyncedIsExecuted'
  BY <1>1 DEF QueueInv, PhoneInv, SyncedIsExecuted, Executed, Applied
<1> QED BY <1>4, <1>5, <1>7, <1>8, <1>9 DEF QueueInv, ServerInv, PhoneInv

\* Every step keeps the invariant.
LEMMA QueueNextInvariant == QueueInv /\ [QueueNext]_queueVars => QueueInv'
<1> SUFFICES ASSUME QueueInv, [QueueNext]_queueVars PROVE QueueInv'
  OBVIOUS
<1>1. ASSUME NEW w \in Loops, Loop(w) \/ Lost(w) PROVE QueueInv'
  BY <1>1, AroundKeepsQueue, TakeKeepsQueue, AnswerKeepsQueue, CheckKeepsQueue, SettleKeepsQueue,
     LostKeepsQueue DEF Loop
<1>2. CASE (\E o \in Ops : Due(o)) \/ User \/ App \/ OnlineLost
  BY <1>2, TablesKeepQueue, ScreenKeepsQueue DEF User, App
<1>3. CASE UNCHANGED queueVars
  <2>1. UNCHANGED <<vars, run>> /\ UNCHANGED <<row, nextId, label, wanted, typing>>
    BY <1>3 DEF queueVars, phone
  <2>2. QueueTyped' /\ WantedStays
    BY <2>1 DEF QueueInv, PhoneInv, QueueTyped, WantedStays
  <2> QED BY <2>1, <2>2, TableStep
<1> QED BY <1>1, <1>2, <1>3, ServerKeepsQueue, KillKeepsQueue DEF QueueNext

\* Nothing is queued, sent or done.
LEMMA QueueInitially == QueueInit => QueueInv
<1> SUFFICES ASSUME QueueInit PROVE QueueInv
  OBVIOUS
<1>1. KeyInvariant
  BY KeyInit DEF QueueInit
<1>2. Entities
  BY DEF QueueInit, Init, Entities, Said
<1>3. Idle \in Runs /\ Idle.at = "idle" /\ Idle.call = None
  BY LogAssumption DEF Idle, Runs, Between
<1>4. NoRow \in Rows
  BY DEF NoRow, Rows
<1>5. QueueTyped
  BY <1>3, <1>4 DEF QueueInit, QueueTyped, Workers
<1>6. (\A w \in Loops : LoopOK(w)) /\ ScreenOK /\ Apart
  BY <1>3 DEF QueueInit, LoopOK, ScreenOK, Waits, Apart, Workers, Busy
<1>7. SyncedIsExecuted
  BY DEF QueueInit, SyncedIsExecuted
<1> QED BY <1>1, <1>2, <1>5, <1>6, <1>7 DEF QueueInv, ServerInv, PhoneInv

\* In every reachable state a loop is past a step of an operation only if the server
\* did it, for any operations, calls, faults, and with both loops at once.
THEOREM QueueInvariance == QueueSpec => []QueueInv
BY QueueInitially, QueueNextInvariant, PTL DEF QueueSpec

\* What the request centre shows as synced was done by the server
\* (markOfflineRequestResult), whatever was lost, killed or corrected meanwhile.
THEOREM SyncedWasExecuted == QueueSpec => []SyncedIsExecuted
<1>1. QueueInv => SyncedIsExecuted
  BY DEF QueueInv, PhoneInv
<1> QED BY <1>1, QueueInvariance, PTL

\* A reservation is made once however its request was retried: its key is kept in the
\* transaction that creates it.
THEOREM ReservedOnce == QueueSpec => []BookedOnce
<1>1. QueueInv => BookedOnce
  <2> SUFFICES ASSUME QueueInv, NEW o \in Bookings PROVE Cardinality(Applied(CreateKey(o))) <= 1
    BY DEF BookedOnce
  <2> DEFINE k == CreateKey(o)
  <2>1. k \in Strict
    BY OpsAssumption DEF Ops, CreateKey, Strict
  <2>2. Applied(k) = {} \/ Applied(k) = {stored[k]}
    BY <2>1 DEF QueueInv, ServerInv, KeyInvariant, Kept
  <2>3. Cardinality({}) = 0 /\ Cardinality({stored[k]}) = 1
    BY FS_EmptySet, FS_Singleton
  <2> QED BY <2>2, <2>3
<1> QED BY <1>1, QueueInvariance, PTL

\* A row that waits leaves the queue only when its operation was done: a crash, a lost
\* answer, a correction and the other loop lose nothing.
THEOREM QueueLosesNothing == QueueSpec => NothingLost
<1>1. QueueInv /\ [QueueNext]_queueVars =>
        \A o \in Ops : Queued(o) /\ row'[o].id = 0 /\ row[o].status = "pending" /\ label[o] # "draft"
           => Executed(o)
  <2> SUFFICES ASSUME QueueInv, [QueueNext]_queueVars, NEW o \in Ops,
                      row[o].id # 0, row'[o].id = 0, row[o].status = "pending", label[o] # "draft"
               PROVE  Executed(o)
    BY DEF Queued
  <2>0. QueueTyped /\ row \in [Ops -> Rows]
    BY DEF QueueInv, PhoneInv, QueueTyped
  <2>1. row' # row
    OBVIOUS
  <2>2. ASSUME NEW w \in Loops, Loop(w) \/ Lost(w) PROVE Executed(o)
    <3>1. Settle(w)
      BY <2>1, <2>2 DEF Loop, Lost, Begin, Done, Take, Created, Check, Submitted
    <3>2. CASE Remove(w)
      BY <2>0, <3>2, LoopIs DEF Remove, Write, LoopOK, Busy, Jobs, Queued
    <3>3. ASSUME NEW r, Write(w, r), r.id = row[run[w].job.op].id PROVE FALSE
      BY <2>0, <3>3 DEF Write
    <3>4. CASE Block(w) \/ Backoff(w)
      <4>1. run[w].job.op \in Ops
        BY <3>4, LoopIs DEF LoopOK, Busy, Jobs, Block, Backoff
      <4> QED BY <2>0, <3>3, <3>4, <4>1 DEF Block, Backoff, Rows
    <3> QED BY <2>1, <3>1, <3>2, <3>4 DEF Settle, MarkSynced, MarkBlocked, MarkPending
  <2>3. ASSUME (\E p \in Ops : Due(p)) \/ RetryBlocked \/ DiscardBlocked PROVE FALSE
    BY <2>0, <2>3 DEF Due, RetryBlocked, DiscardBlocked, Blocked, Rows
  <2>4. ASSUME \E p \in Forms : DeleteDraft(p) \/ Resubmit(p) PROVE FALSE
    BY <2>0, <2>4 DEF DeleteDraft, Resubmit, NewRow, QueueTyped, Queued
  <2>5. ASSUME Enqueue PROVE FALSE
    BY <2>0, <2>5 DEF Enqueue, NewRow, QueueTyped
  <2>6. CASE OnlineAnswered \/ OnlineLost \/ ServerStep \/ ServerFault \/ Kill \/ UNCHANGED queueVars
    BY <2>1, <2>6 DEF OnlineAnswered, OnlineLost, ServerStep, ServerFault, Kill, queueVars, phone
  <2>7. ASSUME \/ \E p \in Posts \cup Bookings, b \in Bodies : TryOnline(p, b)
               \/ \E p \in Forms, b \in Bodies : SaveDraft(p, b) \/ RecordPending(p, b)
        PROVE  FALSE
    BY <2>1, <2>7 DEF TryOnline, SaveDraft, RecordPending
  <2> QED BY <2>2, <2>3, <2>4, <2>5, <2>6, <2>7 DEF QueueNext, User, App
<1>2. QueueInv /\ [QueueNext]_queueVars =>
        [\A o \in Ops : Queued(o) /\ row'[o].id = 0 /\ row[o].status = "pending" /\ label[o] # "draft"
           => Executed(o)]_queueVars
  BY <1>1
<1> QED BY <1>2, QueueInvariance, PTL DEF QueueSpec, NothingLost
=============================================================================
