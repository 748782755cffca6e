----------------------------- MODULE PrintJobs -----------------------------
(***************************************************************************)
(* Barcode labels.  A screen queues a job under an operation id, an agent  *)
(* beside the printer claims the oldest one, prints it and acknowledges.   *)
(* A claim older than five minutes becomes 'unknown' and is never queued   *)
(* again; the acknowledgement may still come, late or twice.               *)
(*                                                                         *)
(* A job stands for its operation id: a second request under it inserts    *)
(* nothing, and is refused if it asks for something else.                  *)
(***************************************************************************)
EXTENDS Naturals

CONSTANTS Labels, \* operation ids of label jobs
          Agents  \* programs beside a printer

VARIABLES printStatus, \* barcode_print_jobs.status
          claimant,    \* whose claim the row bears
          claimAge,    \* "new", or "old" five minutes after the claim
          agent,       \* what each agent is doing
          acks,        \* acknowledgements sent, possibly still on their way
          printed      \* how often the printer was given the job

printVars == <<printStatus, claimant, claimAge, agent, acks, printed>>

PrintStatus == {"absent", "queued", "dispatching", "unknown", "submitted", "failed"}
PrintOutcome == {"submitted", "failed", "unknown"}
Resting == [phase |-> "idle", label |-> "none", outcome |-> "unknown"]
Ack == [label : Labels, by : Agents, outcome : PrintOutcome]

PrintTypeOK ==
    /\ printStatus \in [Labels -> PrintStatus]
    /\ claimant \in [Labels -> Agents \cup {"nobody"}]
    /\ claimAge \in [Labels -> {"new", "old"}]
    /\ agent \in [Agents -> [phase : {"idle", "claimed", "printing", "done"},
                             label : Labels \cup {"none"}, outcome : PrintOutcome]]
    /\ acks \subseteq Ack
    /\ printed \in [Labels -> Nat]

PrintInit ==
    /\ printStatus = [l \in Labels |-> "absent"]
    /\ claimant = [l \in Labels |-> "nobody"]
    /\ claimAge = [l \in Labels |-> "new"]
    /\ agent = [a \in Agents |-> Resting]
    /\ acks = {}
    /\ printed = [l \in Labels |-> 0]

-----------------------------------------------------------------------------
(* The server.                                                             *)

QueueLabel(l) ==
    /\ printStatus[l] = "absent"
    /\ printStatus' = [printStatus EXCEPT ![l] = "queued"]
    /\ UNCHANGED <<claimant, claimAge, agent, acks, printed>>

\* Five minutes pass.
ClaimAges(l) ==
    /\ printStatus[l] = "dispatching" /\ claimAge[l] = "new"
    /\ claimAge' = [claimAge EXCEPT ![l] = "old"]
    /\ UNCHANGED <<printStatus, claimant, agent, acks, printed>>

\* Mutant of Expire: what was not acknowledged is tried again.
Requeue ==
    /\ \E l \in Labels : printStatus[l] = "dispatching" /\ claimAge[l] = "old"
    /\ printStatus' = [l \in Labels |->
          IF printStatus[l] = "dispatching" /\ claimAge[l] = "old" THEN "queued" ELSE printStatus[l]]
    /\ UNCHANGED <<claimant, claimAge, agent, acks, printed>>

\* The first statement of an agent's poll.
Expire ==
    /\ \E l \in Labels : printStatus[l] = "dispatching" /\ claimAge[l] = "old"
    /\ printStatus' = [l \in Labels |->
          IF printStatus[l] = "dispatching" /\ claimAge[l] = "old" THEN "unknown" ELSE printStatus[l]]
    /\ UNCHANGED <<claimant, claimAge, agent, acks, printed>>

\* The second: one queued row gets a fresh claim.  The answer may be lost on
\* its way to the agent.
ClaimLabel(a, l) ==
    /\ agent[a] = Resting
    /\ printStatus[l] = "queued"
    /\ printStatus' = [printStatus EXCEPT ![l] = "dispatching"]
    /\ claimant' = [claimant EXCEPT ![l] = a]
    /\ claimAge' = [claimAge EXCEPT ![l] = "new"]
    /\ \/ agent' = [agent EXCEPT ![a] = [phase |-> "claimed", label |-> l, outcome |-> "failed"]]
       \/ UNCHANGED agent
    /\ UNCHANGED <<acks, printed>>

\* The update asks for the claim and for a row not settled yet.
Unsettled(l) == printStatus[l] \in {"dispatching", "unknown"}

\* Mutant of Acknowledge: the claim alone decides.
AcknowledgeAny(m) ==
    /\ m \in acks /\ claimant[m.label] = m.by
    /\ printStatus' = [printStatus EXCEPT ![m.label] = m.outcome]
    /\ UNCHANGED <<claimant, claimAge, agent, acks, printed>>

\* An acknowledgement may arrive any number of times, or never.
Acknowledge(m) ==
    /\ m \in acks /\ claimant[m.label] = m.by /\ Unsettled(m.label)
    /\ printStatus' = [printStatus EXCEPT ![m.label] = m.outcome]
    /\ UNCHANGED <<claimant, claimAge, agent, acks, printed>>

-----------------------------------------------------------------------------
(* The agent.                                                              *)

SetAgent(a, phase, outcome) ==
    agent' = [agent EXCEPT ![a] = [phase |-> phase, label |-> agent[a].label, outcome |-> outcome]]

\* The printer or the label is no good: nothing was printed.
CannotPrint(a) ==
    /\ agent[a].phase = "claimed"
    /\ SetAgent(a, "done", "failed")
    /\ UNCHANGED <<printStatus, claimant, claimAge, acks, printed>>

\* From here on a failure is ambiguous.
StartPrint(a) ==
    /\ agent[a].phase = "claimed"
    /\ SetAgent(a, "printing", "unknown")
    /\ UNCHANGED <<printStatus, claimant, claimAge, acks, printed>>

RunPrinter(a) ==
    /\ agent[a].phase = "printing"
    /\ \/ /\ printed' = [printed EXCEPT ![agent[a].label] = @ + 1]
          /\ \E o \in {"submitted", "unknown"} : SetAgent(a, "done", o)
       \/ SetAgent(a, "done", "unknown") /\ UNCHANGED printed
    /\ UNCHANGED <<printStatus, claimant, claimAge, acks>>

\* Sent three times at most; copies on their way stay in acks.
SendAck(a) ==
    /\ agent[a].phase = "done"
    /\ acks' = acks \cup {[label |-> agent[a].label, by |-> a, outcome |-> agent[a].outcome]}
    /\ agent' = [agent EXCEPT ![a] = Resting]
    /\ UNCHANGED <<printStatus, claimant, claimAge, printed>>

\* The agent is stopped, possibly with the label already in the printer.
AgentStops(a) ==
    /\ agent[a] # Resting
    /\ agent' = [agent EXCEPT ![a] = Resting]
    /\ \/ agent[a].phase = "printing" /\ printed' = [printed EXCEPT ![agent[a].label] = @ + 1]
       \/ UNCHANGED printed
    /\ UNCHANGED <<printStatus, claimant, claimAge, acks>>

AgentStep(a) == CannotPrint(a) \/ StartPrint(a) \/ RunPrinter(a) \/ SendAck(a) \/ AgentStops(a)

PrintNext ==
    \/ \E l \in Labels : QueueLabel(l) \/ ClaimAges(l)
    \/ Expire
    \/ \E a \in Agents, l \in Labels : ClaimLabel(a, l)
    \/ \E m \in acks : Acknowledge(m)
    \/ \E a \in Agents : AgentStep(a)

PrintSpec == PrintInit /\ [][PrintNext]_printVars

-----------------------------------------------------------------------------
(* Properties.                                                             *)

\* "Never automatically print again": however agents die, answers are lost or
\* acknowledgements come late, a label goes to the printer at most once, a job
\* called failed was not printed, and one called submitted was
\* (barcode-print-worker.ps1, next, ack).
PrintedOnce == \A l \in Labels :
    /\ printed[l] <= 1
    /\ printStatus[l] \in {"absent", "queued", "failed"} => printed[l] = 0
    /\ printStatus[l] = "submitted" => printed[l] = 1
=============================================================================
