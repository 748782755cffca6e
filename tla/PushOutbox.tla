---------------------------- MODULE PushOutbox ----------------------------
(***************************************************************************)
(* Delivery of notifications to the devices of their users.  Every five    *)
(* seconds each server process lists the deliveries that are due, claims   *)
(* them one by one for two minutes, sends what waits in batches, stores    *)
(* every batch, and asks for receipts until all are settled.               *)
(*                                                                         *)
(* A process works on the row it read before the claim.  The provider may  *)
(* accept a batch whose answer is lost.                                    *)
(***************************************************************************)
EXTENDS Naturals, FiniteSets

CONSTANTS Deliveries,
          Devices,    \* devices of a delivery's user
          Processes,  \* server processes; each runs one dispatch at a time
          SendLimit,  \* attempts at sending, 8 in the code
          MaxStops    \* bound on the crashes of processes

ASSUME OutboxAssumption == SendLimit \in Nat \ {0} /\ IsFiniteSet(Processes)

VARIABLES pushStatus, \* hr_push_deliveries.status, "absent" before the notification
          attempts,
          due,        \* whether nextAttempt has passed
          result,     \* what is stored for each device; "none" before the first
          aged,       \* a day has passed since acceptedAt
          device,     \* device_push_tokens: "new", "registered" or "gone"
          worker,     \* what each process is doing
          sent,       \* how often the provider took the message for a device
          stops

pushVars == <<pushStatus, attempts, due, result, aged, device, worker, sent, stops>>
pushTable == <<pushStatus, attempts, due, result, aged>>

Over == {"provider_delivered", "partial_failed", "failed", "receipt_unknown", "inactive"}
NoTargets == [t \in Devices |-> "none"]
Asleep == [phase |-> "idle"]

OutboxInit ==
    /\ pushStatus = [d \in Deliveries |-> "absent"]
    /\ attempts = [d \in Deliveries |-> 0]
    /\ due = [d \in Deliveries |-> TRUE]
    /\ result = [d \in Deliveries |-> NoTargets]
    /\ aged = [d \in Deliveries |-> FALSE]
    /\ device = [t \in Devices |-> "new"]
    /\ worker = [p \in Processes |-> Asleep]
    /\ sent = [d \in Deliveries |-> [t \in Devices |-> 0]]
    /\ stops = 0

Among(targets, states) == {t \in DOMAIN targets : targets[t] \in states}
Some(targets, states) == Among(targets, states) # {}
Registered == {t \in Devices : device[t] = "registered"}

\* The row of a notification is inserted with it.
Notify(d) ==
    /\ pushStatus[d] = "absent"
    /\ pushStatus' = [pushStatus EXCEPT ![d] = "queued"]
    /\ UNCHANGED <<attempts, due, result, aged, device, worker, sent, stops>>

-----------------------------------------------------------------------------
(* Listing and claiming.                                                   *)

\* What has used up its attempts fails.
Exhaust(p) ==
    /\ worker[p] = Asleep
    /\ pushStatus' = [d \in Deliveries |->
          IF pushStatus[d] = "queued" /\ attempts[d] >= SendLimit THEN "failed" ELSE pushStatus[d]]
    /\ worker' = [worker EXCEPT ![p] = [phase |-> "read", rows |-> {}]]
    /\ UNCHANGED <<attempts, due, result, aged, device, sent, stops>>

ListDue(p) ==
    /\ worker[p].phase = "read"
    /\ worker' = [worker EXCEPT ![p] = [phase |-> "rows", rows |->
          {[of |-> d, status |-> pushStatus[d], attempts |-> attempts[d], result |-> result[d]] :
             d \in {e \in Deliveries : pushStatus[e] \in {"queued", "accepted"} /\ due[e]}}]]
    /\ UNCHANGED <<pushTable, device, sent, stops>>

\* Mutant of Recalled: the stored targets are not looked at.
Forgotten(r) == NoTargets

\* The targets stored by earlier attempts, as the row was read.
Recalled(r) == r.result

\* Mutant of Counted: only a delivery that failed would count.
Uncounted(r) == attempts

Counted(r) == IF r.status = "queued" THEN [attempts EXCEPT ![r.of] = @ + 1] ELSE attempts

Claimable(r) == pushStatus[r.of] = r.status /\ due[r.of]

\* The conditional update; the work goes on from the row as it was read.
ClaimRow(p) ==
    /\ worker[p].phase = "rows"
    /\ \E r \in worker[p].rows :
       LET rest == worker[p].rows \ {r} IN
       IF Claimable(r)
       THEN /\ due' = [due EXCEPT ![r.of] = FALSE]
            /\ attempts' = Counted(r)
            /\ worker' = [worker EXCEPT ![p] =
                  [phase |-> "start", rows |-> rest, row |-> r, targets |-> Recalled(r),
                   devices |-> {}, todo |-> {}, permanent |-> FALSE]]
       ELSE /\ worker' = [worker EXCEPT ![p].rows = rest]
            /\ UNCHANGED <<due, attempts>>
    /\ UNCHANGED <<pushStatus, result, aged, device, sent, stops>>

NoMoreRows(p) ==
    /\ worker[p].phase = "rows" /\ worker[p].rows = {}
    /\ worker' = [worker EXCEPT ![p] = Asleep]
    /\ UNCHANGED <<pushTable, device, sent, stops>>

-----------------------------------------------------------------------------
(* One claimed row.                                                        *)

NextRow(p) == worker' = [worker EXCEPT ![p] = [phase |-> "rows", rows |-> worker[p].rows]]

\* The update by id that ends the work on a row.
StoreRow(p, status, targets) ==
    LET d == worker[p].row.of IN
    /\ pushStatus' = [pushStatus EXCEPT ![d] = status]
    /\ result' = [result EXCEPT ![d] = targets]
    /\ due' = [due EXCEPT ![d] = FALSE]
    /\ NextRow(p)
    /\ UNCHANGED <<attempts, aged, sent, stops>>

LastAttempt(p) == worker[p].row.attempts >= SendLimit - 1
Expired(p) == aged[worker[p].row.of] /\ worker[p].row.result # NoTargets

UserInactive(p) ==
    /\ worker[p].phase = "start"
    /\ pushStatus' = [pushStatus EXCEPT ![worker[p].row.of] = "inactive"]
    /\ NextRow(p)
    /\ UNCHANGED <<attempts, due, result, aged, device, sent, stops>>

\* The devices are read once; only a first attempt makes targets of them.
Prepare(p) ==
    /\ worker[p].phase = "start" /\ worker[p].row.status = "queued"
    /\ LET targets == IF worker[p].targets # NoTargets THEN worker[p].targets
                      ELSE [t \in Devices |-> IF t \in Registered THEN "waiting" ELSE "none"]
       IN IF targets = NoTargets
          THEN StoreRow(p, IF LastAttempt(p) THEN "failed" ELSE "queued", NoTargets)
          ELSE /\ worker' = [worker EXCEPT ![p] = [@ EXCEPT !.phase = "send", !.targets = targets,
                     !.devices = Registered, !.todo = Among(targets, {"waiting"})]]
               /\ UNCHANGED <<pushTable, sent, stops>>
    /\ UNCHANGED device

\* A row accepted earlier, or one whose batches are all sent.
AllSent(p) ==
    /\ \/ worker[p].phase = "start" /\ worker[p].row.status = "accepted"
       \/ worker[p].phase = "send" /\ worker[p].todo = {}
    /\ worker' = [worker EXCEPT ![p].phase = "finish"]
    /\ UNCHANGED <<pushTable, device, sent, stops>>

\* Of the devices refused, those the provider does not know are forgotten.
RemoveInvalid(refused) == \E invalid \in SUBSET refused :
    device' = [t \in Devices |-> IF t \in invalid THEN "gone" ELSE device[t]]

\* The devices of a batch that are no longer registered fail.
Known(p, batch) == batch \cap worker[p].devices
WithoutGone(p, batch) ==
    [t \in Devices |-> IF t \in batch \ Known(p, batch) THEN "failed" ELSE worker[p].targets[t]]

\* The provider answers for each device: taken, to be tried again, or refused.
SendBatch(p, batch) ==
    /\ worker[p].phase = "send" /\ batch # {} /\ batch \subseteq worker[p].todo
    /\ LET there == Known(p, batch)
           again == {"accepted", "failed"} \cup (IF LastAttempt(p) THEN {} ELSE {"waiting"})
       IN \E said \in [there -> again] :
             /\ worker' = [worker EXCEPT ![p] = [@ EXCEPT
                   !.phase = IF there = {} THEN "send" ELSE "store",
                   !.todo = worker[p].todo \ batch,
                   !.targets = [t \in Devices |->
                       IF t \in there THEN said[t] ELSE WithoutGone(p, batch)[t]]]]
             /\ sent' = [sent EXCEPT ![worker[p].row.of] =
                   [t \in Devices |-> IF t \in there /\ said[t] = "accepted" THEN @[t] + 1 ELSE @[t]]]
             /\ RemoveInvalid(Among(said, {"failed"}))
    /\ UNCHANGED <<pushTable, stops>>

\* A refusal for good (4xx), or no proper answer: then the provider may have
\* taken the batch all the same.
SendFails(p, batch) ==
    /\ worker[p].phase = "send" /\ batch # {} /\ batch \subseteq worker[p].todo
    /\ Known(p, batch) # {}
    /\ \E permanent \in BOOLEAN, taken \in {{}, Known(p, batch)} :
          /\ permanent => taken = {}
          /\ worker' = [worker EXCEPT ![p] = [@ EXCEPT !.phase = "error", !.permanent = permanent,
                                                       !.targets = WithoutGone(p, batch)]]
          /\ sent' = [sent EXCEPT ![worker[p].row.of] =
                [t \in Devices |-> IF t \in taken THEN @[t] + 1 ELSE @[t]]]
    /\ UNCHANGED <<pushTable, device, stops>>

\* "A retry must not resend their notifications."
StoreBatch(p) ==
    /\ worker[p].phase = "store"
    /\ result' = [result EXCEPT ![worker[p].row.of] = worker[p].targets]
    /\ worker' = [worker EXCEPT ![p].phase = "send"]
    /\ UNCHANGED <<pushStatus, attempts, due, aged, device, sent, stops>>

\* Mutant of RowStatus: a receipt that never comes is waited for.
Patient(targets, expired) ==
    IF Some(targets, {"waiting"}) THEN "queued"
    ELSE IF Some(targets, {"accepted"}) THEN "accepted"
    ELSE IF ~ Some(targets, {"failed"}) THEN "provider_delivered"
    ELSE IF Some(targets, {"delivered"}) THEN "partial_failed" ELSE "failed"

\* What a row is called when its targets stand thus.
RowStatus(targets, expired) ==
    IF Some(targets, {"waiting"}) THEN "queued"
    ELSE IF Some(targets, {"accepted"}) THEN IF expired THEN "receipt_unknown" ELSE "accepted"
    ELSE IF ~ Some(targets, {"failed"}) THEN "provider_delivered"
    ELSE IF Some(targets, {"delivered"}) THEN "partial_failed" ELSE "failed"

\* Receipts are asked for only for a row read as accepted; some may be missing.
Finish(p) ==
    /\ worker[p].phase = "finish"
    /\ LET pending == IF worker[p].row.status = "accepted" THEN Among(worker[p].targets, {"accepted"}) ELSE {}
       IN \E heard \in [pending -> {"accepted", "delivered", "failed"}] :
             LET targets == [t \in Devices |-> IF t \in pending THEN heard[t] ELSE worker[p].targets[t]]
             IN /\ StoreRow(p, RowStatus(targets, Expired(p)), targets)
                /\ RemoveInvalid(Among(heard, {"failed"}))

ReceiptsFail(p) ==
    /\ worker[p].phase = "finish" /\ worker[p].row.status = "accepted"
    /\ Some(worker[p].targets, {"accepted"})
    /\ \E permanent \in BOOLEAN :
          worker' = [worker EXCEPT ![p] = [@ EXCEPT !.phase = "error", !.permanent = permanent]]
    /\ UNCHANGED <<pushTable, device, sent, stops>>

\* The catch: after the last attempt, or for good, what waits has failed.
Caught(p) ==
    /\ worker[p].phase = "error"
    /\ LET w == worker[p]
           hopeless == w.row.status = "queued" /\ (LastAttempt(p) \/ w.permanent)
           targets == [t \in Devices |->
              IF hopeless /\ w.targets[t] = "waiting" THEN "failed" ELSE w.targets[t]]
           status == IF Some(targets, {"waiting", "accepted"})
                     THEN RowStatus(targets, Expired(p))
                     ELSE IF w.row.status = "accepted" THEN "receipt_unknown"
                     ELSE IF LastAttempt(p) \/ w.permanent THEN "failed" ELSE "queued"
       IN StoreRow(p, status, targets)
    /\ UNCHANGED device

-----------------------------------------------------------------------------
(* Time, devices, crashes.                                                 *)

TimePasses(d) ==
    /\ ~ due[d] /\ pushStatus[d] \notin Over
    /\ due' = [due EXCEPT ![d] = TRUE]
    /\ UNCHANGED <<pushStatus, attempts, result, aged, device, worker, sent, stops>>

DayPasses(d) ==
    /\ ~ aged[d] /\ result[d] # NoTargets
    /\ aged' = [aged EXCEPT ![d] = TRUE]
    /\ UNCHANGED <<pushStatus, attempts, due, result, device, worker, sent, stops>>

\* A token is stored when the application starts, and removed at logout.
DeviceChanges(t) ==
    /\ device[t] # "gone"
    /\ device' = [device EXCEPT ![t] = IF @ = "new" THEN "registered" ELSE "gone"]
    /\ UNCHANGED <<pushTable, worker, sent, stops>>

\* The process stops, or the database fails under it and ends the round.
ProcessStops(p) ==
    /\ worker[p] # Asleep /\ stops < MaxStops
    /\ worker' = [worker EXCEPT ![p] = Asleep]
    /\ stops' = stops + 1
    /\ UNCHANGED <<pushTable, device, sent>>

Dispatch(p) ==
    \/ Exhaust(p) \/ ListDue(p) \/ ClaimRow(p) \/ NoMoreRows(p)
    \/ UserInactive(p) \/ Prepare(p) \/ AllSent(p)
    \/ \E batch \in SUBSET Devices : SendBatch(p, batch) \/ SendFails(p, batch)
    \/ StoreBatch(p) \/ Finish(p) \/ ReceiptsFail(p) \/ Caught(p)

OutboxNext ==
    \/ \E p \in Processes : Dispatch(p) \/ ProcessStops(p)
    \/ \E d \in Deliveries : Notify(d) \/ TimePasses(d) \/ DayPasses(d)
    \/ \E t \in Devices : DeviceChanges(t)

TimeFair == \A d \in Deliveries : WF_pushVars(TimePasses(d)) /\ WF_pushVars(DayPasses(d))

\* The interval of five seconds starts a dispatch again and again.
OutboxSpec ==
    /\ OutboxInit /\ [][OutboxNext]_pushVars
    /\ TimeFair /\ \A p \in Processes : WF_pushVars(Dispatch(p))

-----------------------------------------------------------------------------
(* Properties.                                                             *)

\* No device is sent a message more often than its delivery was claimed for
\* sending, and that is at most eight times, whatever stops, fails or is lost
\* (dispatch: the claim counts before anything is sent).
SendsBounded == \A d \in Deliveries, t \in Devices :
    sent[d][t] <= attempts[d] /\ attempts[d] <= SendLimit

\* "A retry must not resend": while one process dispatches, a device whose
\* acceptance is stored is never sent the message again, crashes included.
AcceptedNotResent ==
    [][\A d \in Deliveries, t \in Devices :
          result[d][t] \in {"accepted", "delivered"} => sent'[d][t] = sent[d][t]]_pushVars

\* Every notification ends in a final state (interval, backoff, attempts and the
\* day after which a missing receipt is given up).
DeliveriesEnd == \A d \in Deliveries : pushStatus[d] = "queued" ~> pushStatus[d] \in Over
=============================================================================
